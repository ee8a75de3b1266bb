----------------------------- MODULE MCHashSet -----------------------------
(* HashSet instantiated for TLC: integer keys 1, 2 and 17, where 1 and 17  *)
(* collide in every table (the collision of spec.md section 8, scenario 1) *)
(* and 2 does too in a one-bucket table (bitsize 0); the default bitsize 2 *)
(* gives four buckets, two of them always empty, so iteration skips empty  *)
(* buckets before, between and after the live ones.                       *)
EXTENDS HashSet

\* CapuDefaultHashFunction on an integer key: its value masked to bitsize.
MCHashOf(k, bits) == k % (2 ^ bits)

=============================================================================
