------------------------- MODULE MCGuardedHashSet -------------------------
(* Two threads, a one-bit table holding keys 1 and 2 in separate buckets, *)
(* and a recursion limit of 1 below the clients' nesting depth of 2, so   *)
(* that a recursive lock() that pthread refuses is reached.               *)
EXTENDS GuardedHashSet

MCHashOf(k, bits) == k % (2 ^ bits)

=============================================================================
