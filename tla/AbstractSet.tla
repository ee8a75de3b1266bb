---------------------------- MODULE AbstractSet ----------------------------
(***************************************************************************)
(* What a HashSet object promises, with the table abstracted away: each   *)
(* live object holds a set of keys, and put / remove / clear return the    *)
(* status_t that HashSet.h documents for them:                             *)
(*   put    : CAPU_OK, or CAPU_ERROR if the value already is in the set    *)
(*   remove : CAPU_OK, or CAPU_ERANGE if the value is not in the set       *)
(*   clear  : CAPU_OK                                                      *)
(* Iteration does not change the abstract state.                           *)
(***************************************************************************)
CONSTANTS Keys, Sets

VARIABLES alive, elems, ret

AInit ==
  /\ alive = {}
  /\ elems = [s \in Sets |-> {}]
  /\ ret = "CAPU_OK"

ANew(s, contents) ==
  /\ s \notin alive
  /\ alive' = alive \cup {s}
  /\ elems' = [elems EXCEPT ![s] = contents]
  /\ UNCHANGED ret

AFree(s) ==
  /\ s \in alive
  /\ alive' = alive \ {s}
  /\ elems' = [elems EXCEPT ![s] = {}]
  /\ UNCHANGED ret

APut(s, k) ==
  /\ s \in alive
  /\ ret' = IF k \in elems[s] THEN "CAPU_ERROR" ELSE "CAPU_OK"
  /\ elems' = [elems EXCEPT ![s] = @ \cup {k}]
  /\ UNCHANGED alive

ARemove(s, k) ==
  /\ s \in alive
  /\ ret' = IF k \in elems[s] THEN "CAPU_OK" ELSE "CAPU_ERANGE"
  /\ elems' = [elems EXCEPT ![s] = @ \ {k}]
  /\ UNCHANGED alive

AClear(s) ==
  /\ s \in alive
  /\ ret' = "CAPU_OK"
  /\ elems' = [elems EXCEPT ![s] = {}]
  /\ UNCHANGED alive

ANext ==
  \/ \E s \in Sets : ANew(s, {}) \/ AFree(s) \/ AClear(s)
  \/ \E s, o \in Sets : o \in alive /\ ANew(s, elems[o])
  \/ \E s \in Sets, k \in Keys : APut(s, k) \/ ARemove(s, k)

ASpec == AInit /\ [][ANext]_<<alive, elems, ret>>

=============================================================================
