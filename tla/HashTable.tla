----------------------------- MODULE HashTable -----------------------------
(***************************************************************************)
(* capu::HashTable<T, char_t, C, H>, the chained hash table that HashSet   *)
(* owns (HashSet.h line 200).  HashTable.h is not among the sources, so    *)
(* this module follows spec.md sections 3, 4.1 and 4.3.                    *)
(*                                                                         *)
(* A table is a value, so that the copy constructor (a deep copy) is plain *)
(* assignment and two HashSet objects never share state.  In set mode the  *)
(* value slot is a placeholder that is never read, so an entry is its key. *)
(*   bits    : the bitsize given at construction; capacity is 2^bits,     *)
(*             fixed for the table's lifetime (no automatic growth)        *)
(*   buckets : bucket index -> chain of keys, in chain order               *)
(*   count   : entryCount                                                  *)
(* An iterator is a cursor (bucket index, position in the chain); End is   *)
(* the value-free one-past-last sentinel.                                  *)
(***************************************************************************)
EXTENDS Integers, Sequences, SequencesExt, FiniteSets, FiniteSetsExt

CONSTANTS
  Keys,          \* the key values put into tables
  HashOf(_, _)   \* H::Hash(key, bitsize), deterministic for equal keys

\* status_t values returned by the table (capu/Error.h)
CAPU_OK     == "CAPU_OK"
CAPU_ERROR  == "CAPU_ERROR"
CAPU_ERANGE == "CAPU_ERANGE"

Capacity(t) == 2 ^ t.bits

\* Bucket of a key: the hash masked by capacity - 1.
BucketOf(t, k) == HashOf(k, t.bits) % Capacity(t)

\* The constructor HashTable(bitsize): 2^bitsize empty buckets.
NewTable(bits) ==
  [bits |-> bits, buckets |-> [i \in 0 .. 2 ^ bits - 1 |-> <<>>], count |-> 0]

\* contains(key): walk the key's bucket comparing with C.
TContains(t, k) == Contains(t.buckets[BucketOf(t, k)], k)

\* put(key, value): an equal key keeps its place (its placeholder value is
\* overwritten); otherwise the entry is appended to its chain and
\* entryCount grows.  Always CAPU_OK.
TPut(t, k) ==
  IF TContains(t, k) THEN t
  ELSE [t EXCEPT !.buckets[BucketOf(t, k)] = Append(@, k),
                 !.count = @ + 1]

\* remove(key): unlink the matching entry and decrement entryCount.
TRemove(t, k) ==
  [t EXCEPT !.buckets[BucketOf(t, k)] = RemoveFirst(@, k),
            !.count = @ - 1]

\* Mutant: the not-found status named as spec.md section 6 names it.
TRemoveStatusNotFound(t, k) == IF TContains(t, k) THEN CAPU_OK ELSE "NOT_FOUND"

TRemoveStatus(t, k) == IF TContains(t, k) THEN CAPU_OK ELSE CAPU_ERANGE

\* clear(): every chain emptied, entryCount 0, capacity kept.
TClear(t) == [t EXCEPT !.buckets = [i \in DOMAIN @ |-> <<>>], !.count = 0]

\* The keys reachable by walking all buckets.
Entries(t) == UNION {ToSet(t.buckets[i]) : i \in DOMAIN t.buckets}

---------------------------------------------------------------------------
(* Iterator *)

End == [bucket |-> -1, pos |-> 0]

\* The first entry of the first non-empty bucket at or after index b.
FirstFrom(t, b) ==
  LET live == {i \in b .. Capacity(t) - 1 : t.buckets[i] # <<>>}
  IN  IF live = {} THEN End ELSE [bucket |-> Min(live), pos |-> 1]

\* begin(): the first entry, or End for an empty table.
TBegin(t) == FirstFrom(t, 0)

\* Mutant: at the end of a chain, the search restarts at the same bucket.
TAdvanceSameBucket(t, c) ==
  IF c.pos < Len(t.buckets[c.bucket])
  THEN [c EXCEPT !.pos = @ + 1]
  ELSE FirstFrom(t, c.bucket)

\* operator++: next entry of the chain, else the next non-empty bucket,
\* else End.
TAdvance(t, c) ==
  IF c.pos < Len(t.buckets[c.bucket])
  THEN [c EXCEPT !.pos = @ + 1]
  ELSE FirstFrom(t, c.bucket + 1)

\* operator*: the entry under the cursor.
TDeref(t, c) == t.buckets[c.bucket][c.pos]

=============================================================================
