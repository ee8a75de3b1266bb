------------------------------ MODULE HashSet ------------------------------
(***************************************************************************)
(* capu::HashSet<T, C, H> (src/.../capu/container/HashSet.h): a set that   *)
(* owns one HashTable<T, char_t, C, H> (m_table) and forwards to it, and   *)
(* HashSetIterator, which wraps the table's iterator.                      *)
(*                                                                         *)
(* Several HashSet objects (Sets) and iterator objects (Iters) are live at *)
(* once, so that the copy constructor and iterators outliving a mutation   *)
(* or the set itself are part of the model.                                *)
(*   alive   : the HashSet objects constructed and not yet destroyed       *)
(*   table   : each object's m_table                                       *)
(*   iter    : each iterator's m_iter: the set it walks and its cursor,   *)
(*             with the keys it has stepped over (a history field, used    *)
(*             only by the properties); Dead once the set has been changed *)
(*             or destroyed since begin(), after which the spec's iterator *)
(*             contract (section 3) forbids any use but reassignment       *)
(*   ret     : the status_t returned by the last put / remove / clear      *)
(***************************************************************************)
EXTENDS HashTable

CONSTANTS
  Sets,                        \* HashSet objects
  Iters,                       \* HashSetIterator objects
  BitSizes,                    \* bitsize arguments of HashSet(bitsize)
  DEFAULT_HASH_SET_BIT_SIZE    \* bitsize of HashSet()

ASSUME DEFAULT_HASH_SET_BIT_SIZE \in Nat /\ BitSizes \subseteq Nat

VARIABLES alive, table, iter, ret

vars == <<alive, table, iter, ret>>

\* An iterator that may no longer be used (its cursor is no position).
Dead == [set |-> CHOOSE s \in Sets : TRUE, cur |-> [bucket |-> -1, pos |-> -1],
         visited |-> <<>>]

\* Any change to a set's table ends the traversals of that set.
Invalidate(s) ==
  iter' = [it \in Iters |-> IF iter[it].set = s THEN Dead ELSE iter[it]]

SetTable(s, t) ==
  /\ table' = [table EXCEPT ![s] = t]
  /\ IF t = table[s] THEN UNCHANGED iter ELSE Invalidate(s)

Init ==
  /\ alive = {}
  /\ table = [s \in Sets |-> NewTable(DEFAULT_HASH_SET_BIT_SIZE)]
  /\ iter = [it \in Iters |-> Dead]
  /\ ret = CAPU_OK

---------------------------------------------------------------------------
(* HashSet operations *)

\* HashSet() and HashSet(bitsize): m_table(bitsize).
Construct(s, bits) ==
  /\ s \notin alive
  /\ alive' = alive \cup {s}
  /\ table' = [table EXCEPT ![s] = NewTable(bits)]
  /\ UNCHANGED <<iter, ret>>

\* HashSet(const HashSet& other): m_table(other.m_table), a deep copy.
CopyConstruct(s, other) ==
  /\ s \notin alive /\ other \in alive
  /\ alive' = alive \cup {s}
  /\ table' = [table EXCEPT ![s] = table[other]]
  /\ UNCHANGED <<iter, ret>>

\* ~HashSet(): the table and its entries are freed (a freed table is
\* represented by an empty one: nothing reads it before Construct).
Destroy(s) ==
  /\ s \in alive
  /\ alive' = alive \ {s}
  /\ table' = [table EXCEPT ![s] = NewTable(DEFAULT_HASH_SET_BIT_SIZE)]
  /\ Invalidate(s)
  /\ UNCHANGED ret

\* Mutant: put forwarding to m_table.put without the contains check.
putUnchecked(s, k) ==
  /\ s \in alive
  /\ ret' = CAPU_OK
  /\ SetTable(s, TPut(table[s], k))
  /\ UNCHANGED alive

\* put(value): CAPU_ERROR when m_table.contains(value), else
\* m_table.put(value, 0).
put(s, k) ==
  /\ s \in alive
  /\ IF TContains(table[s], k)
     THEN /\ ret' = CAPU_ERROR
          /\ UNCHANGED <<table, iter>>
     ELSE /\ ret' = CAPU_OK
          /\ SetTable(s, TPut(table[s], k))
  /\ UNCHANGED alive

\* remove(value): m_table.remove(value).
remove(s, k) ==
  /\ s \in alive
  /\ ret' = TRemoveStatus(table[s], k)
  /\ IF TContains(table[s], k)
     THEN SetTable(s, TRemove(table[s], k))
     ELSE UNCHANGED <<table, iter>>
  /\ UNCHANGED alive

\* clear(): m_table.clear(); return CAPU_OK.
clear(s) ==
  /\ s \in alive
  /\ SetTable(s, TClear(table[s]))
  /\ ret' = CAPU_OK
  /\ UNCHANGED alive

\* hasElement(value) and count() only read the table.
hasElement(s, k) == TContains(table[s], k)

count(s) == table[s].count

---------------------------------------------------------------------------
(* HashSetIterator *)

\* it = set.begin(): Iterator(m_table.begin()).
begin(it, s) ==
  /\ s \in alive
  /\ iter' = [iter EXCEPT ![it] = [set |-> s, cur |-> TBegin(table[s]),
                                    visited |-> <<>>]]
  /\ UNCHANGED <<alive, table, ret>>

\* operator== / operator!=: the wrapped table iterators compared; used as
\* it != set.end().
NotAtEnd(it) == iter[it].cur # End

\* operator* / operator->: the key of the table entry under the cursor.
deref(it) == TDeref(table[iter[it].set], iter[it].cur)

\* ++it / it++: m_iter++, taken only while it != end() and the iterator
\* may still be used; the key stepped over is what *it returned.
Advance(it) ==
  /\ iter[it] # Dead
  /\ NotAtEnd(it)
  /\ iter' = [iter EXCEPT
               ![it].cur = TAdvance(table[iter[it].set], iter[it].cur),
               ![it].visited = Append(@, deref(it))]
  /\ UNCHANGED <<alive, table, ret>>

\* HashSetIterator(const HashSetIterator&) and operator=: m_iter copied.
CopyIter(from, to) ==
  /\ from # to
  /\ iter' = [iter EXCEPT ![to] = iter[from]]
  /\ UNCHANGED <<alive, table, ret>>

Next ==
  \/ \E s \in Sets, b \in BitSizes \cup {DEFAULT_HASH_SET_BIT_SIZE} :
       Construct(s, b)
  \/ \E s, o \in Sets : CopyConstruct(s, o)
  \/ \E s \in Sets : Destroy(s) \/ clear(s)
  \/ \E s \in Sets, k \in Keys : put(s, k) \/ remove(s, k)
  \/ \E it \in Iters, s \in Sets : begin(it, s)
  \/ \E it \in Iters : Advance(it)
  \/ \E a, b \in Iters : CopyIter(a, b)

Spec == Init /\ [][Next]_vars

---------------------------------------------------------------------------
(* Properties *)

Cursor == {End, Dead.cur} \cup [bucket : Nat, pos : Nat \ {0}]

TypeOK ==
  /\ alive \subseteq Sets
  /\ \A s \in Sets : table[s].count \in Nat
                      /\ table[s].buckets \in [0 .. Capacity(table[s]) - 1 -> Seq(Keys)]
  /\ iter \in [Iters -> [set : Sets, cur : Cursor, visited : Seq(Keys)]]
  /\ ret \in {CAPU_OK, CAPU_ERROR, CAPU_ERANGE}

\* HashSet implements the abstract set: mapping each live object to the keys
\* its table holds, every put, remove and clear changes the contents as a
\* set operation does and returns the status_t HashSet.h documents; the
\* copy constructor starts from the other object's contents.
Abstract == INSTANCE AbstractSet
  WITH elems <- [s \in Sets |-> IF s \in alive THEN Entries(table[s]) ELSE {}]

ImplementsAbstractSet == Abstract!ASpec

\* A traversal from begin() that is still valid never yields a key twice,
\* and when it reaches end() it has yielded exactly the set's keys:
\* walking chains and skipping empty buckets visits each live key once.
IterationVisitsEachOnce ==
  \A it \in Iters :
    iter[it] # Dead =>
      /\ IsInjective(iter[it].visited)
      /\ iter[it].cur = End =>
           ToSet(iter[it].visited) = Entries(table[iter[it].set])

=============================================================================
