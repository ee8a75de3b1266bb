--------------------------- MODULE StringContract ---------------------------
(***************************************************************************)
(* capu::String against its documented contract, in lockstep: every call  *)
(* of CapuString is paired with the same call of AbstractString, and the   *)
(* C string each object's c_str() returns must be the abstract contents.   *)
(* substr(0, 0) is left out here: its uint_t wrap is the finding of the    *)
(* string_substr run; every other start and length is paired.             *)
(***************************************************************************)
EXTENDS CapuString

VARIABLE text

A == INSTANCE AbstractString

\* The characters of a char_t* argument; none for the null pointer.
Text(d) == IF d = Null THEN <<>> ELSE SubSeq(d, 1, Strlen(d))

\* What a String shows through c_str().
Contents(s) == Text(c_str(s))

CInit == Init /\ A!AInit

CNext ==
  \/ \E x \in Strs, d \in Args :
       \/ AssignCStr(x, d) /\ A!AAssign(x, Text(d))
       \/ AppendCStr(x, d) /\ A!AAppend(x, Text(d))
       \/ \E st \in Indexes : AssignTail(x, d, st) /\ A!ATail(x, Text(d), st)
       \/ \E st \in Indexes, en \in Ends :
            AssignRange(x, d, st, en) /\ A!ARange(x, Text(d), st, en)
  \/ \E x, y \in Strs :
       \/ AssignCopy(x, y) /\ A!AAssign(x, text[y])
       \/ AppendString(x, y) /\ A!AAppend(x, text[y])
       \/ Swap(x, y) /\ A!ASwap(x, y)
       \/ \E z \in Strs : Concat(x, y, z) /\ A!AConcat(x, text[y], text[z])
       \/ \E d \in Args :
            \/ ConcatCStr(x, y, d) /\ A!AConcat(x, text[y], Text(d))
            \/ CStrConcat(x, d, y) /\ A!AConcat(x, Text(d), text[y])
       \/ \E st \in Indexes, en \in Ends :
            AssignSub(x, y, st, en) /\ A!ARange(x, text[y], st, en)
       \/ \E st \in Indexes, l \in -1 .. MaxLen + 1 :
            /\ <<st, l>> # <<0, 0>>
            /\ Substr(x, y, st, l) /\ A!ASubstr(x, text[y], st, l)
  \/ \E x \in Strs :
       \/ ToUpper(x) /\ A!AToUpperCase(x)
       \/ ToLower(x) /\ A!AToLowerCase(x)
       \/ Destroy(x) /\ A!AAssign(x, <<>>)
       \/ \E n \in Indexes : Truncate(x, n) /\ A!ATruncate(x, n)

CSpec == CInit /\ [][CNext]_<<str, text>>

\* After any sequence of calls, every String's c_str() is exactly what the
\* header's comments and the tests promise: constructors from a range,
\* append and operator+ over truncated or case-converted strings, truncate
\* in place and substr all produce the documented characters, not just the
\* right number of them.
ContentsMatchContract == \A x \in Strs : Contents(str[x]) = text[x]

=============================================================================
