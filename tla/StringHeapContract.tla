------------------------- MODULE StringHeapContract -------------------------
(***************************************************************************)
(* StringHeap against the documented contract of String, in lockstep: each *)
(* call is paired with the same call of AbstractString, whose arguments    *)
(* are the characters the char_t* pointed to when the call began.  Unlike  *)
(* StringContract, the argument may point into the object being changed   *)
(* (x = x.c_str() + 1, x.append(x), x = x + x), so the contents must come  *)
(* out right although the code frees and reallocates that buffer.          *)
(***************************************************************************)
EXTENDS StringHeap

VARIABLE text

A == INSTANCE AbstractString

\* The characters a char_t* points to now; none for the null pointer.
Text(p) == IF p = Null THEN <<>> ELSE LET m == Mem(Cur, p) IN SubSeq(m, 1, Strlen(m))

\* What a String shows through c_str().
Contents(x) == Text(c_str(Cur, x))

HInit == Init /\ A!AInit

HNext ==
  \/ \E x \in Strs, p \in Args :
       /\ ValidArg(p)
       /\ \/ AssignCStr(x, p) /\ A!AAssign(x, Text(p))
          \/ AssignString(x, p) /\ A!AAssign(x, Text(p))
          \/ AppendCStr(x, p) /\ A!AAppend(x, Text(p))
          \/ \E y \in Strs :
               \/ ConcatCStr(x, y, p) /\ A!AConcat(x, text[y], Text(p))
               \/ CStrConcat(x, p, y) /\ A!AConcat(x, Text(p), text[y])
  \/ \E x, y \in Strs :
       \/ AppendString(x, y) /\ A!AAppend(x, text[y])
       \/ AssignCopy(x, y) /\ A!AAssign(x, text[y])
       \/ Swap(x, y) /\ A!ASwap(x, y)
       \/ \E z \in Strs : Concat(x, y, z) /\ A!AConcat(x, text[y], text[z])
  \/ \E x \in Strs :
       \/ Destroy(x) /\ A!AAssign(x, <<>>)
       \/ \E n \in 0 .. MaxLen : Truncate(x, n) /\ A!ATruncate(x, n)

\* x = String(p, start) with start within the characters before p's NUL,
\* the positions the header's comment documents.
TailWithin == \E x \in Strs, p \in Args, st \in 0 .. MaxLen :
  /\ ValidArg(Shift(p, st))
  /\ st <= Len(Text(p))
  /\ AssignTail(x, p, st) /\ A!ATail(x, Text(p), st)

\* x = String(p, start) with start past p's NUL but inside its buffer.
TailPastEnd == \E x \in Strs, p \in Args, st \in 0 .. MaxLen :
  /\ ValidArg(Shift(p, st))
  /\ st > Len(Text(p))
  /\ AssignTail(x, p, st) /\ A!ATail(x, Text(p), st)

HSpec == HInit /\ [][HNext \/ TailWithin]_<<vars, text>>

HSpecPastEnd == HInit /\ [][HNext \/ TailWithin \/ TailPastEnd]_<<vars, text>>

\* After any sequence of calls, also ones whose char_t* argument points into
\* the buffer the call replaces, every String's c_str() holds exactly the
\* characters the contract promises and getLength() counts them: initData
\* and append copy from the argument before the old buffer is released.
ContentsMatchUnderAliasing ==
  \A x \in Strs : Contents(x) = text[x] /\ msize[x] = Len(text[x])

=============================================================================
