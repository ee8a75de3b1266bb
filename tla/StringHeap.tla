----------------------------- MODULE StringHeap -----------------------------
(***************************************************************************)
(* capu::String with its buffers as heap objects, for the calls whose      *)
(* char_t* argument may point into a String's own buffer: x = p,           *)
(* x = String(p), x = String(p, k), x.append(p), x.append(y), x = y,       *)
(* x = y + z, x = y + p, x = p + y, truncate, swap and the destructor.     *)
(* CapuString treats buffers as values, so there aliasing is harmless by   *)
(* construction; here each m_data is a buffer id, and a call frees and     *)
(* allocates buffers in the order the code does.                           *)
(*                                                                         *)
(*   heap  : buffer id -> bytes (kept after free: stale memory)            *)
(*   live  : the allocated buffer ids                                      *)
(*   mdata : each object's m_data (NoBuf for an empty Array)               *)
(*   msize : each object's m_size                                          *)
(*   uaf   : a byte was read through a pointer into a buffer freed earlier *)
(*           in the same call                                              *)
(* Tmp is the temporary String a constructor, operator= or operator+       *)
(* builds, Ret the value operator+ returns; both are destroyed before the  *)
(* call returns.  A call is one step: an operator takes the state as a    *)
(* record and returns the next one, and the steps of a call are chained in *)
(* code order.  Allocation reuses the lowest free id, so a freed buffer is *)
(* handed out again at once.                                               *)
(***************************************************************************)
EXTENDS Integers, Sequences, SequencesExt

CONSTANTS
  Strs,     \* String objects
  Tmp,      \* the temporary String of a call
  Ret,      \* the return value of operator+
  CStrs,    \* contents of string literals passed as char_t*
  Null,     \* the null char_t*
  Bufs,     \* buffer ids the allocator can hand out
  NoBuf,    \* m_data of an empty Array
  MaxLen    \* bound on the length of any buffer, for TLC

Objs == Strs \cup {Tmp, Ret}

NUL == 0

VARIABLES heap, live, mdata, msize, uaf

vars == <<heap, live, mdata, msize, uaf>>

\* A char_t*: into a literal, or at offset off of a heap buffer.
Lit(d) == [kind |-> "lit", b |-> NoBuf, bytes |-> d \o <<NUL>>, off |-> 0]
Ptr(b, o) == [kind |-> "heap", b |-> b, bytes |-> <<>>, off |-> o]

\* &data[start]: the pointer start characters further on.
Shift(p, start) == IF p = Null THEN Null ELSE [p EXCEPT !.off = @ + start]

\* c_str(): the buffer, or the literal "" for an empty Array.
c_str(s, x) == IF s.mdata[x] = NoBuf THEN Lit(<<>>) ELSE Ptr(s.mdata[x], 0)

\* The memory from p on, and the C string there.
Mem(s, p) ==
  LET m == IF p.kind = "lit" THEN p.bytes ELSE s.heap[p.b]
  IN  SubSeq(m, p.off + 1, Len(m))

Strlen(m) == SelectInSeq(m, LAMBDA c : c = NUL) - 1

\* StringUtils::Strncpy into n fresh bytes (see CapuString).
Strncpy(n, src) == [i \in 1 .. n |-> IF i <= Strlen(src) /\ i < n THEN src[i] ELSE NUL]

\* Reading through p: a use after free if p's buffer was freed in this call.
Read(s, p) == [s EXCEPT !.uaf = @ \/ (p.kind = "heap" /\ p.b \in s.freed)]

\* new / delete of an Array's buffer.
NewBuf(s) == CHOOSE b \in Bufs : b \notin s.live

Alloc(s, b, bytes) == [s EXCEPT !.live = @ \cup {b}, !.heap[b] = bytes]

Free(s, b) ==
  IF b = NoBuf THEN s
  ELSE [s EXCEPT !.live = @ \ {b}, !.freed = @ \cup {b}]

\* capu::swap of two objects' m_data and m_size.
SwapObjs(s, x, y) ==
  [s EXCEPT !.mdata[x] = s.mdata[y], !.mdata[y] = s.mdata[x],
            !.msize[x] = s.msize[y], !.msize[y] = s.msize[x]]

---------------------------------------------------------------------------
(* The String code, step by step *)

\* Mutant: initData assigning a fresh Array to m_data (freeing the old
\* buffer) before copying from data.
initDataFreeFirst(s, x, p) ==
  IF p = Null THEN [Free(s, s.mdata[x]) EXCEPT !.mdata[x] = NoBuf, !.msize[x] = 0]
  ELSE LET len == Strlen(Mem(s, p)) + 1
           b   == NewBuf(s)
           s1  == [Free(Alloc(Read(s, p), b, [i \in 1 .. len |-> NUL]), s.mdata[x])
                     EXCEPT !.mdata[x] = b]
       IN  [Read(s1, p) EXCEPT !.heap[b] = Strncpy(len, Mem(s1, p)), !.msize[x] = len - 1]

\* initData(data): Strlen(data); Array tmpArray(len); swap(m_data, tmpArray);
\* Strncpy(m_data, len, data); m_size; then tmpArray, holding the old
\* buffer, is destroyed.  For null data, m_data = Array(0).
initData(s, x, p) ==
  IF p = Null THEN [Free(s, s.mdata[x]) EXCEPT !.mdata[x] = NoBuf, !.msize[x] = 0]
  ELSE LET len == Strlen(Mem(s, p)) + 1
           b   == NewBuf(s)
           old == s.mdata[x]
           s1  == [Alloc(Read(s, p), b, [i \in 1 .. len |-> NUL]) EXCEPT !.mdata[x] = b]
           s2  == [Read(s1, p) EXCEPT !.heap[b] = Strncpy(len, Mem(s1, p)),
                                      !.msize[x] = len - 1]
       IN  Free(s2, old)

\* Mutant: append copying its own characters with Strncpy(.., mylen, ..),
\* one byte short, so the last character becomes the terminator.
appendShortCopy(s, x, p) ==
  IF p = Null THEN s
  ELSE IF Mem(s, p)[1] = NUL THEN Read(s, p)
  ELSE IF s.mdata[x] = NoBuf THEN initData(Read(s, p), x, p)
  ELSE LET mine     == s.heap[s.mdata[x]]
           mylen    == Strlen(mine)
           otherlen == Strlen(Mem(s, p)) + 1
           b        == NewBuf(s)
           s1 == Alloc(Read(s, p), b,
                       Strncpy(mylen, mine) \o Strncpy(otherlen, Mem(s, p)))
           old == s.mdata[x]
       IN  Free([s1 EXCEPT !.mdata[x] = b, !.msize[x] = mylen + otherlen - 1], old)

\* append(other): nothing for null or ""; into an empty Array, initData;
\* else Array newData(mylen + otherlen) filled from m_data and other,
\* swap(m_data, newData), m_size, and newData (the old buffer) destroyed.
append(s, x, p) ==
  IF p = Null THEN s
  ELSE IF Mem(s, p)[1] = NUL THEN Read(s, p)
  ELSE IF s.mdata[x] = NoBuf THEN initData(Read(s, p), x, p)
  ELSE LET mine     == s.heap[s.mdata[x]]
           mylen    == Strlen(mine)
           otherlen == Strlen(Mem(s, p)) + 1
           b        == NewBuf(s)
           s1 == Alloc(Read(s, p), b,
                       SubSeq(Strncpy(mylen + 1, mine), 1, mylen)
                         \o Strncpy(otherlen, Mem(s, p)))
           old == s.mdata[x]
       IN  Free([s1 EXCEPT !.mdata[x] = b, !.msize[x] = mylen + otherlen - 1], old)

\* ~String(): initData(0).
Destruct(s, x) == initData(s, x, Null)

\* String(const String& other): m_data(other.m_data), a copy of the buffer.
CopyInto(s, x, y) ==
  IF s.mdata[y] = NoBuf THEN [s EXCEPT !.mdata[x] = NoBuf, !.msize[x] = s.msize[y]]
  ELSE LET b == NewBuf(s)
       IN  [Alloc(s, b, s.heap[s.mdata[y]]) EXCEPT !.mdata[x] = b,
                                                  !.msize[x] = s.msize[y]]

\* x = <the temporary>: operator=(String other) swaps, then other dies.
TakeTmp(s, x) == Destruct(SwapObjs(s, x, Tmp), Tmp)

\* x = <operator+ of result>: return result.append(..) yields a String&,
\* so the return value is copy-constructed from result and result dies;
\* operator=(String other) then takes the return value (the copy into the
\* parameter elided), swaps, and it dies.
TakeResult(s, x) ==
  LET s1 == Destruct(CopyInto(s, Ret, Tmp), Tmp)
  IN  Destruct(SwapObjs(s1, x, Ret), Ret)

\* truncate(length): in place, m_data[length] = 0.
truncate(s, x, n) ==
  IF n >= s.msize[x] THEN s
  ELSE [s EXCEPT !.msize[x] = n, !.heap[s.mdata[x]][n + 1] = NUL]

---------------------------------------------------------------------------
(* Calls *)

Cur == [heap |-> heap, live |-> live, mdata |-> mdata, msize |-> msize,
        uaf |-> uaf, freed |-> {}]

\* The state after a call, all buffers within MaxLen + 1 bytes; what freed
\* buffers held is forgotten once the call has returned.
Apply(s) ==
  /\ \A b \in s.live : Len(s.heap[b]) <= MaxLen + 1
  /\ heap' = [b \in Bufs |-> IF b \in s.live THEN s.heap[b] ELSE <<>>]
  /\ live' = s.live /\ mdata' = s.mdata
  /\ msize' = s.msize /\ uaf' = s.uaf

\* The char_t* arguments: null, literals, and every position inside a
\* String's current buffer (c_str() and c_str() + k).
Args ==
  {Null} \cup {Lit(d) : d \in CStrs}
    \cup {Ptr(mdata[y], o) : y \in {z \in Strs : mdata[z] # NoBuf},
                             o \in 0 .. MaxLen}

\* A pointer inside its literal or buffer (reading beyond the allocation is
\* undefined behaviour, not modelled).
ValidArg(p) ==
  IF p = Null THEN TRUE
  ELSE p.off < Len(IF p.kind = "lit" THEN p.bytes ELSE heap[p.b])

Init ==
  /\ heap = [b \in Bufs |-> <<>>]
  /\ live = {}
  /\ mdata = [x \in Objs |-> NoBuf]
  /\ msize = [x \in Objs |-> 0]
  /\ uaf = FALSE

\* x = p: operator=(const char_t*), initData in place.
AssignCStr(x, p) == Apply(initData(Cur, x, p))

\* x = String(p): the temporary built by initData, then taken.
AssignString(x, p) == Apply(TakeTmp(initData(Cur, Tmp, p), x))

\* x = String(p, start): if (data) initData(&data[start]) in the
\* temporary, then taken.
AssignTail(x, p, start) ==
  Apply(TakeTmp(IF p = Null THEN Cur ELSE initData(Cur, Tmp, Shift(p, start)), x))

AppendCStr(x, p) == Apply(append(Cur, x, p))

\* x.append(y): append(y.c_str()).
AppendString(x, y) == Apply(append(Cur, x, c_str(Cur, y)))

\* x = y: the by-value parameter is a copy of y.
AssignCopy(x, y) == Apply(TakeTmp(CopyInto(Cur, Tmp, y), x))

\* x = y + z: String result(*this); result.append(z); x = result.
Concat(x, y, z) ==
  Apply(TakeResult(append(CopyInto(Cur, Tmp, y), Tmp, c_str(Cur, z)), x))

\* x = y + p: String result(c_str()); result.append(p); x = result.
ConcatCStr(x, y, p) ==
  Apply(TakeResult(append(initData(Cur, Tmp, c_str(Cur, y)), Tmp, p), x))

\* x = p + y: String result(p); result.append(y.c_str()); x = result.
CStrConcat(x, p, y) ==
  Apply(TakeResult(append(initData(Cur, Tmp, p), Tmp, c_str(Cur, y)), x))

Truncate(x, n) == Apply(truncate(Cur, x, n))

Swap(x, y) == x # y /\ Apply(SwapObjs(Cur, x, y))

Destroy(x) == Apply(Destruct(Cur, x))

Next ==
  \/ \E x \in Strs, p \in Args :
       /\ ValidArg(p)
       /\ \/ AssignCStr(x, p) \/ AssignString(x, p) \/ AppendCStr(x, p)
          \/ \E y \in Strs : ConcatCStr(x, y, p) \/ CStrConcat(x, p, y)
          \/ \E st \in 0 .. MaxLen : ValidArg(Shift(p, st)) /\ AssignTail(x, p, st)
  \/ \E x, y \in Strs :
       \/ AppendString(x, y) \/ AssignCopy(x, y) \/ Swap(x, y)
       \/ \E z \in Strs : Concat(x, y, z)
  \/ \E x \in Strs :
       \/ Destroy(x)
       \/ \E n \in 0 .. MaxLen : Truncate(x, n)

Spec == Init /\ [][Next]_vars

---------------------------------------------------------------------------
(* Properties *)

TypeOK ==
  /\ heap \in [Bufs -> Seq(0 .. 127)]
  /\ live \subseteq Bufs
  /\ mdata \in [Objs -> Bufs \cup {NoBuf}]
  /\ msize \in [Objs -> Nat]
  /\ uaf \in BOOLEAN

\* No call reads through its char_t* argument after freeing the buffer it
\* points into, even when the argument is the object's own c_str() (or an
\* offset into it): x = x.c_str() + 1, x.append(x), x = x + x.
NoUseAfterFree == ~uaf

=============================================================================
