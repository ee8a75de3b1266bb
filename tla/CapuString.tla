---------------------------- MODULE CapuString ----------------------------
(***************************************************************************)
(* capu::String (src/.../capu/container/String.h): a character string kept *)
(* in an Array<char_t> m_data, NUL-terminated, with its length in m_size.  *)
(*                                                                         *)
(* A String value is a record                                              *)
(*   data : m_data, the whole buffer (Array<char_t>, size = Len(data));    *)
(*          after truncate() it may hold characters after the first NUL    *)
(*   size : m_size, a uint_t of UIntBits bits                              *)
(* Characters are their codes; a char_t* argument is a NUL-terminated      *)
(* buffer or Null.  Several String objects (Strs) hold values; each action *)
(* is one call on one of them.  An assignment "x = String(...)" goes       *)
(* through operator=(String other), which swaps in the temporary, so x     *)
(* ends with the constructed value.                                        *)
(*                                                                         *)
(* StringUtils::Strlen and Strncpy are not among the sources; their        *)
(* behaviour is the one the tests in StringTest.cpp rely on: Strlen(0) is  *)
(* 0, and Strncpy(dst, n, src) copies at most n - 1 characters and         *)
(* terminates dst within its n bytes.                                      *)
(***************************************************************************)
EXTENDS Integers, Sequences, SequencesExt

CONSTANTS
  Strs,        \* String objects
  CStrs,       \* contents of char_t* arguments (sequences without NUL)
  Null,        \* the null char_t*
  UIntBits,    \* width of uint_t
  MaxLen       \* bound on the length of any buffer, for TLC

NUL == 0

UINT(n) == n % (2 ^ UIntBits)

\* A char_t* argument: a NUL-terminated buffer.
Buf(d) == d \o <<NUL>>

\* StringUtils::Strlen: characters before the first NUL; 0 for Null.
Strlen(b) == IF b = Null THEN 0 ELSE SelectInSeq(b, LAMBDA c : c = NUL) - 1

\* StringUtils::Strncpy into a fresh Array<char_t>(n): at most n - 1
\* characters of src, then NUL to the end of the n bytes.
Strncpy(n, src) == [i \in 1 .. n |-> IF i <= Strlen(src) /\ i < n THEN src[i] ELSE NUL]

\* String(): m_data(0), m_size(0).
EmptyString == [data |-> <<>>, size |-> 0]

\* c_str(): the buffer, or the literal "" for an empty Array.
c_str(s) == IF Len(s.data) > 0 THEN s.data ELSE <<NUL>>

getLength(s) == s.size

\* initData(data): a buffer of Strlen + 1 bytes, or an empty Array for 0.
initData(d) ==
  IF d = Null THEN EmptyString
  ELSE LET len == Strlen(d) + 1
       IN  [data |-> Strncpy(len, d), size |-> UINT(len - 1)]

\* initFromGivenData(data, start, end, size), on a String still at
\* m_data(0), m_size(0): the early returns, the clamp of end to size - 1
\* (computed in uint_t), then m_size = theend - start + 1.
initFromGivenData(d, start, end, size) ==
  IF d = Null \/ end < start \/ start > size THEN EmptyString
  ELSE LET theend == IF end >= size THEN UINT(size - 1) ELSE end
           msize  == UINT(theend - start + 1)
           startdata == SubSeq(d, start + 1, Len(d))
       IN  [data |-> Strncpy(msize + 1, startdata), size |-> msize]

\* String(const char_t* data, const uint_t start)
StringFromTail(d, start) ==
  IF d = Null THEN EmptyString ELSE initData(SubSeq(d, start + 1, Len(d)))

\* String(const char_t* data, const uint_t start, const uint_t end)
StringFromRange(d, start, end) == initFromGivenData(d, start, end, Strlen(d))

\* String(const String& other, const uint_t start, const uint_t end)
StringFromSub(o, start, end) == initFromGivenData(c_str(o), start, end, o.size)

\* append(const char_t* other): nothing for Null or ""; into an empty
\* Array, initData; else a new buffer of mylen + otherlen bytes filled by
\* two Strncpy calls, mylen being Strlen of the old buffer, not m_size.
append(s, other) ==
  IF other = Null \/ other[1] = NUL THEN s
  ELSE IF Len(s.data) > 0
       THEN LET mylen    == Strlen(s.data)
                otherlen == Strlen(other) + 1
            IN  [data |-> SubSeq(Strncpy(mylen + 1, s.data), 1, mylen)
                          \o Strncpy(otherlen, other),
                 size |-> UINT(mylen + otherlen - 1)]
       ELSE initData(other)

\* Mutant: truncate that only shortens m_size.
truncateSizeOnly(s, length) ==
  IF length >= getLength(s) THEN s ELSE [s EXCEPT !.size = length]

\* truncate(length): no-op unless length < getLength(); then m_size and a
\* NUL written at m_data[length], in place.
truncate(s, length) ==
  IF length >= getLength(s) THEN s
  ELSE [data |-> [s.data EXCEPT ![length + 1] = NUL], size |-> length]

\* substr(start, length): length < 0 or past m_size takes the rest;
\* otherwise end = start + length - 1, computed in uint_t.
substr(s, start, length) ==
  IF length < 0 \/ length > s.size
  THEN StringFromSub(s, start, s.size)
  ELSE StringFromSub(s, start, UINT(start + length - 1))

\* Mutant: toUpperCase with the case offset added instead of subtracted.
toUpperCaseAdd(s) ==
  [s EXCEPT !.data = [i \in DOMAIN @ |->
     IF i <= s.size /\ @[i] > 96 /\ @[i] < 123 THEN @[i] + 32 ELSE @[i]]]

\* toUpperCase / toLowerCase: the first getLength() bytes, ASCII only.
toUpperCase(s) ==
  [s EXCEPT !.data = [i \in DOMAIN @ |->
     IF i <= s.size /\ @[i] > 96 /\ @[i] < 123 THEN @[i] - 32 ELSE @[i]]]

toLowerCase(s) ==
  [s EXCEPT !.data = [i \in DOMAIN @ |->
     IF i <= s.size /\ @[i] > 64 /\ @[i] < 91 THEN @[i] + 32 ELSE @[i]]]

\* operator==: the c_str() contents compared as C strings.
Equals(s, t) ==
  LET a == c_str(s)  b == c_str(t)
  IN  SubSeq(a, 1, Strlen(a)) = SubSeq(b, 1, Strlen(b))

---------------------------------------------------------------------------
(* String objects and the calls made on them *)

VARIABLE str

Args == {Buf(d) : d \in CStrs} \cup {Null}

Indexes == 0 .. MaxLen + 1

\* end arguments: in range, and the largest uint_t (an "until the end").
Ends == Indexes \cup {UINT(-1)}

\* Every buffer stays within MaxLen + 1 bytes (a bound for TLC only).
Set(x, v) == /\ Len(v.data) <= MaxLen + 1
             /\ str' = [str EXCEPT ![x] = v]

Init == str = [x \in Strs |-> EmptyString]

\* x = data, x = String(data): operator=(const char_t*) calls initData.
AssignCStr(x, d) == Set(x, initData(d))

\* x = String(data, start), for start within data (see README).
AssignTail(x, d, start) ==
  /\ start <= Strlen(d)
  /\ Set(x, StringFromTail(d, start))

AssignRange(x, d, start, end) == Set(x, StringFromRange(d, start, end))

AssignSub(x, y, start, end) == Set(x, StringFromSub(str[y], start, end))

\* x = y: operator=(String other) swaps in the copy of y.
AssignCopy(x, y) == Set(x, str[y])

\* x.append(y) is append(y.c_str()); x.append(data).
AppendString(x, y) == Set(x, append(str[x], c_str(str[y])))

AppendCStr(x, d) == Set(x, append(str[x], d))

\* Mutant: operator+ appending the left operand to the right one.
ConcatReversed(x, y, z) == Set(x, append(str[z], c_str(str[y])))

\* x = y + z: String result(*this); result.append(rOperand).
Concat(x, y, z) == Set(x, append(str[y], c_str(str[z])))

\* x = y + data: String result(c_str()); result.append(rOperand).
ConcatCStr(x, y, d) == Set(x, append(initData(c_str(str[y])), d))

\* x = data + y: String result(lOperand); result.append(rOperand.c_str()).
CStrConcat(x, d, y) == Set(x, append(initData(d), c_str(str[y])))

Truncate(x, n) == Set(x, truncate(str[x], n))

Substr(x, y, start, length) == Set(x, substr(str[y], start, length))

ToUpper(x) == Set(x, toUpperCase(str[x]))

ToLower(x) == Set(x, toLowerCase(str[x]))

\* swap(other): the two buffers and sizes exchanged.
Swap(x, y) ==
  /\ x # y
  /\ str' = [str EXCEPT ![x] = str[y], ![y] = str[x]]

\* ~String(): initData(0); the object is then reused as String().
Destroy(x) == Set(x, initData(Null))

Next ==
  \/ \E x \in Strs, d \in Args :
       \/ AssignCStr(x, d) \/ AppendCStr(x, d)
       \/ \E st \in Indexes : AssignTail(x, d, st)
       \/ \E st \in Indexes, en \in Ends : AssignRange(x, d, st, en)
  \/ \E x, y \in Strs :
       \/ AssignCopy(x, y) \/ AppendString(x, y) \/ Swap(x, y)
       \/ \E z \in Strs : Concat(x, y, z)
       \/ \E d \in Args : ConcatCStr(x, y, d) \/ CStrConcat(x, d, y)
       \/ \E st \in Indexes, en \in Ends : AssignSub(x, y, st, en)
       \/ \E st \in Indexes, l \in -1 .. MaxLen + 1 : Substr(x, y, st, l)
  \/ \E x \in Strs :
       \/ ToUpper(x) \/ ToLower(x) \/ Destroy(x)
       \/ \E n \in Indexes : Truncate(x, n)

Spec == Init /\ [][Next]_str

---------------------------------------------------------------------------
(* Properties *)

TypeOK ==
  str \in [Strs -> [data : Seq(0 .. 127), size : 0 .. 2 ^ UIntBits - 1]]

\* getLength() agrees with the C string c_str() returns: m_size is the
\* index of the first NUL of m_data, and an empty Array only ever goes with
\* m_size 0.  Every constructor, append, truncate and substr must keep this,
\* including the uint_t wrap of theend = size - 1 on an empty source.
LengthMatchesCStr ==
  \A x \in Strs :
    /\ Len(str[x].data) = 0 => str[x].size = 0
    /\ Strlen(c_str(str[x])) = str[x].size

\* The reference meaning of substr(start, length) from its comment: the
\* characters from start on, at most length of them, all of them when
\* length is negative, none when start is past the end.
SubstrRef(s, start, length) ==
  LET cs   == c_str(s)
      last == IF length < 0 THEN s.size ELSE Min({start + length, s.size})
  IN  IF start >= last THEN <<>> ELSE SubSeq(cs, start + 1, last)

\* substr returns that reference substring for every start and length, on
\* every string the other calls can build.
SubstrMatchesComment ==
  \A x \in Strs, st \in Indexes, l \in -1 .. MaxLen + 1 :
    LET r == c_str(substr(str[x], st, l))
    IN  SubSeq(r, 1, Strlen(r)) = SubstrRef(str[x], st, l)

=============================================================================
