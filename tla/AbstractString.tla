--------------------------- MODULE AbstractString ---------------------------
(***************************************************************************)
(* What capu::String promises in its header (String.h, the comments of the *)
(* class declaration) and in StringTest.cpp, with the buffer abstracted    *)
(* away: each String object holds a sequence of characters.  A char_t*     *)
(* argument is given by the characters before its NUL; the null pointer   *)
(* gives the empty sequence (TestSubStringCTor3/4).                        *)
(***************************************************************************)
EXTENDS Integers, Sequences, FiniteSetsExt

CONSTANT Strs

VARIABLE text

\* String(): the empty string.
AInit == text = [x \in Strs |-> <<>>]

\* String(data), operator=(data), String(other), operator=(other): a copy.
AAssign(x, t) == text' = [text EXCEPT ![x] = t]

\* String(data, start): the characters from position start on.
ATail(x, t, start) == AAssign(x, SubSeq(t, start + 1, Len(t)))

\* String(data, start, end), String(other, start, end): positions start to
\* end inclusive ("0123456789", 4, 6 gives "456"), end cut at the last
\* character, nothing when end < start or start is past the end.
ARange(x, t, start, end) ==
  AAssign(x, IF end < start \/ start > Len(t) THEN <<>>
             ELSE SubSeq(t, start + 1, Min({end + 1, Len(t)})))

\* append(other), operator+: the concatenation.
AAppend(x, t) == AAssign(x, text[x] \o t)

AConcat(x, a, b) == AAssign(x, a \o b)

\* truncate(length): a no-op unless length is below the length, else the
\* first length characters.
ATruncate(x, n) ==
  AAssign(x, IF n >= Len(text[x]) THEN text[x] ELSE SubSeq(text[x], 1, n))

\* substr(start, length): at most length characters from start, the rest
\* of the string for a negative length or one past the end.
ASubstr(x, t, start, length) ==
  LET last == IF length < 0 THEN Len(t) ELSE Min({start + length, Len(t)})
  IN  AAssign(x, IF start >= last THEN <<>> ELSE SubSeq(t, start + 1, last))

\* toUpperCase / toLowerCase: ASCII letters converted, the rest kept.
AToUpperCase(x) ==
  AAssign(x, [i \in DOMAIN text[x] |->
                IF text[x][i] \in 97 .. 122 THEN text[x][i] - 32 ELSE text[x][i]])

AToLowerCase(x) ==
  AAssign(x, [i \in DOMAIN text[x] |->
                IF text[x][i] \in 65 .. 90 THEN text[x][i] + 32 ELSE text[x][i]])

\* swap(other): the two contents exchanged.
ASwap(x, y) == text' = [text EXCEPT ![x] = text[y], ![y] = text[x]]

=============================================================================
