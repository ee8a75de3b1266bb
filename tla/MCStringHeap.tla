---------------------------- MODULE MCStringHeap ----------------------------
(* String buffers for TLC: two objects, literals "" and "a", buffers of at *)
(* most three characters, and as many buffer ids as two objects, the       *)
(* temporary and one new buffer can hold at once.                          *)
EXTENDS StringHeap

MCCStrs == {<<>>, <<97>>}

=============================================================================
