--------------------------- MODULE MCCapuString ---------------------------
(* capu::String for TLC: two objects, arguments over 'A' (65) and 'a'     *)
(* (97), buffers of at most three characters, and a 4-bit uint_t, wide    *)
(* enough that no index the inputs produce wraps except the wraps the     *)
(* code itself makes below zero.                                          *)
EXTENDS CapuString

MCCStrs == {<<>>, <<97>>, <<65, 97>>, <<97, 65, 97>>}

=============================================================================
