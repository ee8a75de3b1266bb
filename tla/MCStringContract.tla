-------------------------- MODULE MCStringContract --------------------------
(* capu::String against its contract for TLC: the instance of MCCapuString *)
(* (two objects, 'A' and 'a' arguments, buffers of at most three           *)
(* characters, a 4-bit uint_t).                                            *)
EXTENDS StringContract

MCCStrs == {<<>>, <<97>>, <<65, 97>>, <<97, 65, 97>>}

=============================================================================
