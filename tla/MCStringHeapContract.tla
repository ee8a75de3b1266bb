------------------------ MODULE MCStringHeapContract ------------------------
EXTENDS StringHeapContract

\* The literals passed as char_t*: "" and "a".
MCCStrs == {<<>>, <<97>>}

=============================================================================
