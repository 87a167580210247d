-------------------------- MODULE MCMessageStore --------------------------
(* Instance of MessageStore for TLC: two streams, messages over one letter *)
(* and one blank.                                                          *)
EXTENDS MessageStore

MCMessages == {<<"x", "_">>, <<"_">>}
=============================================================================
