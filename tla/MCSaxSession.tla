---------------------------- MODULE MCSaxSession ----------------------------
(***************************************************************************)
(* An empty chunk, two that fit together, and one that is over the limit   *)
(* once another is in the buffer.                                          *)
(***************************************************************************)
EXTENDS SaxSession

MCChunks == {<<>>, <<"a">>, <<"b">>, <<"a", "b", "a">>}
=============================================================================
