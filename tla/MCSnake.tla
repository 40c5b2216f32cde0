------------------------------ MODULE MCSnake -------------------------------
(* Instance of Snake for TLC.                                               *)
EXTENDS Snake

MCText == {<<2, 2>>, <<3, 2>>}
=============================================================================
