------------------------------ MODULE MCKHeap -------------------------------
(* Instance of KHeap for TLC.                                               *)
EXTENDS KHeap
=============================================================================
