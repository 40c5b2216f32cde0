----------------------------- MODULE MCKeyboard -----------------------------
(* Instance of Keyboard for TLC.                                            *)
EXTENDS Keyboard
=============================================================================
