----------------------------- MODULE MCTerminal -----------------------------
(* Instance of Terminal for TLC: a screen of three rows of two columns, so  *)
(* that a line of up to four characters always spans rows and scrolls.      *)
EXTENDS Terminal

MCChars == {"x", "y"}
MCPrompt == <<"y">>
MCBanner == <<"x", Newline, "x", Newline>>
MCExit == <<"x", Newline>>
=============================================================================
