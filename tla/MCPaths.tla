------------------------------ MODULE MCPaths ------------------------------
EXTENDS Paths

MCLetters == {"/", "a", ".", " "}
(* The shell strips the spaces an argument begins with.                     *)
MCArgs == {s \in UNION {[1 .. n -> MCLetters] : n \in 0 .. 3} : s = <<>> \/ s[1] # " "}
          \cup {<<"/", "a", "/", "a">>, <<"a", "a", "a", "a", "a">>,
                <<".", ".", "/", "a", "/">>}
MCNewArgs == {<<>>, <<"a">>, <<"a", ".">>, <<"a", ".", "a">>, <<"/", " ">>, <<"a", "a">>,
              <<"/", "a">>, <<"a", "/", "a">>, <<"a", "/">>, <<".", ".", "/", "a">>,
              <<"a", ".", " ">>}
=============================================================================
