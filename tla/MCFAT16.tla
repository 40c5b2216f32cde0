------------------------------ MODULE MCFAT16 -------------------------------
(* Instance of FAT16 for TLC: a name, one that format_name_83 stores as     *)
(* another ("a." as "A"), and one it refuses.                               *)
EXTENDS FAT16

MCNames == {"a", "b", "a.", "toolongname"}
MCStored == [n \in MCNames |->
  CASE n = "a." -> "a" [] n = "toolongname" -> "bad" [] OTHER -> n]
MCTexts == {"x", "y"}
(* A file is overwritten by less and by other text; two texts of one length *)
(* end in two files.                                                        *)
MCEchoes == {[name |-> e[1], text |-> e[2], len |-> e[3]] : e \in
  {<<"a", "x", 3>>, <<"a", "y", 1>>, <<"b", "y", 3>>, <<"b", "y", 0>>,
   <<"a.", "y", 3>>, <<"toolongname", "x", 0>>}}
=============================================================================
