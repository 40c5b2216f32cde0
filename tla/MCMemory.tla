------------------------------ MODULE MCMemory ------------------------------
(* Instance of Memory for TLC: three pages of code under one page table, a  *)
(* page of stack under another; a program of two pages, one of two segments *)
(* that fills mapped_pages, and one whose segments meet in a page.          *)
EXTENDS Memory

MCPages == {"code1", "code2", "code3", "stack1"}
MCTable == [p \in MCPages |-> IF p = "stack1" THEN 767 ELSE 1]
MCStack == <<"stack1">>
MCPrograms == {<<<<"code1">>>>,
               <<<<"code1">>, <<"code2">>>>,
               <<<<"code1">>, <<"code2", "code3">>>>,
               <<<<"code1", "code2">>, <<"code2">>>>}
(* All of memory; and low memory that ends within a block, a hole, and high *)
(* memory that begins within a block, described by two entries that overlap,*)
(* the higher one first.                                                    *)
Ram(base, len) == [available |-> TRUE, base |-> base, len |-> len]
Rom(base, len) == [available |-> FALSE, base |-> base, len |-> len]
MCMaps == {<<Ram(0, 24)>>,
           <<Ram(0, 5), Rom(5, 1), Ram(12, 11), Ram(7, 9)>>}
=============================================================================
