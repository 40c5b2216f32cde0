------------------------------- MODULE MCATA -------------------------------
EXTENDS ATA

CONSTANTS zero, signature, a

MCWritten == {<<zero, signature>>, <<a, a>>}
(* A drive with and without a boot sector; sector 2 is past the end.        *)
MCContents ==
  {[s \in 0 .. 2 |-> CASE s = 0 -> boot [] s = 1 -> <<a, zero>>
                       [] OTHER -> <<zero, zero>>]
     : boot \in {<<zero, signature>>, <<signature, a>>}}
=============================================================================
