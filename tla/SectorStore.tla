----------------------------- MODULE SectorStore -----------------------------
(* What the ATA driver promises the file system: sectors that are read and  *)
(* written whole, one call at a time.  A read may give zeros instead, a     *)
(* write may do nothing, and neither says so.  The promise has a hole: a    *)
(* call made to a drive that is not done with an earlier one is not clean,  *)
(* it may read anything and write its data to any sector.                   *)
CONSTANTS Drives, Sectors, Data, Zeros, Idle

VARIABLES store,     \* what each drive holds
          pending,   \* the call being served, or Idle
          result     \* what the last read gave

vars == <<store, pending, result>>

Calls == [op : {"read", "write"}, drive : Drives, lba : Sectors,
          data : Data, clean : BOOLEAN]

Init ==
  /\ store \in [Drives -> [Sectors -> Data]]
  /\ pending = Idle
  /\ result = Zeros

Call ==
  /\ pending = Idle
  /\ pending' \in {c \in Calls : c.clean}
  /\ UNCHANGED <<store, result>>

(* The drive turns out to be still at work on something else.               *)
FindUnclean ==
  /\ pending # Idle
  /\ pending' = [pending EXCEPT !.clean = FALSE]
  /\ UNCHANGED <<store, result>>

TakeEffect ==
  /\ pending # Idle /\ pending.op = "write"
  /\ \E d \in Drives, s \in Sectors :
       /\ pending.clean => d = pending.drive /\ s = pending.lba
       /\ store' = [store EXCEPT ![d][s] = pending.data]
  /\ UNCHANGED <<pending, result>>

Return ==
  /\ pending # Idle
  /\ pending' = Idle
  /\ IF pending.op = "write" THEN UNCHANGED result
     ELSE /\ result' \in Data
          /\ pending.clean => result' \in {store[pending.drive][pending.lba], Zeros}
  /\ UNCHANGED store

Next == Call \/ FindUnclean \/ TakeEffect \/ Return

Spec == Init /\ [][Next]_vars
=============================================================================
