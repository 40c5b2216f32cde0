--------------------------------- MODULE ATA ---------------------------------
(* drivers/ata.c against the two drives of the primary bus: ata_init,       *)
(* ata_read_sector and ata_write_sector step by step as they touch the      *)
(* registers, and the drive at its own pace: it may answer at once, after   *)
(* the driver has given up, or with an error.                               *)
EXTENDS Integers, Sequences

CONSTANTS
  Words,        \* words of a sector (256)
  Byte, Nibble, \* values of a register and of the head bits (256, 16)
  Sectors,      \* sectors callers ask for
  DiskSize,     \* sectors a drive has
  Values,       \* values of a word
  Blank, Signature,  \* the word 0, and the last word of a boot sector
  Written,      \* contents the file system writes
  PollLimit,    \* polls before ata_wait_drq gives up (1000000)
  MaxCalls,     \* bound: calls of the file system
  Contents,     \* what a drive may hold at first
  Idle          \* no call is being served

Drives == {0, 1}
Data == [1 .. Words -> Values]
Zeros == [i \in 1 .. Words |-> Blank]
Signed(data) == data[Words] = Signature

ASSUME SectorsAssumption == 0 \in Sectors /\ Sectors \subseteq 0 .. Nibble * Byte * Byte * Byte - 1
ASSUME DataAssumption == /\ Words \in Nat \ {0} /\ {Blank, Signature} \subseteq Values
                         /\ Written \subseteq Data /\ Contents \subseteq [Sectors -> Data]
ASSUME PollAssumption == PollLimit \in Nat \ {0} /\ DiskSize \in Nat
ASSUME RegisterAssumption == Byte \in Nat \ {0} /\ Nibble \in Nat \ {0}
ASSUME SignatureAssumption == Blank # Signature
ASSUME IdleAssumption ==
  Idle \notin [op : {"read", "write"}, drive : Drives, lba : Sectors,
               data : Data, clean : BOOLEAN]

VARIABLES
  current_drive,
  pc,        \* idle, bsy, delay, poll, transfer, commit
  call,      \* the arguments: what to do, which sector, what to write
  buf,       \* the caller's buffer
  polls, word,   \* loop counters
  probe,     \* how far ata_init is: start, slave, master, ready
  answer,    \* history: what the last read returned
  stale,     \* history: the command was written to a drive with a request open
  gaveUp,    \* history: ata_wait_drq has run into its limit at a drive that worked
  refused,   \* history: the drives that answered ata_init with an error
  calls,     \* bound
  present, disk,   \* the drives there are and what they hold
  regs,      \* drive/head, LBA and command registers
  status,    \* bsy, drq, err or ready
  asked,     \* the command register was written and the drive has not seen it
  job, fifo  \* what the drive is doing, and the words in between

driver == <<current_drive, pc, call, buf, polls, word, probe>>
history == <<answer, stale, gaveUp, refused, calls>>
device == <<present, disk, regs, status, asked, job, fifo>>
vars == <<driver, history, device>>

-----------------------------------------------------------------------------
(* The registers: the sector number is cut into three bytes and a nibble.   *)

Registers(op, drive, lba) ==
  [op |-> op, drive |-> drive, lo |-> lba % Byte, mid |-> (lba \div Byte) % Byte,
   hi |-> (lba \div (Byte * Byte)) % Byte,
   head |-> (lba \div (Byte * Byte * Byte)) % Nibble]

Addressed(r) == r.lo + Byte * (r.mid + Byte * (r.hi + Byte * r.head))

(* What the status port shows: a drive that is not there shows nothing.     *)
Status == IF regs.drive \in present THEN status ELSE "ready"

-----------------------------------------------------------------------------
(* The driver.                                                              *)

Begin(op, lba, data) ==
  /\ call' = [op |-> op, lba |-> lba, data |-> data]
  /\ pc' = "bsy"

Finish(b) ==
  /\ pc' = "idle"
  /\ buf' = b
  /\ answer' = IF call.op = "read" THEN b ELSE answer

(* ata_wait_bsy, then the registers and the command.                        *)
Issue ==
  /\ pc = "bsy" /\ Status # "bsy"
  /\ regs' = Registers(call.op, current_drive, call.lba)
  /\ asked' = TRUE
  /\ stale' = (status = "drq")
  /\ pc' = "delay" /\ polls' = 0
  /\ UNCHANGED <<current_drive, call, buf, word, probe, answer, gaveUp, refused,
                 calls, present, disk, status, job, fifo>>

(* Mutant: the first status is read at once.                                *)
ata_delay400ns_Skipped ==
  /\ pc = "delay"
  /\ pc' = "poll"
  /\ UNCHANGED <<current_drive, call, buf, polls, word, probe, history, device>>

(* Within 400 ns a drive shows that it has seen the command.                *)
ata_delay400ns ==
  /\ pc = "delay" /\ ~asked
  /\ pc' = "poll"
  /\ UNCHANGED <<current_drive, call, buf, polls, word, probe, history, device>>

(* Mutant: the loop has no limit.                                           *)
ata_wait_drq_Endless ==
  /\ pc = "poll" /\ Status \notin {"err", "drq"}
  /\ UNCHANGED vars

(* Neither error nor request: once more.                                    *)
ata_wait_drq ==
  /\ pc = "poll" /\ Status \notin {"err", "drq"} /\ polls + 1 < PollLimit
  /\ polls' = polls + 1
  /\ UNCHANGED <<current_drive, pc, call, buf, word, probe, history, device>>

(* Mutant: a buffer that was not read is left as it was.                    *)
Cleared_Not == buf
(* A read that fails gives zeros; a write that fails says nothing.          *)
Cleared == IF call.op = "read" THEN Zeros ELSE buf

Fail ==
  /\ pc = "poll"
  /\ Status = "err" \/ (Status # "drq" /\ polls + 1 = PollLimit)
  /\ gaveUp' = (gaveUp \/ Status = "bsy")
  /\ refused' = IF probe # "ready" /\ Status = "err"
                THEN refused \cup {current_drive} ELSE refused
  /\ Finish(Cleared)
  /\ UNCHANGED <<current_drive, call, polls, word, probe, stale, calls, device>>

Requested ==
  /\ pc = "poll" /\ Status = "drq"
  /\ pc' = "transfer" /\ word' = 1
  /\ UNCHANGED <<current_drive, call, buf, polls, probe, history, device>>

Open(op) == status = "drq" /\ job.op = op /\ regs.drive \in present

(* inw: a drive that waits for words has none to give; what the port reads  *)
(* then is not defined.                                                     *)
ReadWord ==
  /\ pc = "transfer" /\ call.op = "read"
  /\ \E w \in IF Open("read") THEN {Head(fifo)} ELSE Values :
       LET b == [buf EXCEPT ![word] = w]
       IN IF word = Words THEN Finish(b) /\ UNCHANGED word
          ELSE buf' = b /\ word' = word + 1 /\ UNCHANGED <<pc, answer>>
  /\ IF Open("read")
     THEN /\ fifo' = Tail(fifo)
          /\ status' = IF Len(fifo) = 1 THEN "ready" ELSE status
     ELSE UNCHANGED <<fifo, status>>
  /\ UNCHANGED <<current_drive, call, polls, probe, stale, gaveUp, refused, calls,
                 present, disk, regs, asked, job>>

(* outw: with the last word the drive is busy again.                        *)
WriteWord ==
  /\ pc = "transfer" /\ call.op = "write"
  /\ IF Open("write")
     THEN /\ fifo' = Append(fifo, call.data[word])
          /\ status' = IF Len(fifo') = Words THEN "bsy" ELSE status
     ELSE UNCHANGED <<fifo, status>>
  /\ IF word = Words THEN pc' = "commit" /\ UNCHANGED word
     ELSE word' = word + 1 /\ UNCHANGED pc
  /\ UNCHANGED <<current_drive, call, buf, polls, probe, history,
                 present, disk, regs, asked, job>>

(* The ata_wait_bsy that ends a write.                                      *)
Committed ==
  /\ pc = "commit" /\ Status # "bsy"
  /\ Finish(buf)
  /\ UNCHANGED <<current_drive, call, polls, word, probe, stale, gaveUp, refused,
                 calls, device>>

-----------------------------------------------------------------------------
(* The callers: ata_init first, then the file system.                       *)

ProbeSlave ==
  /\ pc = "idle" /\ probe = "start"
  /\ current_drive' = 1 /\ probe' = "slave"
  /\ Begin("read", 0, Zeros)
  /\ UNCHANGED <<buf, polls, word, history, device>>

(* Mutant: the first drive that answers is taken.                           *)
Found_Any == TRUE
(* The boot sector signature is in the buffer.                              *)
Found == Signed(buf)

ProbeMaster ==
  /\ pc = "idle" /\ probe = "slave" /\ ~Found
  /\ current_drive' = 0 /\ probe' = "master"
  /\ Begin("read", 0, Zeros)
  /\ UNCHANGED <<buf, polls, word, history, device>>

(* Found or not, the driver is used from here on.                           *)
Probed ==
  /\ pc = "idle"
  /\ probe = "master" \/ (probe = "slave" /\ Found)
  /\ probe' = "ready"
  /\ UNCHANGED <<current_drive, pc, call, buf, polls, word, history, device>>

(* fat16.c reads any sector and writes any but the boot sector.             *)
Request ==
  /\ pc = "idle" /\ probe = "ready" /\ calls < MaxCalls
  /\ \E lba \in Sectors :
       \/ Begin("read", lba, Zeros)
       \/ lba # 0 /\ \E data \in Written : Begin("write", lba, data)
  /\ calls' = calls + 1
  /\ UNCHANGED <<current_drive, buf, polls, word, probe, answer, stale, gaveUp,
                 refused, device>>

-----------------------------------------------------------------------------
(* The drives.                                                              *)

(* The drive turns to the command.  What it does when a request is still    *)
(* open is not defined: it may drop that request, or the command.           *)
Accept ==
  /\ asked /\ asked' = FALSE
  /\ \/ /\ regs.drive \in present
        /\ status' = "bsy" /\ fifo' = <<>>
        /\ job' = [op |-> regs.op, drive |-> regs.drive, lba |-> Addressed(regs)]
     \/ /\ regs.drive \notin present \/ status = "drq"
        /\ UNCHANGED <<status, fifo, job>>
  /\ UNCHANGED <<driver, history, present, disk, regs>>

OnDisk == job.lba < DiskSize

(* Ready to give a sector, or to take one.                                  *)
OpenRequest ==
  /\ status = "bsy" /\ fifo = <<>> /\ OnDisk
  /\ status' = "drq"
  /\ fifo' = IF job.op = "read" THEN disk[job.drive][job.lba] ELSE <<>>
  /\ UNCHANGED <<driver, history, present, disk, regs, asked, job>>

(* The sector is past the end, cannot be read or cannot be written.         *)
Refuse ==
  /\ status = "bsy"
  /\ status' = "err" /\ fifo' = <<>>
  /\ UNCHANGED <<driver, history, present, disk, regs, asked, job>>

Commit ==
  /\ status = "bsy" /\ Len(fifo) = Words
  /\ disk' = [disk EXCEPT ![job.drive][job.lba] = fifo]
  /\ status' = "ready" /\ fifo' = <<>>
  /\ UNCHANGED <<driver, history, present, regs, asked, job>>

Init ==
  /\ present \in SUBSET Drives /\ disk \in [Drives -> Contents]
  /\ current_drive = 1 /\ pc = "idle" /\ probe = "start"
  /\ call = [op |-> "read", lba |-> 0, data |-> Zeros]
  /\ buf = [i \in 1 .. Words |-> Signature]   \* not initialised: the worst
  /\ polls = 0 /\ word = 1
  /\ answer = Zeros /\ stale = FALSE /\ gaveUp = FALSE /\ refused = {} /\ calls = 0
  /\ regs = Registers("read", 0, 0) /\ status = "ready" /\ asked = FALSE
  /\ job = [op |-> "read", drive |-> 0, lba |-> 0] /\ fifo = <<>>

Driver ==
  \/ Issue \/ ata_delay400ns \/ ata_wait_drq \/ Fail \/ Requested
  \/ ReadWord \/ WriteWord \/ Committed
  \/ ProbeSlave \/ ProbeMaster \/ Probed

Device == Accept \/ OpenRequest \/ Refuse \/ Commit

Next == Driver \/ Request \/ Device

(* The driver runs; a busy drive comes to an end some time.                 *)
Spec == Init /\ [][Next]_vars /\ WF_vars(Driver) /\ WF_vars(Device)

-----------------------------------------------------------------------------
TypeOK ==
  /\ current_drive \in Drives
  /\ pc \in {"idle", "bsy", "delay", "poll", "transfer", "commit"}
  /\ call \in [op : {"read", "write"}, lba : Sectors, data : Data]
  /\ buf \in Data /\ answer \in Data
  /\ polls \in 0 .. PollLimit - 1 /\ word \in 1 .. Words
  /\ probe \in {"start", "slave", "master", "ready"}
  /\ status \in {"ready", "bsy", "drq", "err"}
  /\ fifo \in Seq(Values) /\ Len(fifo) <= Words

(* The driver keeps the promise of SectorStore: a clean read gives the      *)
(* sector asked for or zeros, never another sector, another drive or a mix; *)
(* a clean write goes to its sector, whole, before the call returns, or     *)
(* nowhere.                                                                 *)
Serving == [op |-> call.op, drive |-> current_drive, lba |-> call.lba,
            data |-> call.data, clean |-> (pc = "bsy" \/ ~stale)]
Pending == IF pc = "idle" THEN Idle ELSE Serving
Store == INSTANCE SectorStore WITH
           store <- disk, pending <- Pending, result <- answer
ImplementsStore == Store!Spec

(* A call finds a request open only if an earlier one gave up on a drive    *)
(* that was still at work: without that time-out every call is clean.       *)
UncleanOnlyAfterTimeout == stale => gaveUp

(* A drive with a boot sector that let ata_init read it.                    *)
Bootable(d) == d \in present /\ Signed(disk[d][0]) /\ d \notin refused

(* ata_init tells a drive with a boot sector from one without and from an   *)
(* empty place, and from then on the file system works on the slave exactly *)
(* if there is a boot sector on it, else on the master: whatever the buffer *)
(* on the stack held, whatever the other drive holds, however late the      *)
(* answers within the limit of ata_wait_drq.                                *)
ProbeFindsDisk ==
  ~gaveUp =>
    /\ probe \in {"slave", "master"} /\ pc = "idle"
         => (Found <=> Bootable(current_drive))
    /\ probe = "ready" => (current_drive = 1 <=> Bootable(1))

(* Every call ends: missing drives, errors and late answers included.       *)
CallsEnd == pc # "idle" ~> pc = "idle"
=============================================================================
