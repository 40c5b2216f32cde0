------------------------------ MODULE ATAProofs ------------------------------
(* Proofs about the ATA driver, for every size of sectors and registers,    *)
(* every content of the drives and any number of calls: what it tells its   *)
(* callers is the promise of SectorStore.                                   *)
EXTENDS ATA, TLAPS, SequenceTheorems

-----------------------------------------------------------------------------
(* Registers: the four pieces of a sector number make it up again.          *)

LEMMA DivMod ==
  ASSUME NEW n \in Nat, NEW b \in Nat \ {0}
  PROVE  /\ n \div b \in Nat
         /\ n % b \in 0 .. b - 1
         /\ n = (n % b) + b * (n \div b)
<1>1. n \div b \in Nat /\ n % b \in 0 .. b - 1
  BY SMT
<1>2. n = (n % b) + b * (n \div b)
  BY Z3
<1> QED  BY <1>1, <1>2

(* A quotient is determined by what it leaves.                              *)
LEMMA QuotientUnique ==
  ASSUME NEW b \in Nat \ {0}, NEW p \in Nat, NEW q \in Nat,
         NEW r \in 0 .. b - 1, NEW s \in 0 .. b - 1,
         r + b * p = s + b * q
  PROVE  p = q
<1>1. ASSUME p < q PROVE FALSE
  <2>1. PICK d \in Nat : q = p + 1 + d
    <3>1. q - p - 1 \in Nat /\ q = p + 1 + (q - p - 1)
      BY <1>1, SMT
    <3> QED  BY <3>1
  <2>2. b * q = b * p + b + b * d
    BY <2>1, SMT
  <2>3. b * d >= 0
    BY <2>1, SMT
  <2>4. b * p \in Int /\ b * q \in Int /\ b * d \in Int
    BY <2>1, SMT
  <2> QED  BY <2>2, <2>3, <2>4, SMT
<1>2. ASSUME q < p PROVE FALSE
  <2>1. PICK d \in Nat : p = q + 1 + d
    <3>1. p - q - 1 \in Nat /\ p = q + 1 + (p - q - 1)
      BY <1>2, SMT
    <3> QED  BY <3>1
  <2>2. b * p = b * q + b + b * d
    BY <2>1, SMT
  <2>3. b * d >= 0
    BY <2>1, SMT
  <2>4. b * p \in Int /\ b * q \in Int /\ b * d \in Int
    BY <2>1, SMT
  <2> QED  BY <2>2, <2>3, <2>4, SMT
<1> QED  BY <1>1, <1>2, SMT

LEMMA DivTwice ==
  ASSUME NEW n \in Nat, NEW b \in Nat \ {0}, NEW c \in Nat \ {0}
  PROVE  n \div (b * c) = (n \div b) \div c
<1> DEFINE q == n \div b
           p == q \div c
           bc == b * c
<1>1. bc \in Nat \ {0}
  BY SMT
<1>2. q \in Nat /\ n % b \in 0 .. b - 1 /\ n = (n % b) + b * q
  BY DivMod
<1>3. p \in Nat /\ q % c \in 0 .. c - 1 /\ q = (q % c) + c * p
  BY <1>2, DivMod
<1>4. n \div bc \in Nat /\ n % bc \in 0 .. bc - 1 /\ n = (n % bc) + bc * (n \div bc)
  BY <1>1, DivMod
<1>5. b * q = b * (q % c) + b * (c * p)
  BY <1>2, <1>3, SMT
<1>6. b * (c * p) = bc * p
  BY <1>3, SMT
<1>7. b * (q % c) \in 0 .. bc - b
  <2> DEFINE m == q % c
             k == c - 1 - m
  <2>1. m \in Nat /\ k \in Nat /\ c = m + k + 1
    BY <1>3, SMT
  <2>2. bc = b * m + b * k + b
    BY <2>1, SMT
  <2>3. b * m \in Nat /\ b * k \in Nat
    BY <2>1, SMT
  <2> QED  BY <2>2, <2>3, SMT
<1>8. (n % b) + b * (q % c) \in 0 .. bc - 1
  BY <1>1, <1>2, <1>7, SMT
<1>9. bc * p \in Nat /\ b * q \in Nat
  BY <1>1, <1>2, <1>3, SMT
<1>10. n = ((n % b) + b * (q % c)) + bc * p
  BY <1>2, <1>5, <1>6, <1>7, <1>9, SMT
<1> HIDE DEF q, p, bc
<1>11. n \div bc = p
  BY <1>1, <1>3, <1>4, <1>8, <1>10, QuotientUnique
<1> QED  BY <1>11 DEF p, q, bc

(* ata.c:31 to 35: the drive that is asked finds the sector it was asked    *)
(* for in the four registers.                                               *)
LEMMA AddressedBack ==
  ASSUME NEW op, NEW drive, NEW lba \in Sectors
  PROVE  Addressed(Registers(op, drive, lba)) = lba
<1> USE RegisterAssumption
<1> DEFINE x1 == lba \div Byte
           x2 == x1 \div Byte
           x3 == x2 \div Byte
           BB == Byte * Byte
           BBB == Byte * Byte * Byte
<1>1. lba \in Nat /\ lba < Nibble * BBB
  <2>1. BBB \in Nat /\ Nibble * BBB \in Nat
    BY SMT
  <2>2. Nibble * BBB = Nibble * Byte * Byte * Byte
    BY SMT
  <2> QED  BY <2>1, <2>2, SectorsAssumption, SMT
<1>2. BB \in Nat \ {0} /\ BBB \in Nat \ {0} /\ BBB = BB * Byte
  BY SMT
<1>3. x1 \in Nat /\ lba = (lba % Byte) + Byte * x1
  BY <1>1, DivMod
<1>4. x2 \in Nat /\ x1 = (x1 % Byte) + Byte * x2
  BY <1>3, DivMod
<1>5. x3 \in Nat /\ x2 = (x2 % Byte) + Byte * x3
  BY <1>4, DivMod
<1>6. lba \div BB = x2
  BY <1>1, DivTwice
<1>7. lba \div BBB = x3
  <2>1. lba \div (BB * Byte) = (lba \div BB) \div Byte
    <3> HIDE DEF BB
    <3> QED  BY <1>1, <1>2, DivTwice
  <2> QED  BY <2>1, <1>6
<1>8. x3 % Nibble = x3
  <2>1. lba % BBB \in 0 .. BBB - 1 /\ lba = (lba % BBB) + BBB * x3
    <3>1. lba % BBB \in 0 .. BBB - 1 /\ lba = (lba % BBB) + BBB * (lba \div BBB)
      <4> HIDE DEF BBB
      <4> QED  BY <1>1, <1>2, DivMod
    <3> QED  BY <3>1, <1>7
  <2>2. x3 < Nibble
    <3>1. SUFFICES ASSUME x3 >= Nibble PROVE FALSE
      BY <1>5, SMT
    <3> DEFINE d == x3 - Nibble
    <3>2. d \in Nat /\ x3 = Nibble + d
      BY <3>1, <1>5, SMT
    <3>3. BBB * x3 = Nibble * BBB + BBB * d /\ BBB * d \in Nat
      BY <3>2, <1>2, SMT
    <3>4. Nibble * BBB \in Nat
      BY <1>2, SMT
    <3> QED  BY <3>3, <3>4, <2>1, <1>1, SMT
  <2> QED  BY <2>2, <1>5, SMT
<1>9. Addressed(Registers(op, drive, lba))
       = (lba % Byte) + Byte * ((x1 % Byte) + Byte * ((x2 % Byte) + Byte * x3))
  BY <1>6, <1>7, <1>8 DEF Addressed, Registers
<1> HIDE DEF x1, x2, x3
<1> QED  BY <1>3, <1>4, <1>5, <1>9
-----------------------------------------------------------------------------
(* The inductive invariant, part by part.                                   *)

Operations == {"read", "write"}

TypeInv ==
  /\ TypeOK
  /\ {stale, gaveUp, asked} \subseteq BOOLEAN /\ calls \in Nat
  /\ present \subseteq Drives /\ disk \in [Drives -> [Sectors -> Data]]
  /\ regs.op \in Operations /\ regs.drive \in Drives /\ Addressed(regs) \in Sectors
  /\ job \in [op : Operations, drive : Drives, lba : Sectors]

(* A busy drive is the selected one, and nothing is written to its          *)
(* registers; words are only moved when it is not busy.                     *)
Handshake ==
  /\ status = "bsy" => regs.drive \in present /\ ~asked
  /\ asked => pc = "delay"
  /\ pc = "transfer" => regs.drive \in present /\ status # "bsy"
  /\ pc = "commit" => call.op = "write"

(* What is between driver and drive, whoever it is meant for.               *)
Beginning == /\ Len(fifo) = word - 1
             /\ \A i \in 1 .. word - 1 : fifo[i] = call.data[i]
Buffered ==
  /\ status = "bsy" => fifo = << >> \/ (pc = "commit" /\ fifo = call.data)
  /\ status = "drq" /\ job.op = "read" => fifo # << >>
  /\ status = "drq" /\ job.op = "write" =>
       IF pc = "transfer" /\ call.op = "write" THEN Beginning ELSE fifo = << >>

(* While a clean call is served the drive is at work on it and on nothing   *)
(* else.                                                                    *)
Sector == disk[current_drive][call.lba]
Served == pc \in {"delay", "poll", "transfer", "commit"}
Ours ==
  /\ regs.op = call.op /\ regs.drive = current_drive /\ Addressed(regs) = call.lba
  /\ asked \/ current_drive \notin present => status \in {"ready", "err"}
  /\ ~asked /\ current_drive \in present =>
       job = [op |-> call.op, drive |-> current_drive, lba |-> call.lba]
Rest == /\ Len(fifo) = Words - word + 1
        /\ \A i \in word .. Words : fifo[i - word + 1] = Sector[i]
        /\ \A i \in 1 .. word - 1 : buf[i] = Sector[i]
Moved ==
  /\ pc \in {"delay", "poll"} /\ status = "drq" /\ call.op = "read" => fifo = Sector
  /\ pc = "transfer" => status = "drq" /\ (call.op = "read" => Rest)
  /\ pc = "commit" => status # "drq" /\ (status = "bsy" => fifo # << >>)
Clean == ~stale /\ Served => Ours /\ Moved

(* A request is open between two calls only after a time-out.               *)
Waiting ==
  /\ pc \in {"idle", "bsy"} /\ status \in {"bsy", "drq"} => gaveUp
  /\ UncleanOnlyAfterTimeout

(* ata_init reads the boot sector of the drive it is at, and nobody writes  *)
(* a boot sector after it.                                                  *)
Probing ==
  /\ probe \in {"start", "slave"} => current_drive = 1
  /\ probe = "master" => current_drive = 0
  /\ probe = "start" => pc = "idle"
  /\ probe # "ready" => call.op = "read" /\ call.lba = 0
  /\ call.op = "write" => call.lba # 0
  /\ probe = "start" => refused = {}
  /\ probe = "slave" => 0 \notin refused
  /\ probe \in {"slave", "master"} /\ pc # "idle" => current_drive \notin refused
  /\ probe = "master" /\ ~gaveUp => ~Bootable(1)
  /\ ProbeFindsDisk

(* A drive that is there and has seen a clean command is at work on it or   *)
(* has answered: only a missing one stays silent to the end.                *)
Started ==
  ~stale /\ pc \in {"delay", "poll"} /\ ~asked /\ current_drive \in present
    => status # "ready"

IInv == TypeInv /\ Handshake /\ Buffered /\ Clean /\ Waiting /\ Started /\ Probing

-----------------------------------------------------------------------------
LEMMA DataIsSeq ==
  ASSUME NEW d \in Data
  PROVE  d \in Seq(Values) /\ Len(d) = Words
BY DataAssumption DEF Data

LEMMA SeqIsData ==
  ASSUME NEW s \in Seq(Values), Len(s) = Words
  PROVE  s \in Data
BY DEF Data

LEMMA SameData ==
  ASSUME NEW d \in Data, NEW e \in Data, \A i \in 1 .. Words : d[i] = e[i]
  PROVE  d = e
<1>1. d = [i \in 1 .. Words |-> d[i]] /\ e = [i \in 1 .. Words |-> e[i]]
  BY DEF Data
<1>2. [i \in 1 .. Words |-> d[i]] = [i \in 1 .. Words |-> e[i]]
  OBVIOUS
<1> QED  BY <1>1, <1>2, Zenon

LEMMA ZerosIsData == Zeros \in Data
BY DataAssumption DEF Zeros, Data

LEMMA RegistersTyped ==
  ASSUME NEW op \in Operations, NEW drive \in Drives, NEW lba \in Sectors
  PROVE  LET r == Registers(op, drive, lba)
         IN r.op = op /\ r.drive = drive /\ Addressed(r) = lba
<1>1. Addressed(Registers(op, drive, lba)) = lba
  BY AddressedBack
<1>2. Registers(op, drive, lba).op = op /\ Registers(op, drive, lba).drive = drive
  BY DEF Registers
<1> QED  BY <1>1, <1>2

LEMMA InitInv == Init => IInv
<1> SUFFICES ASSUME Init PROVE IInv
  OBVIOUS
<1>1. 0 \in Sectors /\ Zeros \in Data /\ [i \in 1 .. Words |-> Signature] \in Data
  BY ZerosIsData, SectorsAssumption, DataAssumption DEF Data
<1>2. regs.op = "read" /\ regs.drive = 0 /\ Addressed(regs) = 0
  BY <1>1, RegistersTyped DEF Init, Operations, Drives
<1>3. disk \in [Drives -> [Sectors -> Data]]
  BY DataAssumption DEF Init
<1>4. TypeInv
  <2>1. TypeOK
    BY <1>1, DataAssumption, PollAssumption DEF Init, TypeOK, Drives
  <2>2. job \in [op : Operations, drive : Drives, lba : Sectors]
    BY <1>1 DEF Init, Operations, Drives
  <2>3. {stale, gaveUp, asked} \subseteq BOOLEAN /\ calls \in Nat /\ present \subseteq Drives
    BY DEF Init
  <2> QED  BY <1>1, <1>2, <1>3, <2>1, <2>2, <2>3 DEF TypeInv, Operations, Drives
<1>5. Handshake /\ Buffered /\ Clean /\ Waiting
  BY DEF Init, Handshake, Buffered, Clean, Served, Waiting, UncleanOnlyAfterTimeout
<1>6. Probing /\ Started
  BY DEF Init, Probing, ProbeFindsDisk, Started
<1> QED  BY <1>4, <1>5, <1>6 DEF IInv

(* What a turn of the two loops over the words does, case by case.          *)
LEMMA ReadWordDoes ==
  ASSUME IInv, ReadWord
  PROVE  /\ pc = "transfer" /\ call.op = "read"
         /\ UNCHANGED <<current_drive, call, polls, probe, stale, gaveUp, refused, calls,
                        present, disk, regs, asked, job>>
         /\ \E w \in Values : /\ buf' = [buf EXCEPT ![word] = w]
                              /\ Open("read") => w = Head(fifo)
         /\ Open("read") =>
              /\ fifo # << >> /\ fifo' = Tail(fifo)
              /\ status' = IF Len(fifo) = 1 THEN "ready" ELSE status
         /\ ~Open("read") => fifo' = fifo /\ status' = status
         /\ word = Words => pc' = "idle" /\ answer' = buf' /\ word' = word
         /\ word # Words => pc' = pc /\ answer' = answer /\ word' = word + 1
<1>1. Open("read") => fifo # << >>
  BY DEF IInv, Buffered, Open
<1>2. Open("read") => Head(fifo) \in Values
  BY <1>1 DEF IInv, TypeInv, TypeOK
<1>3. pc = "transfer" /\ call.op = "read"
  BY DEF ReadWord
<1>4. PICK w \in IF Open("read") THEN {Head(fifo)} ELSE Values :
        IF word = Words THEN Finish([buf EXCEPT ![word] = w]) /\ UNCHANGED word
        ELSE /\ buf' = [buf EXCEPT ![word] = w] /\ word' = word + 1
             /\ UNCHANGED <<pc, answer>>
  BY DEF ReadWord
<1>5. w \in Values /\ (Open("read") => w = Head(fifo))
  BY <1>2, <1>4
<1>6. buf' = [buf EXCEPT ![word] = w]
  BY <1>4, Zenon DEF Finish
<1>7. word = Words => pc' = "idle" /\ answer' = buf' /\ word' = word
  BY <1>3, <1>4 DEF Finish
<1>8. word # Words => pc' = pc /\ answer' = answer /\ word' = word + 1
  BY <1>4, Zenon
<1>9. /\ Open("read") => /\ fifo' = Tail(fifo)
                         /\ status' = IF Len(fifo) = 1 THEN "ready" ELSE status
      /\ ~Open("read") => fifo' = fifo /\ status' = status
      /\ UNCHANGED <<current_drive, call, polls, probe, stale, gaveUp, refused, calls,
                     present, disk, regs, asked, job>>
  BY Zenon DEF ReadWord
<1> QED  BY <1>1, <1>3, <1>5, <1>6, <1>7, <1>8, <1>9

LEMMA WriteWordDoes ==
  ASSUME IInv, WriteWord
  PROVE  /\ pc = "transfer" /\ call.op = "write"
         /\ UNCHANGED <<current_drive, call, buf, polls, probe, history,
                        present, disk, regs, asked, job>>
         /\ Open("write") => /\ fifo' \in Seq(Values) /\ Len(fifo') = word
                             /\ \A i \in 1 .. word : fifo'[i] = call.data[i]
         /\ Open("write") /\ word = Words => status' = "bsy" /\ fifo' = call.data
         /\ Open("write") /\ word # Words => status' = status
         /\ ~Open("write") => fifo' = fifo /\ status' = status
         /\ word = Words => pc' = "commit" /\ word' = word
         /\ word # Words => pc' = pc /\ word' = word + 1
<1>1. /\ pc = "transfer" /\ call.op = "write"
      /\ UNCHANGED <<current_drive, call, buf, polls, probe, history,
                     present, disk, regs, asked, job>>
      /\ ~Open("write") => fifo' = fifo /\ status' = status
      /\ word = Words => pc' = "commit" /\ word' = word
      /\ word # Words => pc' = pc /\ word' = word + 1
  BY Zenon DEF WriteWord
<1>2. word \in 1 .. Words /\ fifo \in Seq(Values) /\ call.data \in Data
  BY DEF IInv, TypeInv, TypeOK
<1>3. ASSUME Open("write")
      PROVE  /\ fifo' \in Seq(Values) /\ Len(fifo') = word
             /\ \A i \in 1 .. word : fifo'[i] = call.data[i]
             /\ status' = IF word = Words THEN "bsy" ELSE status
  <2>1. fifo' = Append(fifo, call.data[word])
    BY <1>3, Zenon DEF WriteWord
  <2>2. status' = IF Len(fifo') = Words THEN "bsy" ELSE status
    BY <1>3, Zenon DEF WriteWord
  <2>3. Beginning
    BY <1>1, <1>3 DEF IInv, Buffered, Open
  <2>4. call.data[word] \in Values
    BY <1>2 DEF Data
  <2>5. fifo' \in Seq(Values) /\ Len(fifo') = word
    BY <1>2, <2>1, <2>3, <2>4, DataAssumption DEF Beginning
  <2>6. ASSUME NEW i \in 1 .. word PROVE fifo'[i] = call.data[i]
    <3>1. CASE i = word
      BY <1>2, <2>1, <2>3, <2>4, <3>1, DataAssumption DEF Beginning
    <3>2. CASE i # word
      BY <1>2, <2>1, <2>3, <2>4, <3>2, DataAssumption DEF Beginning
    <3> QED  BY <3>1, <3>2
  <2> QED  BY <2>2, <2>5, <2>6
<1>4. ASSUME Open("write"), word = Words
      PROVE  status' = "bsy" /\ fifo' = call.data
  <2>1. fifo' \in Data
    BY <1>3, <1>4, SeqIsData
  <2>2. fifo' = call.data
    BY <1>2, <1>3, <1>4, <2>1 DEF Data
  <2> QED  BY <1>3, <1>4, <2>2
<1> QED  BY <1>1, <1>3, <1>4

(* Every step keeps every variable in its set.                              *)
LEMMA TypeStep ==
  ASSUME IInv, Next
  PROVE  TypeInv'
<1> USE DEF TypeInv, TypeOK, driver, history, device
<1>0. TypeInv
  BY DEF IInv
<1>1. CASE Issue
  <2>1. regs'.op = call.op /\ regs'.drive = current_drive /\ Addressed(regs') = call.lba
    BY <1>0, <1>1, RegistersTyped DEF Issue, Operations
  <2> QED  BY <1>0, <1>1, <2>1, PollAssumption DEF Issue, Operations
<1>2. CASE ata_delay400ns
  BY <1>0, <1>2 DEF ata_delay400ns
<1>3. CASE ata_wait_drq
  BY <1>0, <1>3, PollAssumption DEF ata_wait_drq
<1>4. CASE Fail
  BY <1>0, <1>4, ZerosIsData DEF Fail, Finish, Cleared
<1>5. CASE Requested
  BY <1>0, <1>5, DataAssumption DEF Requested
<1>6. CASE ReadWord
  <2>1. PICK w \in Values : buf' = [buf EXCEPT ![word] = w]
    BY <1>6, ReadWordDoes
  <2>2. buf' \in Data
    BY <1>0, <2>1 DEF Data
  <2>3. word' \in 1 .. Words
    BY <1>0, <1>6, ReadWordDoes, DataAssumption
  <2>4. fifo' \in Seq(Values) /\ Len(fifo') <= Words
    <3>1. CASE Open("read")
      <4>1. fifo # << >> /\ fifo' = Tail(fifo)
        BY <1>6, <3>1, ReadWordDoes
      <4>2. Tail(fifo) \in Seq(Values) /\ Len(Tail(fifo)) = Len(fifo) - 1
        BY <1>0, <4>1
      <4> QED  BY <1>0, <4>1, <4>2, DataAssumption
    <3>2. CASE ~Open("read")
      BY <1>0, <1>6, <3>2, ReadWordDoes
    <3> QED  BY <3>1, <3>2
  <2>5. /\ pc' \in {"idle", "transfer"} /\ status' \in {"ready", status}
        /\ answer' \in {answer, buf'}
    BY <1>6, ReadWordDoes
  <2>6. UNCHANGED <<current_drive, call, polls, probe, stale, gaveUp, refused, calls,
                    present, disk, regs, asked, job>>
    BY <1>6, ReadWordDoes
  <2> QED  BY <1>0, <2>2, <2>3, <2>4, <2>5, <2>6
<1>7. CASE WriteWord
  <2>1. fifo' \in Seq(Values) /\ Len(fifo') <= Words
    BY <1>0, <1>7, WriteWordDoes, DataAssumption
  <2>2. word' \in 1 .. Words
    BY <1>0, <1>7, WriteWordDoes, DataAssumption
  <2>3. pc' \in {"commit", "transfer"} /\ status' \in {"bsy", status}
    BY <1>7, WriteWordDoes
  <2>4. UNCHANGED <<current_drive, call, buf, polls, probe, history,
                    present, disk, regs, asked, job>>
    BY <1>7, WriteWordDoes
  <2> QED  BY <1>0, <2>1, <2>2, <2>3, <2>4
<1>8. CASE Committed
  BY <1>0, <1>8 DEF Committed, Finish
<1>9. CASE ProbeSlave \/ ProbeMaster \/ Probed
  <2>1. call' \in [op : {"read", "write"}, lba : Sectors, data : Data]
    BY <1>0, <1>9, ZerosIsData, SectorsAssumption
       DEF ProbeSlave, ProbeMaster, Probed, Begin
  <2> QED  BY <1>0, <1>9, <2>1 DEF ProbeSlave, ProbeMaster, Probed, Begin, Drives
<1>10. CASE Request
  BY <1>0, <1>10, ZerosIsData, DataAssumption DEF Request, Begin
<1>11. CASE Accept
  <2>1. [op |-> regs.op, drive |-> regs.drive, lba |-> Addressed(regs)]
          \in [op : Operations, drive : Drives, lba : Sectors]
    BY <1>0
  <2>2. /\ status' \in {"bsy", status} /\ fifo' \in {<< >>, fifo}
        /\ job' \in [op : Operations, drive : Drives, lba : Sectors]
    BY <1>0, <1>11, <2>1 DEF Accept
  <2>3. TypeOK'
    <3>1. status' \in {"ready", "bsy", "drq", "err"}
      BY <1>0, <2>2
    <3>2. fifo' \in Seq(Values) /\ Len(fifo') <= Words
      <4>1. << >> \in Seq(Values) /\ Len(<< >>) = 0
        OBVIOUS
      <4>2. fifo' = << >> \/ fifo' = fifo
        BY <2>2
      <4>3. fifo \in Seq(Values) /\ Len(fifo) <= Words /\ 0 <= Words
        BY <1>0, DataAssumption
      <4>4. CASE fifo' = << >>
        BY <4>1, <4>3, <4>4, Zenon
      <4>5. CASE fifo' = fifo
        BY <4>3, <4>5, Zenon
      <4> QED  BY <4>2, <4>4, <4>5
    <3> QED  BY <1>0, <1>11, <3>1, <3>2 DEF Accept
  <2> QED  BY <1>0, <1>11, <2>2, <2>3 DEF Accept
<1>12. CASE OpenRequest
  BY <1>0, <1>12, DataIsSeq, DataAssumption DEF OpenRequest
<1>13. CASE Refuse
  BY <1>0, <1>13, DataAssumption DEF Refuse
<1>14. CASE Commit
  <2>1. fifo \in Data
    BY <1>0, <1>14, SeqIsData DEF Commit
  <2> QED  BY <1>0, <1>14, <2>1, DataAssumption DEF Commit
<1> QED
  BY <1>1, <1>2, <1>3, <1>4, <1>5, <1>6, <1>7, <1>8, <1>9, <1>10, <1>11,
     <1>12, <1>13, <1>14 DEF Next, Driver, Device

-----------------------------------------------------------------------------
LEMMA HandshakeStep ==
  ASSUME IInv, Next
  PROVE  Handshake'
<1> USE DEF Handshake, driver, history, device
<1>0. TypeOK /\ Handshake
  BY DEF IInv, TypeInv
<1>1. CASE Issue
  BY <1>0, <1>1 DEF Issue, Status
<1>2. CASE ata_delay400ns
  BY <1>0, <1>2 DEF ata_delay400ns
<1>3. CASE ata_wait_drq
  BY <1>0, <1>3 DEF ata_wait_drq
<1>4. CASE Fail
  BY <1>0, <1>4 DEF Fail, Finish
<1>5. CASE Requested
  BY <1>0, <1>5 DEF Requested, Status
<1>6. CASE ReadWord
  <2>1. /\ pc = "transfer" /\ pc' \in {"idle", "transfer"} /\ asked' = asked
        /\ status' \in {"ready", status} /\ regs' = regs /\ present' = present
    BY <1>6, ReadWordDoes
  <2> QED  BY <1>0, <2>1
<1>7. CASE WriteWord
  <2>1. /\ pc = "transfer" /\ pc' \in {"commit", "transfer"} /\ asked' = asked
        /\ regs' = regs /\ present' = present /\ call' = call /\ call.op = "write"
        /\ status' = status \/ (status' = "bsy" /\ pc' = "commit")
    BY <1>7, WriteWordDoes
  <2> QED  BY <1>0, <2>1
<1>8. CASE Committed
  BY <1>0, <1>8 DEF Committed, Finish
<1>9. CASE ProbeSlave \/ ProbeMaster \/ Probed \/ Request
  BY <1>0, <1>9 DEF ProbeSlave, ProbeMaster, Probed, Request, Begin
<1>10. CASE Accept
  BY <1>0, <1>10 DEF Accept
<1>11. CASE OpenRequest \/ Refuse \/ Commit
  BY <1>0, <1>11 DEF OpenRequest, Refuse, Commit
<1> QED
  BY <1>1, <1>2, <1>3, <1>4, <1>5, <1>6, <1>7, <1>8, <1>9, <1>10, <1>11
     DEF Next, Driver, Device

(* What is in between driver and drive after a step.                        *)
LEMMA BufferedStep ==
  ASSUME IInv, Next
  PROVE  Buffered'
<1> USE DEF Buffered, Beginning, driver, history, device
<1>0. TypeInv /\ Handshake /\ Buffered
  BY DEF IInv
<1>1. CASE Issue
  <2>1. status # "bsy" /\ pc = "bsy"
    BY <1>0, <1>1 DEF Issue, Status, Handshake
  <2> QED  BY <1>0, <1>1, <2>1 DEF Issue
<1>2. CASE ata_delay400ns \/ ata_wait_drq
  BY <1>0, <1>2 DEF ata_delay400ns, ata_wait_drq
<1>3. CASE Fail
  BY <1>0, <1>3 DEF Fail, Finish
<1>4. CASE Requested
  BY <1>0, <1>4 DEF Requested
<1>5. CASE ReadWord
  <2>1. /\ pc = "transfer" /\ call.op = "read" /\ call' = call /\ job' = job
        /\ regs.drive \in present /\ status # "bsy"
        /\ pc' \in {"idle", "transfer"} /\ status' \in {"ready", status}
    BY <1>0, <1>5, ReadWordDoes DEF Handshake
  <2>2. CASE Open("read")
    <3>1. fifo # << >> /\ fifo' = Tail(fifo)
          /\ status' = IF Len(fifo) = 1 THEN "ready" ELSE status
      BY <1>5, <2>2, ReadWordDoes
    <3>2. fifo \in Seq(Values)
      BY <1>0 DEF TypeInv, TypeOK
    <3>3. Len(fifo) # 1 => Tail(fifo) # << >>
      <4>1. Len(Tail(fifo)) = Len(fifo) - 1 /\ Len(fifo) \in Nat
        BY <3>1, <3>2
      <4>2. Len(<< >>) = 0
        OBVIOUS
      <4>3. ASSUME Tail(fifo) = << >> PROVE Len(fifo) = 1
        <5>1. Len(Tail(fifo)) = Len(<< >>)
          BY <4>3, Zenon
        <5> QED  BY <4>1, <4>2, <5>1
      <4> QED  BY <4>3
    <3> QED  BY <2>1, <2>2, <3>1, <3>3 DEF Open
  <2>3. CASE ~Open("read")
    <3>1. fifo' = fifo /\ status' = status
      BY <1>5, <2>3, ReadWordDoes
    <3> QED  BY <1>0, <2>1, <2>3, <3>1 DEF Open
  <2> QED  BY <2>2, <2>3
<1>6. CASE WriteWord
  <2>1. /\ pc = "transfer" /\ call.op = "write" /\ call' = call /\ job' = job
        /\ regs.drive \in present /\ status # "bsy"
        /\ word = Words => pc' = "commit"
        /\ word # Words => pc' = "transfer" /\ word' = word + 1
    BY <1>0, <1>6, WriteWordDoes DEF Handshake
  <2>2. CASE Open("write") /\ word = Words
    BY <1>6, <2>1, <2>2, WriteWordDoes
  <2>3. CASE Open("write") /\ word # Words
    <3>1. /\ Len(fifo') = word /\ status' = status
          /\ \A i \in 1 .. word : fifo'[i] = call.data[i]
      BY <1>6, <2>3, WriteWordDoes
    <3>2. word \in Nat /\ job.op = "write"
      BY <1>0, <2>3 DEF TypeInv, TypeOK, Open
    <3>3. word' - 1 = word
      BY <2>1, <2>3, <3>2
    <3>4. Beginning'
      BY <2>1, <3>1, <3>3
    <3> QED  BY <2>1, <2>3, <3>1, <3>2, <3>4 DEF Open
  <2>4. CASE ~Open("write")
    <3>1. fifo' = fifo /\ status' = status
      BY <1>6, <2>4, WriteWordDoes
    <3>2. status = "drq" => job.op # "write"
      BY <2>1, <2>4 DEF Open
    <3> QED  BY <1>0, <2>1, <3>1, <3>2
  <2> QED  BY <2>2, <2>3, <2>4
<1>7. CASE Committed
  BY <1>0, <1>7 DEF Committed, Finish, Status, Handshake
<1>8. CASE ProbeSlave \/ ProbeMaster \/ Probed \/ Request
  BY <1>0, <1>8 DEF ProbeSlave, ProbeMaster, Probed, Request, Begin
<1>9. CASE Accept
  BY <1>0, <1>9 DEF Accept, Handshake
<1>10. CASE OpenRequest
  <2>1. disk[job.drive][job.lba] # << >>
    <3>1. disk[job.drive][job.lba] \in Data
      BY <1>0 DEF TypeInv
    <3>2. Len(disk[job.drive][job.lba]) = Words
      BY <3>1, DataIsSeq
    <3> QED  BY <3>2, DataAssumption
  <2>2. status = "bsy" /\ fifo = << >> /\ status' = "drq" /\ job' = job /\ pc' = pc
        /\ fifo' = (IF job.op = "read" THEN disk[job.drive][job.lba] ELSE << >>)
    BY <1>10 DEF OpenRequest
  <2>3. pc # "transfer"
    BY <1>0, <2>2 DEF Handshake
  <2> QED  BY <2>1, <2>2, <2>3
<1>11. CASE Refuse \/ Commit
  BY <1>0, <1>11 DEF Refuse, Commit
<1> QED
  BY <1>1, <1>2, <1>3, <1>4, <1>5, <1>6, <1>7, <1>8, <1>9, <1>10, <1>11
     DEF Next, Driver, Device
-----------------------------------------------------------------------------
LEMMA CommitIsOurs ==
  ASSUME IInv, Commit
  PROVE  /\ pc = "commit" /\ call.op = "write" /\ fifo = call.data
         /\ regs.drive \in present /\ ~asked
<1>1. status = "bsy" /\ Len(fifo) = Words
  BY DEF Commit
<1>2. fifo # << >>
  <2>1. Len(<< >>) = 0
    OBVIOUS
  <2> QED  BY <1>1, <2>1, DataAssumption
<1> QED  BY <1>1, <1>2 DEF IInv, Buffered, Handshake

(* A clean call and the drive stay together.                                *)
LEMMA CleanStep ==
  ASSUME IInv, Next
  PROVE  Clean'
<1> USE DEF driver, history, device
<1>0. TypeInv /\ Handshake /\ Buffered /\ Clean
  BY DEF IInv
<1>1. CASE Issue
  <2>1. regs'.op = call.op /\ regs'.drive = current_drive /\ Addressed(regs') = call.lba
    BY <1>0, <1>1, RegistersTyped DEF Issue, Operations, TypeInv, TypeOK
  <2>2. status # "bsy" /\ pc = "bsy"
    BY <1>0, <1>1 DEF Issue, Status, Handshake
  <2> QED
    BY <1>0, <1>1, <2>1, <2>2 DEF Issue, Clean, Served, Ours, Moved, TypeInv, TypeOK
<1>2. CASE ata_delay400ns
  BY <1>0, <1>2 DEF ata_delay400ns, Clean, Served, Ours, Moved, Sector
<1>3. CASE ata_wait_drq
  BY <1>0, <1>3 DEF ata_wait_drq, Clean, Served, Ours, Moved, Sector
<1>4. CASE Fail \/ Committed \/ ProbeSlave \/ ProbeMaster \/ Probed \/ Request
  BY <1>0, <1>4
     DEF Fail, Committed, Finish, ProbeSlave, ProbeMaster, Probed, Request, Begin,
         Handshake, Clean, Served
<1>5. CASE Requested
  <2>1. /\ pc = "poll" /\ pc' = "transfer" /\ word' = 1 /\ Status = "drq"
        /\ UNCHANGED <<current_drive, call, buf, stale, present, disk, regs,
                       status, asked, job, fifo>>
    BY <1>5 DEF Requested
  <2>2. SUFFICES ASSUME ~stale PROVE Ours' /\ Moved'
    BY <2>1 DEF Clean
  <2>3. Ours /\ Moved /\ status = "drq"
    BY <1>0, <2>1, <2>2 DEF Clean, Served, Status
  <2>4. Ours'
    BY <2>1, <2>3 DEF Ours
  <2>5. ASSUME call.op = "read" PROVE Rest'
    <3>1. fifo = Sector /\ Sector \in Data
      BY <1>0, <2>1, <2>3, <2>5 DEF Moved, Sector, TypeInv, TypeOK
    <3>2. Len(fifo) = Words
      BY <3>1, DataIsSeq
    <3> QED  BY <2>1, <3>1, <3>2, DataAssumption DEF Rest, Sector
  <2> QED  BY <2>1, <2>3, <2>4, <2>5 DEF Moved
<1>6. CASE ReadWord
  <2>1. /\ pc = "transfer" /\ call.op = "read"
        /\ UNCHANGED <<current_drive, call, stale, present, disk, regs, asked, job>>
    BY <1>6, ReadWordDoes
  <2>2. SUFFICES ASSUME ~stale, word # Words PROVE Ours' /\ Moved'
    BY <1>6, <2>1, ReadWordDoes DEF Clean, Served
  <2>3. pc' = "transfer" /\ word' = word + 1
    BY <1>6, <2>1, <2>2, ReadWordDoes
  <2>4. Ours /\ status = "drq" /\ Rest
    BY <1>0, <2>1, <2>2 DEF Clean, Served, Moved
  <2>5. Open("read")
    BY <1>0, <2>1, <2>4 DEF Open, Ours, Handshake
  <2>6. word \in 1 .. Words - 1 /\ fifo \in Seq(Values) /\ buf \in Data
    BY <1>0, <2>2, DataAssumption DEF TypeInv, TypeOK
  <2>7. Len(fifo) = Words - word + 1 /\ Len(fifo) # 1
    BY <2>4, <2>6, DataAssumption DEF Rest
  <2>8. fifo' = Tail(fifo) /\ status' = "drq" /\ buf' = [buf EXCEPT ![word] = Head(fifo)]
    BY <1>6, <2>4, <2>5, <2>7, ReadWordDoes
  <2>9. /\ Len(fifo') = Words - word
        /\ \A j \in 1 .. Words - word : fifo'[j] = fifo[j + 1]
    BY <2>6, <2>7, <2>8, DataAssumption
  <2>10. \A i \in word + 1 .. Words : fifo'[i - (word + 1) + 1] = Sector[i]
    <3> SUFFICES ASSUME NEW i \in word + 1 .. Words
                 PROVE  fifo'[i - (word + 1) + 1] = Sector[i]
      OBVIOUS
    <3>1. i - word \in 1 .. Words - word /\ i - (word + 1) + 1 = i - word /\ i \in word .. Words
      BY <2>6, DataAssumption
    <3>2. fifo'[i - word] = fifo[i - word + 1]
      BY <2>9, <3>1
    <3> QED  BY <2>4, <3>1, <3>2 DEF Rest
  <2>11. \A i \in 1 .. word : buf'[i] = Sector[i]
    <3> SUFFICES ASSUME NEW i \in 1 .. word PROVE buf'[i] = Sector[i]
      OBVIOUS
    <3>1. CASE i = word
      <4>1. Head(fifo) = fifo[1] /\ fifo[word - word + 1] = Sector[word]
        BY <2>4, <2>6, <2>7, DataAssumption DEF Rest
      <4>2. buf'[word] = Head(fifo)
        BY <2>6, <2>8, DataAssumption DEF Data
      <4> QED  BY <2>6, <3>1, <4>1, <4>2
    <3>2. CASE i # word
      <4>1. i \in 1 .. word - 1 /\ i \in 1 .. Words
        BY <2>6, <3>2, DataAssumption
      <4>2. buf'[i] = buf[i]
        BY <2>6, <2>8, <3>2, <4>1 DEF Data
      <4> QED  BY <2>4, <4>1, <4>2 DEF Rest
    <3> QED  BY <3>1, <3>2
  <2>12. Sector' = Sector
    BY <2>1 DEF Sector
  <2>13. Rest'
    <3>1. Words - word' + 1 = Words - word /\ word' - 1 = word
      BY <2>3, <2>6, DataAssumption
    <3>2. \A i \in word' .. Words : fifo'[i - word' + 1] = Sector'[i]
      BY <2>3, <2>10, <2>12, Zenon
    <3>3. \A i \in 1 .. word' - 1 : buf'[i] = Sector'[i]
      BY <2>11, <2>12, <3>1, Zenon
    <3>4. Len(fifo') = Words - word' + 1
      BY <2>9, <3>1, Zenon
    <3> QED  BY <3>2, <3>3, <3>4, Zenon DEF Rest
  <2>14. Ours'
    BY <2>1, <2>4, <2>8 DEF Ours
  <2> QED  BY <2>3, <2>8, <2>13, <2>14 DEF Moved
<1>7. CASE WriteWord
  <2>1. /\ pc = "transfer" /\ call.op = "write"
        /\ UNCHANGED <<current_drive, call, stale, present, disk, regs, asked, job>>
    BY <1>7, WriteWordDoes
  <2>2. SUFFICES ASSUME ~stale PROVE Ours' /\ Moved'
    BY <2>1 DEF Clean
  <2>3. Ours /\ status = "drq" /\ regs.drive \in present /\ ~asked
    BY <1>0, <2>1, <2>2 DEF Clean, Served, Moved, Handshake
  <2>4. Open("write")
    BY <2>1, <2>3 DEF Open, Ours
  <2>5. Ours'
    BY <2>1, <2>3 DEF Ours
  <2>6. CASE word = Words
    <3>1. pc' = "commit" /\ status' = "bsy" /\ fifo' = call.data
      BY <1>7, <2>4, <2>6, WriteWordDoes
    <3>2. call.data # << >>
      <4>1. Len(call.data) = Words
        BY <1>0, DataIsSeq DEF TypeInv, TypeOK
      <4>2. Len(<< >>) = 0
        OBVIOUS
      <4> QED  BY <4>1, <4>2, DataAssumption
    <3> QED  BY <2>5, <3>1, <3>2 DEF Moved
  <2>7. CASE word # Words
    <3>1. pc' = "transfer" /\ status' = "drq" /\ call'.op = "write"
      BY <1>7, <2>1, <2>3, <2>4, <2>7, WriteWordDoes
    <3> QED  BY <2>5, <3>1 DEF Moved
  <2> QED  BY <2>6, <2>7
<1>8. CASE Accept
  <2>1. pc = "delay" /\ pc' = pc /\ stale' = stale /\ asked /\ ~asked'
        /\ UNCHANGED <<call, current_drive, present, disk, regs>>
    BY <1>0, <1>8 DEF Accept, Handshake
  <2>2. SUFFICES ASSUME ~stale PROVE Ours' /\ Moved'
    BY <2>1 DEF Clean
  <2>3. Ours /\ status \in {"ready", "err"}
    BY <1>0, <2>1, <2>2 DEF Clean, Served, Ours
  <2>4. CASE regs.drive \in present /\ status' = "bsy"
             /\ job' = [op |-> regs.op, drive |-> regs.drive, lba |-> Addressed(regs)]
    BY <2>1, <2>3, <2>4 DEF Ours, Moved
  <2>5. CASE regs.drive \notin present /\ status' = status
    BY <2>1, <2>3, <2>5 DEF Ours, Moved
  <2> QED  BY <1>8, <2>3, <2>4, <2>5 DEF Accept
<1>9. CASE OpenRequest
  <2>1. /\ status = "bsy" /\ fifo = << >> /\ status' = "drq" /\ job' = job
        /\ fifo' = (IF job.op = "read" THEN disk[job.drive][job.lba] ELSE << >>)
        /\ UNCHANGED <<pc, call, current_drive, stale, present, disk, regs, asked>>
    BY <1>9 DEF OpenRequest
  <2>2. SUFFICES ASSUME ~stale, Served PROVE Ours' /\ Moved'
    BY <2>1 DEF Clean, Served
  <2>3. Ours /\ Moved /\ regs.drive \in present /\ ~asked
    BY <1>0, <2>1, <2>2 DEF Clean, Handshake
  <2>4. job = [op |-> call.op, drive |-> current_drive, lba |-> call.lba]
    BY <2>3 DEF Ours
  <2>5. Ours'
    BY <2>1, <2>3 DEF Ours
  <2>6. pc \in {"delay", "poll"}
    BY <1>0, <2>1, <2>2, <2>3 DEF Served, Moved, Handshake
  <2>7. call.op = "read" => fifo' = Sector
    BY <2>1, <2>4 DEF Sector
  <2> QED  BY <2>1, <2>5, <2>6, <2>7 DEF Moved, Sector
<1>10. CASE Refuse
  BY <1>0, <1>10 DEF Refuse, Handshake, Clean, Served, Ours, Moved
<1>11. CASE Commit
  <2>1. pc = "commit"
    BY <1>0, <1>11, CommitIsOurs
  <2>2. /\ status = "bsy" /\ status' = "ready"
        /\ UNCHANGED <<pc, call, current_drive, stale, present, regs, asked, job>>
    BY <1>11 DEF Commit
  <2> QED  BY <1>0, <2>1, <2>2 DEF Clean, Served, Ours, Moved
<1> QED
  BY <1>1, <1>2, <1>3, <1>4, <1>5, <1>6, <1>7, <1>8, <1>9, <1>10, <1>11
     DEF Next, Driver, Device

LEMMA WaitingStep ==
  ASSUME IInv, Next
  PROVE  Waiting'
<1> USE DEF Waiting, UncleanOnlyAfterTimeout, driver, history, device
<1>0. TypeInv /\ Handshake /\ Clean /\ Waiting
  BY DEF IInv
<1>1. CASE Issue
  BY <1>0, <1>1 DEF Issue, TypeInv
<1>2. CASE ata_delay400ns \/ ata_wait_drq \/ Requested
  BY <1>0, <1>2 DEF ata_delay400ns, ata_wait_drq, Requested
<1>3. CASE Fail
  <2>1. pc = "poll" /\ Status # "drq" /\ status' = status /\ stale' = stale
        /\ gaveUp' = (gaveUp \/ Status = "bsy")
    BY <1>3 DEF Fail
  <2>2. status = "bsy" => Status = "bsy"
    BY <1>0 DEF Handshake, Status
  <2>3. status = "drq" => regs.drive \notin present
    BY <2>1 DEF Status
  <2>4. ~stale /\ status = "drq" => regs.drive = current_drive /\ current_drive \in present
    BY <1>0, <2>1 DEF Clean, Served, Ours
  <2> QED  BY <1>0, <2>1, <2>2, <2>3, <2>4
<1>4. CASE ReadWord
  <2>1. /\ pc = "transfer" /\ stale' = stale /\ gaveUp' = gaveUp
        /\ word = Words => pc' = "idle"
        /\ word # Words => pc' = pc
        /\ call.op = "read"
    BY <1>4, ReadWordDoes
  <2>2. ASSUME ~stale, word = Words PROVE status' = "ready"
    <3>1. Ours /\ status = "drq" /\ Rest
      BY <1>0, <2>1, <2>2 DEF Clean, Served, Moved
    <3>2. Open("read")
      BY <1>0, <2>1, <3>1 DEF Open, Ours, Handshake
    <3>3. Len(fifo) = 1
      BY <2>2, <3>1, DataAssumption DEF Rest
    <3> QED  BY <1>4, <3>2, <3>3, ReadWordDoes
  <2> QED  BY <1>0, <2>1, <2>2
<1>5. CASE WriteWord
  BY <1>0, <1>5, WriteWordDoes
<1>6. CASE Committed
  BY <1>0, <1>6 DEF Committed, Finish, Status, Handshake, Clean, Served, Moved
<1>7. CASE ProbeSlave \/ ProbeMaster \/ Probed \/ Request
  BY <1>0, <1>7 DEF ProbeSlave, ProbeMaster, Probed, Request, Begin
<1>8. CASE Accept
  BY <1>0, <1>8 DEF Accept, Handshake
<1>9. CASE OpenRequest \/ Refuse \/ Commit
  BY <1>0, <1>9 DEF OpenRequest, Refuse, Commit
<1> QED
  BY <1>1, <1>2, <1>3, <1>4, <1>5, <1>6, <1>7, <1>8, <1>9
     DEF Next, Driver, Device
(* The last word of a clean read completes the sector.                      *)
LEMMA LastWordRead ==
  ASSUME IInv, ReadWord, ~stale, word = Words
  PROVE  buf' = Sector /\ regs.drive \in present /\ regs.drive = current_drive
<1>0. TypeInv /\ Handshake /\ Clean
  BY DEF IInv
<1>1. pc = "transfer" /\ call.op = "read"
  BY ReadWordDoes
<1>2. Ours /\ Rest /\ status = "drq"
  BY <1>0, <1>1 DEF Clean, Served, Moved
<1>3. Open("read") /\ regs.drive \in present
  BY <1>0, <1>1, <1>2 DEF Open, Ours, Handshake
<1>4. buf' = [buf EXCEPT ![Words] = Head(fifo)]
  BY <1>3, ReadWordDoes
<1>5. Head(fifo) = Sector[Words]
  <2>1. fifo[Words - Words + 1] = Sector[Words] /\ Len(fifo) = 1
    BY <1>2, DataAssumption DEF Rest
  <2>2. Head(fifo) = fifo[1]
    BY <1>0, <2>1 DEF TypeInv, TypeOK
  <2> QED  BY <2>1, <2>2, DataAssumption
<1>6. buf \in Data /\ Sector \in Data
  BY <1>0 DEF TypeInv, TypeOK, Sector
<1>7. buf' \in Data /\ \A i \in 1 .. Words : buf'[i] = Sector[i]
  <2>1. buf' \in Data
    BY <1>4, <1>5, <1>6, DataAssumption DEF Data
  <2>2. ASSUME NEW i \in 1 .. Words PROVE buf'[i] = Sector[i]
    <3>1. CASE i = Words
      BY <1>4, <1>5, <1>6, <3>1 DEF Data
    <3>2. CASE i # Words
      <4>1. i \in 1 .. Words - 1 /\ buf'[i] = buf[i]
        BY <1>4, <1>6, <3>2, DataAssumption DEF Data
      <4> QED  BY <1>2, <4>1 DEF Rest
    <3> QED  BY <3>1, <3>2
  <2> QED  BY <2>1, <2>2
<1>8. buf' = Sector
  BY <1>6, <1>7, SameData
<1> QED  BY <1>2, <1>3, <1>8 DEF Ours

LEMMA StartedStep ==
  ASSUME IInv, Next
  PROVE  Started'
<1> USE DEF Started, driver, history, device
<1>0. TypeInv /\ Handshake /\ Clean /\ Started
  BY DEF IInv
<1>1. CASE Issue
  BY <1>1 DEF Issue
<1>2. CASE ata_delay400ns \/ ata_wait_drq
  BY <1>0, <1>2 DEF ata_delay400ns, ata_wait_drq
<1>3. CASE Fail \/ Requested \/ Committed
  <2>1. pc' \in {"idle", "transfer"}
    BY <1>3, Zenon DEF Fail, Requested, Committed, Finish
  <2> QED  BY <2>1
<1>4. CASE ReadWord
  <2>1. pc' \in {"idle", "transfer"}
    BY <1>4, ReadWordDoes
  <2> QED  BY <2>1
<1>5. CASE WriteWord
  <2>1. pc' \in {"transfer", "commit"}
    BY <1>5, WriteWordDoes
  <2> QED  BY <2>1
<1>6. CASE ProbeSlave \/ ProbeMaster \/ Probed \/ Request
  <2>1. pc' \in {"idle", "bsy"}
    BY <1>6, Zenon DEF ProbeSlave, ProbeMaster, Probed, Request, Begin
  <2> QED  BY <2>1
<1>7. CASE Accept
  <2>1. /\ asked /\ UNCHANGED <<pc, stale, current_drive, present, regs>>
        /\ \/ status' = "bsy"
           \/ regs.drive \notin present \/ status = "drq"
    BY <1>7 DEF Accept
  <2>2. ~stale => regs.drive = current_drive /\ status # "drq"
    BY <1>0, <2>1 DEF Handshake, Clean, Served, Ours
  <2> QED  BY <2>1, <2>2
<1>8. CASE OpenRequest \/ Refuse
  <2>1. status' \in {"drq", "err"}
    BY <1>8, Zenon DEF OpenRequest, Refuse
  <2> QED  BY <2>1
<1>9. CASE Commit
  <2>1. pc = "commit" /\ pc' = pc
    BY <1>9, CommitIsOurs DEF Commit
  <2> QED  BY <2>1
<1> QED
  BY <1>1, <1>2, <1>3, <1>4, <1>5, <1>6, <1>7, <1>8, <1>9 DEF Next, Driver, Device

(* What ata_init asks of a drive ends in the answer that is kept in the     *)
(* buffer: the two ways a call of it ends,                                  *)
LEMMA FailTells ==
  ASSUME IInv, Fail, probe \in {"slave", "master"}, ~gaveUp'
  PROVE  ~Found' /\ ~Bootable(current_drive)'
<1>1. /\ pc = "poll" /\ buf' = Cleared
      /\ Status = "err" \/ Status # "drq"
      /\ gaveUp' = (gaveUp \/ Status = "bsy")
      /\ refused' = IF probe # "ready" /\ Status = "err"
                    THEN refused \cup {current_drive} ELSE refused
      /\ UNCHANGED <<current_drive, probe, present, disk>>
  BY DEF Fail, Finish, device
<1>2. call.op = "read"
  BY DEF IInv, Probing
<1>3. ~Found'
  BY <1>1, <1>2, SignatureAssumption, DataAssumption DEF Cleared, Found, Signed, Zeros
<1>4. CASE Status = "err"
  BY <1>1, <1>3, <1>4 DEF Bootable
<1>5. CASE Status # "err"
  <2>1. Status = "ready" /\ ~gaveUp
    BY <1>1, <1>5 DEF Status, IInv, TypeInv, TypeOK
  <2>2. ~stale /\ ~asked
    BY <1>1, <2>1 DEF IInv, Waiting, UncleanOnlyAfterTimeout, Handshake
  <2>3. regs.drive = current_drive
    BY <1>1, <2>2 DEF IInv, Clean, Served, Ours
  <2>4. current_drive \notin present
    BY <1>1, <2>1, <2>2, <2>3 DEF IInv, Started, Status
  <2> QED  BY <1>1, <1>3, <2>4 DEF Bootable
<1> QED  BY <1>4, <1>5

(* an error or silence, or the sector.                                      *)
LEMMA ReadTells ==
  ASSUME IInv, ReadWord, word = Words, probe \in {"slave", "master"}, ~gaveUp
  PROVE  Found' <=> Bootable(current_drive)'
<1>1. ~stale /\ pc = "transfer" /\ call.lba = 0
  BY ReadWordDoes DEF IInv, Waiting, UncleanOnlyAfterTimeout, Probing
<1>2. buf' = Sector /\ regs.drive \in present /\ regs.drive = current_drive
  BY <1>1, LastWordRead
<1>3. UNCHANGED <<current_drive, refused, present, disk>>
  BY ReadWordDoes
<1>4. current_drive \notin refused
  BY <1>1 DEF IInv, Probing
<1> QED  BY <1>1, <1>2, <1>3, <1>4 DEF Found, Bootable, Sector

LEMMA ProbingStep ==
  ASSUME IInv, Next
  PROVE  Probing'
<1> USE DEF Probing, ProbeFindsDisk, driver, history, device
<1>0. TypeInv /\ Handshake /\ Clean /\ Waiting /\ Probing
  BY DEF IInv
<1>1. CASE Issue \/ ata_delay400ns \/ ata_wait_drq \/ Requested
  <2>1. UNCHANGED <<current_drive, call, buf, probe, gaveUp, refused, present, disk>>
    BY <1>1, Zenon DEF Issue, ata_delay400ns, ata_wait_drq, Requested
  <2>2. pc # "idle" /\ pc' # "idle"
    BY <1>1 DEF Issue, ata_delay400ns, ata_wait_drq, Requested
  <2> QED  BY <1>0, <2>1, <2>2 DEF Found, Bootable
<1>2. CASE Fail
  <2>1. /\ pc = "poll"
        /\ gaveUp' = (gaveUp \/ Status = "bsy")
        /\ refused' = IF probe # "ready" /\ Status = "err"
                      THEN refused \cup {current_drive} ELSE refused
        /\ pc' = "idle"
        /\ UNCHANGED <<probe, current_drive, call, present, disk>>
    BY <1>2 DEF Fail, Finish
  <2>2. probe \in {"slave", "master"} /\ ~gaveUp'
          => ~Found' /\ ~Bootable(current_drive)'
    BY <1>2, FailTells
  <2>3. probe = "ready" => Bootable(1)' = Bootable(1)
    BY <2>1 DEF Bootable
  <2>4. ~Bootable(1) => ~Bootable(1)'
    BY <2>1 DEF Bootable
  <2>5. ~gaveUp' => ~gaveUp
    BY <2>1
  <2> QED  BY <1>0, <2>1, <2>2, <2>3, <2>4, <2>5
<1>3. CASE ReadWord
  <2>1. /\ pc = "transfer" /\ call.op = "read"
        /\ UNCHANGED <<current_drive, call, probe, gaveUp, refused, stale, present, disk>>
    BY <1>3, ReadWordDoes
  <2>2. Bootable(1)' = Bootable(1)
    BY <2>1 DEF Bootable
  <2>3. CASE word # Words
    <3>1. pc' = pc
      BY <1>3, <2>3, ReadWordDoes
    <3> QED  BY <1>0, <2>1, <2>2, <3>1
  <2>4. CASE word = Words
    <3>1. probe \in {"slave", "master"} /\ ~gaveUp
            => (Found' <=> Bootable(current_drive)')
      BY <1>3, <2>4, ReadTells
    <3>2. pc' = "idle"
      BY <1>3, <2>4, ReadWordDoes
    <3> QED  BY <1>0, <2>1, <2>2, <3>1, <3>2
  <2> QED  BY <2>3, <2>4
<1>4. CASE WriteWord
  <2>1. /\ pc = "transfer" /\ pc' # "idle"
        /\ UNCHANGED <<current_drive, call, buf, probe, gaveUp, refused, present, disk>>
    BY <1>4, WriteWordDoes DEF history
  <2> QED  BY <1>0, <2>1 DEF Bootable
<1>5. CASE Committed
  <2>1. pc = "commit" /\ probe = "ready"
    BY <1>0, <1>5 DEF Committed, Handshake
  <2>2. UNCHANGED <<current_drive, call, probe, gaveUp, refused, present, disk>>
    BY <1>5, Zenon DEF Committed
  <2> QED  BY <1>0, <2>1, <2>2 DEF Bootable
<1>6. CASE ProbeSlave
  <2>1. /\ probe = "start" /\ current_drive' = 1 /\ probe' = "slave" /\ pc' = "bsy"
        /\ call'.op = "read" /\ call'.lba = 0 /\ refused' = refused
    BY <1>6 DEF ProbeSlave, Begin
  <2> QED  BY <1>0, <2>1
<1>7. CASE ProbeMaster
  <2>1. /\ pc = "idle" /\ probe = "slave" /\ ~Found
        /\ current_drive' = 0 /\ probe' = "master" /\ pc' = "bsy"
        /\ call'.op = "read" /\ call'.lba = 0
        /\ UNCHANGED <<refused, gaveUp, present, disk>>
    BY <1>7 DEF ProbeMaster, Begin
  <2>2. ~gaveUp => ~Bootable(1)
    BY <1>0, <2>1
  <2> QED  BY <1>0, <2>1, <2>2 DEF Bootable
<1>8. CASE Probed
  <2>1. /\ pc = "idle"
        /\ probe = "master" \/ (probe = "slave" /\ Found)
        /\ probe' = "ready"
        /\ UNCHANGED <<current_drive, pc, call, refused, gaveUp, present, disk>>
    BY <1>8 DEF Probed
  <2>2. UNCHANGED <<Bootable(1), Bootable(0)>>
    BY <2>1 DEF Bootable
  <2>3. ~gaveUp => (current_drive = 1 <=> Bootable(1))
    <3>1. CASE probe = "master"
      BY <1>0, <3>1
    <3>2. CASE probe = "slave" /\ Found
      <4>1. current_drive = 1
        BY <1>0, <3>2
      <4>2. ~gaveUp => Bootable(current_drive)
        BY <1>0, <2>1, <3>2
      <4> QED  BY <4>1, <4>2
    <3> QED  BY <2>1, <3>1, <3>2
  <2> QED  BY <1>0, <2>1, <2>2, <2>3 DEF Bootable
<1>9. CASE Request
  <2>1. /\ probe = "ready" /\ probe' = probe
        /\ UNCHANGED <<current_drive, refused, gaveUp, present, disk>>
        /\ call'.op = "write" => call'.lba # 0
    BY <1>9 DEF Request, Begin
  <2> QED  BY <1>0, <2>1 DEF Bootable
<1>10. CASE Accept \/ OpenRequest \/ Refuse
  <2>1. UNCHANGED <<current_drive, pc, call, buf, probe, gaveUp, refused, present, disk>>
    BY <1>10, Zenon DEF Accept, OpenRequest, Refuse
  <2> QED  BY <1>0, <2>1 DEF Found, Bootable
<1>11. CASE Commit
  <2>1. /\ pc = "commit" /\ call.op = "write" /\ regs.drive \in present /\ ~asked
    BY <1>11, CommitIsOurs
  <2>2. /\ UNCHANGED <<pc, probe, call, current_drive, gaveUp, refused, present>>
        /\ disk' = [disk EXCEPT ![job.drive][job.lba] = fifo]
    BY <1>11 DEF Commit
  <2>3. probe = "ready" /\ call.lba # 0
    BY <1>0, <2>1
  <2>4. ASSUME ~gaveUp PROVE job.lba # 0
    BY <1>0, <2>1, <2>3, <2>4
       DEF Waiting, UncleanOnlyAfterTimeout, Clean, Served, Ours
  <2>5. ASSUME ~gaveUp PROVE disk'[1][0] = disk[1][0]
    <3>1. job.drive \in Drives /\ job.lba \in Sectors /\ disk \in [Drives -> [Sectors -> Data]]
      BY <1>0 DEF TypeInv
    <3>2. 0 \in Sectors /\ 1 \in Drives
      BY SectorsAssumption DEF Drives
    <3> QED  BY <2>2, <2>4, <2>5, <3>1, <3>2
  <2> QED  BY <1>0, <2>1, <2>2, <2>3, <2>5 DEF Bootable
<1> QED
  BY <1>1, <1>2, <1>3, <1>4, <1>5, <1>6, <1>7, <1>8, <1>9, <1>10, <1>11
     DEF Next, Driver, Device

(* The strengthened invariant of the driver and the drives.                 *)
THEOREM Invariance == Spec => []IInv
<1>1. Init => IInv
  BY InitInv
<1>2. IInv /\ [Next]_vars => IInv'
  <2>1. CASE Next
    BY <2>1, TypeStep, HandshakeStep, BufferedStep, CleanStep, WaitingStep,
       StartedStep, ProbingStep
       DEF IInv
  <2>2. CASE UNCHANGED vars
    BY <2>2
       DEF vars, driver, history, device, IInv, TypeInv, TypeOK, Handshake, Buffered,
           Beginning, Clean, Served, Ours, Moved, Rest, Sector, Waiting,
           UncleanOnlyAfterTimeout, Started, Probing, Bootable, Found, ProbeFindsDisk
  <2> QED  BY <2>1, <2>2
<1> QED  BY <1>1, <1>2, PTL DEF Spec

(* Registers, buffers and counters of driver and drives stay in their sets. *)
THEOREM TypeCorrect == Spec => []TypeOK
<1>1. IInv => TypeOK
  BY DEF IInv, TypeInv
<1> QED  BY <1>1, Invariance, PTL

(* A call finds a request open only after a time-out.                       *)
THEOREM UncleanExplained == Spec => []UncleanOnlyAfterTimeout
<1>1. IInv => UncleanOnlyAfterTimeout
  BY DEF IInv, Waiting
<1> QED  BY <1>1, Invariance, PTL

(* ata_init tells drives with a boot sector from the others, and the file   *)
(* system gets the slave exactly if it has one (ata.c:123-144).             *)
THEOREM ProbeIsRight == Spec => []ProbeFindsDisk
<1>1. IInv => ProbeFindsDisk
  BY DEF IInv, Probing
<1> QED  BY <1>1, Invariance, PTL
-----------------------------------------------------------------------------
(* The driver keeps the promise of SectorStore.                             *)

LEMMA ServingTyped ==
  ASSUME TypeInv
  PROVE  Serving \in Store!Calls /\ Serving # Idle
<1>1. /\ call.op \in {"read", "write"} /\ current_drive \in Drives
      /\ call.lba \in Sectors /\ call.data \in Data
      /\ (pc = "bsy" \/ ~stale) \in BOOLEAN
  BY DEF TypeInv, TypeOK
<1>2. Serving \in [op : {"read", "write"}, drive : Drives, lba : Sectors,
                   data : Data, clean : BOOLEAN]
  BY <1>1 DEF Serving
<1> QED  BY <1>2, IdleAssumption DEF Store!Calls

LEMMA ServingTypedNext ==
  ASSUME TypeInv'
  PROVE  Serving' \in Store!Calls /\ Serving' # Idle
<1>1. /\ call'.op \in {"read", "write"} /\ current_drive' \in Drives
      /\ call'.lba \in Sectors /\ call'.data \in Data
      /\ (pc' = "bsy" \/ ~stale') \in BOOLEAN
  BY DEF TypeInv, TypeOK
<1>2. Serving' \in [op : {"read", "write"}, drive : Drives, lba : Sectors,
                    data : Data, clean : BOOLEAN]
  BY <1>1 DEF Serving
<1> QED  BY <1>2, IdleAssumption DEF Store!Calls

LEMMA Uncleaned ==
  ASSUME NEW r \in Store!Calls, NEW s \in Store!Calls, s.clean = FALSE,
         s.op = r.op, s.drive = r.drive, s.lba = r.lba, s.data = r.data
  PROVE  s = [r EXCEPT !.clean = FALSE]
BY DEF Store!Calls

LEMMA StoreStep ==
  ASSUME IInv, IInv', Next
  PROVE  [Store!Next]_(Store!vars)
<1> USE DEF driver, history, device
<1>0. TypeInv /\ Handshake /\ Clean
  BY DEF IInv
<1>1. Serving \in Store!Calls /\ Serving # Idle
  BY <1>0, ServingTyped
<1>2. Serving' \in Store!Calls /\ Serving' # Idle
  BY ServingTypedNext DEF IInv
<1>3. CASE Issue
  <2>1. /\ pc = "bsy" /\ pc' = "delay"
        /\ UNCHANGED <<call, current_drive, disk, answer>>
    BY <1>3 DEF Issue
  <2>2. Pending = Serving /\ Pending' = Serving'
    BY <2>1 DEF Pending
  <2>3. CASE stale'
    <3>1. Serving' = [Serving EXCEPT !.clean = FALSE]
      <4>1. /\ Serving'.op = Serving.op /\ Serving'.drive = Serving.drive
            /\ Serving'.lba = Serving.lba /\ Serving'.data = Serving.data
        BY <2>1 DEF Serving
      <4>2. Serving'.clean = FALSE
        BY <2>1, <2>3 DEF Serving
      <4> QED  BY <1>1, <1>2, <4>1, <4>2, Uncleaned
    <3> QED  BY <1>1, <2>1, <2>2, <3>1 DEF Store!Next, Store!FindUnclean
  <2>4. CASE ~stale'
    <3>1. Serving' = Serving
      BY <2>1, <2>4 DEF Serving
    <3> QED  BY <2>1, <2>2, <3>1 DEF Store!vars
  <2> QED  BY <2>3, <2>4
<1>4. CASE ata_delay400ns \/ ata_wait_drq \/ Requested
  <2>1. /\ pc \in {"delay", "poll"} /\ pc' \in {"poll", "transfer"}
        /\ UNCHANGED <<call, current_drive, stale, disk, answer>>
    BY <1>4 DEF ata_delay400ns, ata_wait_drq, Requested
  <2> QED  BY <2>1 DEF Pending, Serving, Store!vars
<1>5. CASE Fail
  <2>1. pc = "poll" /\ pc' = "idle" /\ disk' = disk
        /\ answer' = (IF call.op = "read" THEN Zeros ELSE answer)
    BY <1>5 DEF Fail, Finish, Cleared
  <2>2. Pending = Serving /\ Pending' = Idle /\ Serving.op = call.op
    BY <2>1 DEF Pending, Serving
  <2>3. Store!Return
    BY <1>0, <1>1, <2>1, <2>2, ZerosIsData DEF Store!Return, TypeInv, TypeOK
  <2> QED  BY <2>3 DEF Store!Next
<1>6. CASE ReadWord
  <2>1. /\ pc = "transfer" /\ call.op = "read"
        /\ UNCHANGED <<current_drive, call, stale, disk>>
    BY <1>6, ReadWordDoes
  <2>2. CASE word # Words
    <3>1. pc' = pc /\ answer' = answer
      BY <1>6, <2>2, ReadWordDoes
    <3> QED  BY <2>1, <3>1 DEF Pending, Serving, Store!vars
  <2>3. CASE word = Words
    <3>1. pc' = "idle" /\ answer' = buf'
      BY <1>6, <2>3, ReadWordDoes
    <3>2. answer' \in Data
      BY DEF IInv, TypeInv, TypeOK
    <3>3. ASSUME ~stale PROVE answer' = Sector
      BY <1>6, <2>3, <3>1, <3>3, LastWordRead
    <3>4. Pending = Serving /\ Pending' = Idle
      BY <2>1, <3>1 DEF Pending
    <3>5. /\ Serving.op = "read" /\ Serving.clean = ~stale
          /\ disk[Serving.drive][Serving.lba] = Sector
      BY <1>0, <2>1 DEF Serving, Sector, TypeInv
    <3>6. Store!Return
      BY <1>1, <2>1, <3>2, <3>3, <3>4, <3>5 DEF Store!Return
    <3> QED  BY <3>6 DEF Store!Next
  <2> QED  BY <2>2, <2>3
<1>7. CASE WriteWord
  <2>1. /\ pc = "transfer" /\ pc' \in {"transfer", "commit"}
        /\ UNCHANGED <<current_drive, call, stale, disk, answer>>
    BY <1>7, WriteWordDoes DEF history
  <2> QED  BY <2>1 DEF Pending, Serving, Store!vars
<1>8. CASE Committed
  <2>1. pc = "commit" /\ pc' = "idle" /\ disk' = disk /\ call.op = "write" /\ answer' = answer
    BY <1>0, <1>8 DEF Committed, Finish, Handshake
  <2>2. Pending = Serving /\ Pending' = Idle /\ Serving.op = "write"
    BY <2>1 DEF Pending, Serving
  <2> QED  BY <1>1, <2>1, <2>2 DEF Store!Next, Store!Return
<1>9. CASE ProbeSlave \/ ProbeMaster \/ Request
  <2>1. pc = "idle" /\ pc' = "bsy" /\ disk' = disk /\ answer' = answer
    BY <1>9 DEF ProbeSlave, ProbeMaster, Request, Begin
  <2>2. Pending = Idle /\ Pending' = Serving' /\ Serving'.clean = TRUE
    BY <2>1 DEF Pending, Serving
  <2> QED  BY <1>2, <2>1, <2>2 DEF Store!Next, Store!Call
<1>10. CASE Probed
  <2>1. pc = "idle" /\ pc' = pc /\ disk' = disk /\ answer' = answer
    BY <1>10 DEF Probed
  <2> QED  BY <2>1 DEF Pending, Store!vars
<1>11. CASE Accept \/ OpenRequest \/ Refuse
  <2>1. UNCHANGED <<pc, call, current_drive, stale, disk, answer>>
    BY <1>11, Zenon DEF Accept, OpenRequest, Refuse
  <2> QED  BY <2>1 DEF Pending, Serving, Store!vars
<1>12. CASE Commit
  <2>1. pc = "commit" /\ call.op = "write" /\ fifo = call.data
        /\ regs.drive \in present /\ ~asked
    BY <1>12, CommitIsOurs
  <2>2. /\ disk' = [disk EXCEPT ![job.drive][job.lba] = fifo]
        /\ UNCHANGED <<pc, call, current_drive, stale, answer>>
    BY <1>12 DEF Commit
  <2>3. job.drive \in Drives /\ job.lba \in Sectors
    BY <1>0 DEF TypeInv
  <2>4. ASSUME ~stale PROVE job.drive = current_drive /\ job.lba = call.lba
    BY <1>0, <2>1, <2>4 DEF Clean, Served, Ours
  <2>5. /\ Pending = Serving /\ Pending' = Pending
        /\ Serving.op = "write" /\ Serving.data = fifo /\ Serving.clean = ~stale
        /\ Serving.drive = current_drive /\ Serving.lba = call.lba
    BY <1>0, <2>1, <2>2 DEF Pending, Serving, TypeInv
  <2>6. Store!TakeEffect
    <3>1. /\ Pending.clean => job.drive = Pending.drive /\ job.lba = Pending.lba
          /\ disk' = [disk EXCEPT ![job.drive][job.lba] = Pending.data]
      BY <2>2, <2>4, <2>5
    <3>2. Pending # Idle /\ Pending.op = "write" /\ Pending' = Pending /\ answer' = answer
      BY <1>1, <2>2, <2>5
    <3> QED  BY <2>3, <3>1, <3>2 DEF Store!TakeEffect
  <2> QED  BY <2>6 DEF Store!Next
<1> QED
  BY <1>3, <1>4, <1>5, <1>6, <1>7, <1>8, <1>9, <1>10, <1>11, <1>12
     DEF Next, Driver, Device

(* For every size of sector, register and disk, whatever drives there are   *)
(* and however late or badly they answer: a clean read gives the sector or  *)
(* zeros, a clean write goes to its sector or nowhere.                      *)
THEOREM DriverIsStore == Spec => ImplementsStore
<1>1. Init => Store!Init
  <2>1. Init => Pending = Idle /\ answer = Zeros
    BY DEF Init, Pending
  <2>2. Init => disk \in [Drives -> [Sectors -> Data]]
    BY DataAssumption DEF Init
  <2> QED  BY <2>1, <2>2 DEF Store!Init
<1>2. IInv /\ IInv' /\ [Next]_vars => [Store!Next]_(Store!vars)
  <2>1. UNCHANGED vars => UNCHANGED Store!vars
    BY DEF vars, driver, history, device, Store!vars, Pending, Serving
  <2> QED  BY <2>1, StoreStep
<1> QED  BY <1>1, <1>2, Invariance, PTL DEF Spec, ImplementsStore, Store!Spec
=============================================================================
