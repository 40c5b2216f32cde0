--------------------------- MODULE KeyboardProofs ---------------------------
(* Theorems about Keyboard, for every ring size and every bound on typing:  *)
(* types, the modifier flags, that the unlocked ring is a queue, and that   *)
(* its reader never goes back.                                              *)
EXTENDS Keyboard, SequenceTheorems, TLAPS

Reader == GetcharCheck \/ GetcharFetch \/ FlushLoad \/ FlushStore
ProcessStep == process_run \/ process_exit \/ process_check_kill

(* Every step that leaves the ring and the reader alone, by what it does.   *)
LEMMA QuietSteps ==
  ASSUME \/ \E k \in Modifiers : PressModifier(k) \/ ReleaseModifier(k)
         \/ PressCapsLock
         \/ PressCtrlC
         \/ process_run \/ process_exit
  PROVE  UNCHANGED <<ring, typed, reader>>
  BY DEF PressModifier, ReleaseModifier, PressCapsLock, PressCtrlC,
         process_run, process_exit, ring, reader

(* The type invariant: in particular the indices stay inside key_buffer     *)
(* although neither keyboard_handler nor keyboard_getchar tests a bound.    *)
THEOREM TypeCorrect == Spec => []TypeOK
<1>1. Init => TypeOK
  <2>1. Zero \in Char
    BY MaxTypedAssumption DEF Zero, Char
  <2>2. 0 \in Index /\ 0 \in 0 .. MaxTyped
    BY BufSizeAssumption, MaxTypedAssumption DEF Index
  <2> QED BY <2>1, <2>2 DEF Init, TypeOK
<1>2. TypeOK /\ [Next]_vars => TypeOK'
  <2> SUFFICES ASSUME TypeOK, [Next]_vars PROVE TypeOK'
    OBVIOUS
  <2> USE BufSizeAssumption, MaxTypedAssumption DEF TypeOK
  <2>1. ASSUME NEW k \in Modifiers, PressModifier(k) PROVE TypeOK'
    BY <2>1 DEF PressModifier, ring, reader, process
  <2>2. ASSUME NEW k \in Modifiers, ReleaseModifier(k) PROVE TypeOK'
    BY <2>2 DEF ReleaseModifier, ring, reader, process
  <2>3. CASE PressCapsLock
    BY <2>3 DEF PressCapsLock, ring, reader, process
  <2>4. CASE PressCtrlC
    BY <2>4 DEF PressCtrlC, ring, reader, modifiers
  <2>5. ASSUME NEW k \in Keys, PressKey(k) PROVE TypeOK'
    <3>1. Upper(k) \in BOOLEAN
      BY DEF Upper
    <3>2. [press |-> typed + 1, upper |-> Upper(k)] \in Char
      BY <2>5, <3>1 DEF PressKey, Char
    <3> QED BY <2>5, <3>2
            DEF PressKey, StoreKey, Inc, Index, reader, process, modifiers
  <2>6. CASE GetcharCheck
    BY <2>6 DEF GetcharCheck, ring, modifiers, process
  <2>7. CASE GetcharFetch
    BY <2>7 DEF GetcharFetch, Inc, Index, modifiers, process
  <2>8. CASE FlushLoad
    BY <2>8 DEF FlushLoad, ring, modifiers, process
  <2>9. CASE FlushStore
    BY <2>9 DEF FlushStore, Index, modifiers, process
  <2>10. CASE process_run \/ process_exit \/ process_check_kill
    BY <2>10 DEF process_run, process_exit, process_check_kill, ring, reader,
                 modifiers
  <2>11. CASE UNCHANGED vars
    BY <2>11 DEF vars, ring, reader, process, modifiers
  <2> QED BY <2>1, <2>2, <2>3, <2>4, <2>5, <2>6, <2>7, <2>8, <2>9, <2>10,
             <2>11 DEF Next, keyboard_handler
<1> QED BY <1>1, <1>2, PTL DEF Spec

(* No modifier flag of keyboard_handler survives the release of its keys.   *)
THEOREM ModifiersReleased == Spec => []NoStickyModifier
<1>1. Init => NoStickyModifier
  BY DEF Init, NoStickyModifier
<1>2. TypeOK /\ NoStickyModifier /\ [Next]_vars => NoStickyModifier'
  <2> SUFFICES ASSUME TypeOK, NoStickyModifier, [Next]_vars
               PROVE  NoStickyModifier'
    OBVIOUS
  <2>1. ASSUME NEW k \in Modifiers, PressModifier(k) PROVE NoStickyModifier'
    BY <2>1 DEF PressModifier, NoStickyModifier, TypeOK
  <2>2. ASSUME NEW k \in Modifiers, ReleaseModifier(k) PROVE NoStickyModifier'
    BY <2>2 DEF ReleaseModifier, NoStickyModifier, TypeOK, ShiftKeys,
                CtrlKeys, Modifiers
  <2>3. CASE PressCapsLock
    BY <2>3 DEF PressCapsLock, NoStickyModifier
  <2>4. CASE UNCHANGED modifiers
    BY <2>4 DEF modifiers, NoStickyModifier
  <2>5. ASSUME NEW k \in Keys, PressKey(k) PROVE UNCHANGED modifiers
    BY <2>5 DEF PressKey
  <2>6. Reader \/ PressCtrlC \/ ProcessStep => UNCHANGED modifiers
    BY DEF Reader, GetcharCheck, GetcharFetch, FlushLoad, FlushStore,
           PressCtrlC, ProcessStep, process_run, process_exit,
           process_check_kill
  <2> QED BY <2>1, <2>2, <2>3, <2>4, <2>5, <2>6
          DEF Next, keyboard_handler, vars, Reader, ProcessStep
<1> QED BY <1>1, <1>2, TypeCorrect, PTL DEF Spec

(* A kill is requested only with a control key down and a process running.  *)
THEOREM KillGuarded == Spec => KillNeedsCtrlAndProcess
<1>1. TypeOK /\ NoStickyModifier /\ [Next]_vars
        => [kill_pending' /\ ~kill_pending
              => running /\ held \cap CtrlKeys # {}]_vars
  <2> SUFFICES ASSUME TypeOK, NoStickyModifier, [Next]_vars,
                      kill_pending', ~kill_pending
               PROVE  running /\ held \cap CtrlKeys # {}
    OBVIOUS
  <2>1. CASE PressCtrlC
    BY <2>1 DEF PressCtrlC, NoStickyModifier, TypeOK
  <2>2. ASSUME NEW k \in Modifiers, PressModifier(k) \/ ReleaseModifier(k)
        PROVE  FALSE
    BY <2>2 DEF PressModifier, ReleaseModifier, process
  <2>3. ASSUME NEW k \in Keys, PressKey(k) PROVE FALSE
    BY <2>3 DEF PressKey, process
  <2>4. ~(PressCapsLock \/ Reader \/ ProcessStep \/ UNCHANGED vars)
    BY DEF PressCapsLock, Reader, GetcharCheck, GetcharFetch, FlushLoad,
           FlushStore, ProcessStep, process_run, process_exit,
           process_check_kill, vars, process
  <2> QED BY <2>1, <2>2, <2>3, <2>4
          DEF Next, keyboard_handler, Reader, ProcessStep
<1> QED BY <1>1, TypeCorrect, ModifiersReleased, PTL
        DEF Spec, KillNeedsCtrlAndProcess

-----------------------------------------------------------------------------
(* The ring as a queue.  A logical slot is found from First, and the slots  *)
(* of the unread characters are distinct and none of them is buf_tail.      *)

(* The indices of the ring as arithmetic: its slots are distinct, and full  *)
(* means that one more increment makes it look empty.                       *)
LEMMA RingShape ==
  ASSUME TypeOK
  PROVE  /\ First \in Index
         /\ Unread \in 0 .. BufSize - 1
         /\ \A i \in 1 .. Unread : Slot(i) \in Index /\ Slot(i) # buf_tail
         /\ Slot(Unread + 1) = buf_tail
         /\ buf_tail = First <=> Unread = 0
         /\ Unread = BufSize - 1 <=> Inc(buf_tail) = First
         /\ Inc(buf_tail) \in Index
  <1>1. First \in Index
    BY BufSizeAssumption DEF TypeOK, First, Inc, Index
  <1> QED BY <1>1, BufSizeAssumption DEF TypeOK, Unread, Slot, Inc, Index

(* The ring stands for a sequence of characters.                            *)
LEMMA ContentsType ==
  ASSUME TypeOK
  PROVE  /\ Contents \in Seq(Char)
         /\ Len(Contents) = Unread
         /\ DOMAIN Contents = 1 .. Unread
  <1>1. Unread \in Nat /\ \A i \in 1 .. Unread : Slot(i) \in Index
    BY RingShape, BufSizeAssumption
  <1>2. \A i \in 1 .. Unread : key_buffer[Slot(i)] \in Char
    BY <1>1 DEF TypeOK
  <1>3. Contents \in [1 .. Unread -> Char]
    BY <1>2 DEF Contents
  <1> QED BY <1>1, <1>3

(* A step that changes neither the ring nor the reader is no queue step.    *)
LEMMA QuietStutters ==
  ASSUME UNCHANGED <<ring, reader>>
  PROVE  UNCHANGED Queue!vars
  BY DEF ring, reader, Queue!vars, Contents, Taken, Unread, First, Slot

(* A character stored in a ring with room arrives in the queue.             *)
LEMMA StoreArrives ==
  ASSUME TypeOK, NEW c \in Char, StoreKey(c), UNCHANGED <<buf_head, reader>>,
         Unread # BufSize - 1
  PROVE  Queue!Arrive(c)
<1>1. First' = First /\ \A i \in Nat : Slot(i)' = Slot(i)
  BY DEF First, Slot, reader
<1>2. buf_tail' = Inc(buf_tail) /\ key_buffer' = [key_buffer EXCEPT ![buf_tail] = c]
  BY DEF StoreKey
<1>3. Unread' = Unread + 1
  <2>1. First \in Index /\ buf_tail \in Index /\ Inc(buf_tail) # First
    BY RingShape DEF TypeOK
  <2>2. CASE buf_tail = BufSize - 1
    BY <1>1, <1>2, <2>1, <2>2, BufSizeAssumption DEF Unread, Inc, Index
  <2>3. CASE buf_tail # BufSize - 1
    BY <1>1, <1>2, <2>1, <2>3, BufSizeAssumption DEF Unread, Inc, Index
  <2> QED BY <2>2, <2>3
<1>4. Contents' = Append(Contents, c)
  <2>1. Contents' = [i \in 1 .. Unread + 1 |-> key_buffer'[Slot(i)]]
    BY <1>1, <1>3, RingShape DEF Contents
  <2>2. \A i \in 1 .. Unread : key_buffer'[Slot(i)] = Contents[i]
    BY <1>2, RingShape DEF Contents, TypeOK
  <2>3. key_buffer'[Slot(Unread + 1)] = c
    BY <1>2, RingShape DEF TypeOK
  <2>4. /\ Append(Contents, c) \in Seq(Char)
        /\ Len(Append(Contents, c)) = Unread + 1
        /\ \A i \in 1 .. Unread : Append(Contents, c)[i] = Contents[i]
        /\ Append(Contents, c)[Unread + 1] = c
    BY ContentsType, AppendProperties
  <2>5. Unread \in Nat
    BY RingShape
  <2>6. \A i \in 1 .. Unread + 1 : i \in 1 .. Unread \/ i = Unread + 1
    BY <2>5
  <2>7. \A i \in 1 .. Unread + 1 :
           /\ key_buffer'[Slot(i)] \in Char
           /\ Append(Contents, c)[i] = key_buffer'[Slot(i)]
    BY <2>2, <2>3, <2>4, <2>6, ContentsType, ElementOfSeq
  <2>8. [i \in 1 .. Unread + 1 |-> key_buffer'[Slot(i)]] \in Seq(Char)
    BY <2>5, <2>7
  <2>9. Contents' \in Seq(Char) /\ Len(Contents') = Unread + 1
    BY <2>1, <2>5, <2>8
  <2>10. \A i \in 1 .. Unread + 1 : Contents'[i] = Append(Contents, c)[i]
    BY <2>1, <2>7
  <2> QED BY <2>4, <2>9, <2>10, SeqEqual
<1>5. Taken' = Taken
  <2>1. pc = "fetch" => buf_head # buf_tail
    BY RingShape, BufSizeAssumption DEF First, TypeOK
  <2> QED BY <2>1, <1>2 DEF Taken, reader, TypeOK
<1> QED BY <1>4, <1>5, ContentsType, RingShape DEF Queue!Arrive, Queue!Full

(* A character stored in a full ring empties the queue.                     *)
LEMMA StoreOverflows ==
  ASSUME TypeOK, NEW c \in Char, StoreKey(c), UNCHANGED <<buf_head, reader>>,
         Unread = BufSize - 1
  PROVE  Queue!Overflow(c)
<1>1. First' = First /\ buf_tail' = First
  BY RingShape DEF First, reader, StoreKey
<1>2. Unread' = 0
  BY <1>1, RingShape, BufSizeAssumption DEF Unread, Index
<1>3. Contents' = <<>>
  BY <1>2 DEF Contents
<1>4. CASE pc = "fetch"
  <2>1. buf_head = buf_tail
    BY <1>4, RingShape, BufSizeAssumption DEF First, Inc, Index, TypeOK
  <2>2. Taken = {key_buffer[buf_head]} /\ Taken' = {c}
    BY <1>4, <2>1 DEF Taken, reader, StoreKey, TypeOK
  <2> QED BY <1>3, <2>2, ContentsType DEF Queue!Overflow, Queue!Full
<1>5. CASE pc # "fetch"
  <2>1. Taken = {} /\ Taken' = {}
    BY <1>5 DEF Taken, reader
  <2> QED BY <1>3, <2>1, ContentsType DEF Queue!Overflow, Queue!Full
<1> QED BY <1>4, <1>5

(* The test of keyboard_getchar takes the head: First moves one slot on.    *)
LEMMA CheckTakes ==
  ASSUME TypeOK, GetcharCheck
  PROVE  Queue!Take
<1>1. /\ pc = "idle" /\ First = buf_head /\ First' = Inc(buf_head)
      /\ UNCHANGED <<key_buffer, buf_head, buf_tail>>
  BY DEF GetcharCheck, First, ring
<1>2. First \in Index /\ buf_tail \in Index /\ First # buf_tail
  BY <1>1, RingShape DEF GetcharCheck, TypeOK
<1>3. Unread \in Nat /\ Unread > 0 /\ Unread' = Unread - 1
  BY <1>1, <1>2, BufSizeAssumption DEF Unread, Inc, Index
<1>4. \A i \in 1 .. Unread - 1 : Slot(i)' = Slot(i + 1)
  <2>1. Unread \in 0 .. BufSize - 1
    BY RingShape
  <2>2. CASE First = BufSize - 1
    BY <1>1, <1>2, <1>3, <2>1, <2>2, BufSizeAssumption DEF Slot, Inc, Index
  <2>3. CASE First # BufSize - 1
    BY <1>1, <1>2, <1>3, <2>1, <2>3, BufSizeAssumption DEF Slot, Inc, Index
  <2> QED BY <2>2, <2>3
<1>5. Contents # <<>> /\ Contents \in Seq(Char) /\ Len(Contents) = Unread
  BY <1>3, ContentsType
<1>6. Contents' = Tail(Contents)
  <2>1. Contents' = [i \in 1 .. Unread - 1 |-> key_buffer[Slot(i + 1)]]
    BY <1>1, <1>3, <1>4 DEF Contents
  <2>2. /\ Tail(Contents) \in Seq(Char)
        /\ Len(Tail(Contents)) = Unread - 1
        /\ \A i \in 1 .. Unread - 1 : Tail(Contents)[i] = Contents[i + 1]
    BY <1>5, HeadTailProperties
  <2>3. \A i \in 1 .. Unread - 1 :
           Contents[i + 1] = key_buffer[Slot(i + 1)]
    BY <1>3 DEF Contents
  <2>4. \A i \in 1 .. Unread - 1 : Tail(Contents)[i] \in Char
    BY <2>2, ElementOfSeq
  <2>5. \A i \in 1 .. Unread - 1 : Contents'[i] = Tail(Contents)[i]
    BY <2>1, <2>2, <2>3
  <2>6. Contents' \in Seq(Char) /\ Len(Contents') = Unread - 1
    <3>1. \A i \in 1 .. Unread - 1 : key_buffer[Slot(i + 1)] \in Char
      BY <2>2, <2>3, <2>4
    <3> QED BY <1>3, <2>1, <3>1
  <2> QED BY <2>2, <2>5, <2>6, SeqEqual
<1>7. Head(Contents) = key_buffer[buf_head]
  <2>1. Slot(1) = First
    BY <1>2, BufSizeAssumption DEF Slot, Index
  <2> QED BY <1>1, <1>3, <1>5, <2>1 DEF Contents
<1>8. Taken = {} /\ Taken' = {Head(Contents)}
  BY <1>1, <1>7 DEF Taken, GetcharCheck
<1> QED BY <1>5, <1>6, <1>8 DEF Queue!Take

(* The second half of keyboard_getchar delivers what the first has taken.   *)
LEMMA FetchDelivers ==
  ASSUME TypeOK, GetcharFetch
  PROVE  Queue!Deliver
<1>1. First' = First /\ UNCHANGED <<key_buffer, buf_tail>>
  BY DEF GetcharFetch, First
<1>2. Contents' = Contents
  BY <1>1 DEF Contents, Unread, Slot
<1>3. Taken # {} /\ Taken' = {}
  BY DEF GetcharFetch, Taken
<1> QED BY <1>2, <1>3 DEF Queue!Deliver

(* keyboard_flush takes effect when it loads buf_tail,                      *)
LEMMA FlushLoadEmpties ==
  ASSUME TypeOK, FlushLoad
  PROVE  Queue!Flush
<1>1. First' = buf_tail /\ buf_tail' = buf_tail
  BY DEF FlushLoad, First, ring
<1>2. Contents' = <<>>
  BY <1>1, BufSizeAssumption DEF Contents, Unread, Index, TypeOK
<1>3. Taken = {} /\ Taken' = {}
  BY DEF FlushLoad, Taken
<1> QED BY <1>2, <1>3 DEF Queue!Flush

(* and not when it stores it, whatever has arrived in between.              *)
LEMMA FlushStoreStutters ==
  ASSUME TypeOK, FlushStore
  PROVE  UNCHANGED Queue!vars
<1>1. First' = First /\ UNCHANGED <<key_buffer, buf_tail>>
  BY DEF FlushStore, First
<1>2. Contents' = Contents /\ Taken' = Taken
  BY <1>1 DEF Contents, Unread, Slot, Taken, FlushStore
<1> QED BY <1>2 DEF Queue!vars

(* A kill finds the reader before its test,                                 *)
LEMMA KillKeepsIdle ==
  ASSUME TypeOK, process_check_kill, pc # "fetch"
  PROVE  UNCHANGED <<ring, typed, reader>>
  BY DEF TypeOK, process_check_kill, ring, reader

(* or between its test and its fetch: First moves one slot back, and the    *)
(* character it stands at is unread again, unless that slot is buf_tail.    *)
LEMMA KillAbandons ==
  ASSUME TypeOK, process_check_kill, pc = "fetch"
  PROVE  Queue!Abandon
<1> DEFINE c == key_buffer[buf_head]
<1>1. /\ First = Inc(buf_head) /\ First' = buf_head
      /\ UNCHANGED <<key_buffer, buf_head, buf_tail>>
      /\ Taken = {c} /\ Taken' = {}
  BY DEF process_check_kill, First, Taken, ring
<1>2. /\ buf_head \in Index /\ buf_tail \in Index /\ First \in Index
      /\ c \in Char /\ Unread \in 0 .. BufSize - 1
  BY RingShape DEF TypeOK
<1>3. CASE Unread = BufSize - 1
  <2>1. buf_tail = buf_head
    BY <1>1, <1>2, <1>3, RingShape, BufSizeAssumption DEF Inc, Index
  <2>2. Unread' = 0
    BY <1>1, <1>2, <2>1, BufSizeAssumption DEF Unread, Index
  <2>3. Contents' = <<>>
    BY <2>2 DEF Contents
  <2> QED BY <1>1, <1>3, <2>3, ContentsType DEF Queue!Abandon, Queue!Full
<1>4. CASE Unread # BufSize - 1
  <2>1. buf_tail # buf_head
    BY <1>1, <1>2, <1>4, BufSizeAssumption DEF Unread, Inc, Index
  <2>2. Unread' = Unread + 1
    <3>1. CASE buf_head = BufSize - 1
      BY <1>1, <1>2, <2>1, <3>1, BufSizeAssumption DEF Unread, Inc, Index
    <3>2. CASE buf_head # BufSize - 1
      BY <1>1, <1>2, <2>1, <3>2, BufSizeAssumption DEF Unread, Inc, Index
    <3> QED BY <3>1, <3>2
  <2>3. Slot(1)' = buf_head
    BY <1>1, <1>2, BufSizeAssumption DEF Slot, Index
  <2>4. \A i \in 1 .. Unread : Slot(i + 1)' = Slot(i)
    <3>1. CASE buf_head = BufSize - 1
      BY <1>1, <1>2, <3>1, BufSizeAssumption DEF Slot, Inc, Index
    <3>2. CASE buf_head # BufSize - 1
      BY <1>1, <1>2, <3>2, BufSizeAssumption DEF Slot, Inc, Index
    <3> QED BY <3>1, <3>2
  <2> DEFINE q == <<c>> \o Contents
  <2>5. /\ q \in Seq(Char) /\ Len(q) = Unread + 1 /\ q[1] = c
        /\ \A i \in 1 .. Unread : q[i + 1] = Contents[i]
    <3>1. /\ <<c>> \in Seq(Char) /\ Len(<<c>>) = 1 /\ <<c>>[1] = c
          /\ Contents \in Seq(Char) /\ Len(Contents) = Unread
      BY <1>2, ContentsType
    <3> HIDE DEF c
    <3>2. /\ q \in Seq(Char) /\ Len(q) = 1 + Unread
          /\ \A i \in 1 .. 1 + Unread :
               q[i] = IF i <= 1 THEN <<c>>[i] ELSE Contents[i - 1]
      BY <3>1, ConcatProperties
    <3> QED BY <1>2, <3>1, <3>2
  <2>6. Contents' = [i \in 1 .. Unread + 1 |-> key_buffer[Slot(i)']]
    BY <1>1, <2>2 DEF Contents
  <2>7. \A i \in 1 .. Unread + 1 : i = 1 \/ (i - 1 \in 1 .. Unread /\ i = (i - 1) + 1)
    BY <1>2
  <2>8. \A i \in 1 .. Unread : key_buffer[Slot(i + 1)'] = Contents[i]
    BY <2>4 DEF Contents
  <2>9. \A i \in 1 .. Unread + 1 : key_buffer[Slot(i)'] = q[i]
    <3> SUFFICES ASSUME NEW i \in 1 .. Unread + 1
                 PROVE  key_buffer[Slot(i)'] = q[i]
      OBVIOUS
    <3>1. CASE i = 1
      BY <2>3, <2>5, <3>1
    <3>2. CASE i # 1
      <4>1. i - 1 \in 1 .. Unread /\ i = (i - 1) + 1
        BY <2>7, <3>2
      <4> HIDE DEF q
      <4> QED BY <2>5, <2>8, <4>1
    <3> QED BY <3>1, <3>2
  <2>10. Contents' \in Seq(Char) /\ Len(Contents') = Unread + 1
    <3> HIDE DEF q
    <3>1. \A i \in 1 .. Unread + 1 : q[i] \in Char
      BY <2>5, ElementOfSeq
    <3> QED BY <1>2, <2>6, <2>9, <3>1
  <2>11. Contents' = q
    <3>1. \A i \in 1 .. Unread + 1 : Contents'[i] = q[i]
      BY <2>6, <2>9
    <3> HIDE DEF q
    <3> QED BY <2>5, <2>10, <3>1, SeqEqual
  <2> QED BY <1>1, <1>4, <2>11, ContentsType DEF Queue!Abandon, Queue!Full
<1> QED BY <1>3, <1>4

(* The unlocked ring implements the bounded queue, whatever its size: no    *)
(* interleaving of the interrupt handler with keyboard_getchar,             *)
(* keyboard_flush or the kill of a reader loses, repeats or invents a       *)
(* character short of overflow.                                             *)
THEOREM RingIsQueue == Spec => ImplementsQueue
<1>1. Init => Queue!Init
  BY BufSizeAssumption
     DEF Init, Queue!Init, Contents, Unread, First, Taken
<1>2. TypeOK /\ [Next]_vars => [Queue!Next]_(Queue!vars)
  <2> SUFFICES ASSUME TypeOK, [Next]_vars
               PROVE  Queue!Next \/ UNCHANGED Queue!vars
    OBVIOUS
  <2>1. CASE \/ \E k \in Modifiers : PressModifier(k) \/ ReleaseModifier(k)
             \/ PressCapsLock \/ PressCtrlC \/ process_run \/ process_exit
    BY <2>1, QuietSteps, QuietStutters
  <2>2. ASSUME NEW k \in Keys, PressKey(k)
        PROVE  \E c \in Char : Queue!Arrive(c) \/ Queue!Overflow(c)
    <3> DEFINE c == [press |-> typed + 1, upper |-> Upper(k)]
    <3>1. Upper(k) \in BOOLEAN
      BY DEF Upper, TypeOK
    <3>2. c \in Char
      BY <2>2, <3>1, MaxTypedAssumption DEF PressKey, Char, TypeOK
    <3>3. StoreKey(c) /\ UNCHANGED <<buf_head, reader>>
      BY <2>2 DEF PressKey
    <3> HIDE DEF c
    <3> QED BY <3>2, <3>3, StoreArrives, StoreOverflows
  <2>3. CASE GetcharCheck
    BY <2>3, CheckTakes DEF Queue!Next
  <2>4. CASE GetcharFetch
    BY <2>4, FetchDelivers DEF Queue!Next
  <2>5. CASE FlushLoad
    BY <2>5, FlushLoadEmpties DEF Queue!Next
  <2>6. CASE FlushStore
    BY <2>6, FlushStoreStutters
  <2>7. CASE process_check_kill
    <3>1. CASE pc = "fetch"
      BY <2>7, <3>1, KillAbandons DEF Queue!Next
    <3>2. CASE pc # "fetch"
      BY <2>7, <3>2, KillKeepsIdle, QuietStutters
    <3> QED BY <3>1, <3>2
  <2>8. CASE UNCHANGED vars
    BY <2>8, QuietStutters DEF vars
  <2> QED BY <2>1, <2>2, <2>3, <2>4, <2>5, <2>6, <2>7, <2>8
          DEF Next, keyboard_handler, Queue!Next
<1> QED BY <1>1, <1>2, TypeCorrect, PTL DEF Spec, ImplementsQueue, Queue!Spec

-----------------------------------------------------------------------------
(* Presses are numbered; the queue holds them in order, after the one the   *)
(* reader is fetching, which comes after the one it returned last.          *)

Ordered(queue, taken, low, high) ==
  /\ low <= high
  /\ \A i \in 1 .. Len(queue) : low < queue[i].press /\ queue[i].press <= high
  /\ \A i, j \in 1 .. Len(queue) : i < j => queue[i].press < queue[j].press
  /\ \A c \in taken : /\ low < c.press /\ c.press <= high
                      /\ \A i \in 1 .. Len(queue) : c.press < queue[i].press
InOrder == Ordered(Contents, Taken, last.press, typed)

(* What the queue's steps do to such an order.                              *)
LEMMA OrderAppended ==
  ASSUME NEW q \in Seq(Char), NEW T \in SUBSET Char, NEW low \in Nat, NEW high \in Nat,
         Ordered(q, T, low, high), NEW c \in Char, c.press = high + 1
  PROVE  Ordered(Append(q, c), T, low, high + 1)
<1>1. /\ Len(q) \in Nat /\ Len(Append(q, c)) = Len(q) + 1
      /\ \A i \in 1 .. Len(q) : Append(q, c)[i] = q[i]
      /\ Append(q, c)[Len(q) + 1] = c
  BY AppendProperties
<1>2. \A i \in 1 .. Len(q) : q[i].press \in Nat
  <2>1. \A i \in 1 .. Len(q) : q[i] \in Char
    BY ElementOfSeq
  <2> QED BY <2>1, MaxTypedAssumption DEF Char
<1>3. \A t \in T : t.press \in Nat
  BY DEF Char
<1>4. \A i \in 1 .. Len(q) + 1 : i \in 1 .. Len(q) \/ i = Len(q) + 1
  BY <1>1
<1>5. /\ \A i \in 1 .. Len(q) : low < q[i].press /\ q[i].press <= high
      /\ \A i, j \in 1 .. Len(q) : i < j => q[i].press < q[j].press
      /\ \A t \in T : /\ low < t.press /\ t.press <= high
                      /\ \A i \in 1 .. Len(q) : t.press < q[i].press
      /\ low <= high
  BY DEF Ordered
<1>6. \A i \in 1 .. Len(q) + 1 : /\ low < Append(q, c)[i].press
                                 /\ Append(q, c)[i].press <= high + 1
  BY <1>1, <1>2, <1>4, <1>5
<1>7. \A i, j \in 1 .. Len(q) + 1 :
        i < j => Append(q, c)[i].press < Append(q, c)[j].press
  <2> SUFFICES ASSUME NEW i \in 1 .. Len(q) + 1, NEW j \in 1 .. Len(q) + 1, i < j
               PROVE  Append(q, c)[i].press < Append(q, c)[j].press
    OBVIOUS
  <2>1. i \in 1 .. Len(q)
    BY <1>1
  <2> QED BY <1>1, <1>2, <1>4, <1>5, <2>1
<1>8. \A t \in T : /\ low < t.press /\ t.press <= high + 1
                   /\ \A i \in 1 .. Len(q) + 1 : t.press < Append(q, c)[i].press
  BY <1>1, <1>3, <1>4, <1>5
<1> QED BY <1>1, <1>5, <1>6, <1>7, <1>8 DEF Ordered

LEMMA OrderTaken ==
  ASSUME NEW q \in Seq(Char), q # <<>>, NEW low \in Nat, NEW high \in Nat,
         Ordered(q, {}, low, high)
  PROVE  Ordered(Tail(q), {Head(q)}, low, high)
<1>1. /\ Tail(q) \in Seq(Char) /\ Len(Tail(q)) = Len(q) - 1 /\ Head(q) = q[1]
      /\ \A i \in 1 .. Len(Tail(q)) : Tail(q)[i] = q[i + 1]
      /\ Len(q) \in Nat /\ Len(q) >= 1
  BY HeadTailProperties, EmptySeq
<1>2. \A i \in 1 .. Len(Tail(q)) : i + 1 \in 1 .. Len(q) /\ 1 < i + 1
  BY <1>1
<1>3. /\ \A i \in 1 .. Len(q) : low < q[i].press /\ q[i].press <= high
      /\ \A i, j \in 1 .. Len(q) : i < j => q[i].press < q[j].press
      /\ low <= high
  BY DEF Ordered
<1>4. \A i, j \in 1 .. Len(Tail(q)) : i < j => i + 1 < j + 1
  BY <1>1
<1>5. 1 \in 1 .. Len(q)
  BY <1>1
<1> QED BY <1>1, <1>2, <1>3, <1>4, <1>5 DEF Ordered

LEMMA OrderEmptied ==
  ASSUME NEW low, NEW high, low <= high
  PROVE  Ordered(<<>>, {}, low, high)
BY DEF Ordered

LEMMA OrderPutBack ==
  ASSUME NEW q \in Seq(Char), NEW c \in Char, NEW low \in Nat, NEW high \in Nat,
         Ordered(q, {c}, low, high)
  PROVE  Ordered(<<c>> \o q, {}, low, high)
<1>1. <<c>> \in Seq(Char) /\ Len(<<c>>) = 1 /\ <<c>>[1] = c
  OBVIOUS
<1>2. /\ Len(q) \in Nat /\ Len(<<c>> \o q) = Len(q) + 1
      /\ \A i \in 1 .. 1 + Len(q) :
           (<<c>> \o q)[i] = IF i <= 1 THEN <<c>>[i] ELSE q[i - 1]
  BY <1>1, ConcatProperties
<1>3. /\ (<<c>> \o q)[1] = c
      /\ \A i \in 1 .. Len(q) + 1 :
           i = 1 \/ (i - 1 \in 1 .. Len(q) /\ (<<c>> \o q)[i] = q[i - 1])
  BY <1>1, <1>2
<1>4. /\ \A i \in 1 .. Len(q) : low < q[i].press /\ q[i].press <= high
      /\ \A i, j \in 1 .. Len(q) : i < j => q[i].press < q[j].press
      /\ low < c.press /\ c.press <= high
      /\ \A i \in 1 .. Len(q) : c.press < q[i].press
      /\ low <= high
  BY DEF Ordered
<1>5. \A i \in 1 .. Len(q) + 1 : /\ low < (<<c>> \o q)[i].press
                                 /\ (<<c>> \o q)[i].press <= high
  BY <1>3, <1>4
<1>6. \A i, j \in 1 .. Len(q) + 1 :
        i < j => (<<c>> \o q)[i].press < (<<c>> \o q)[j].press
  <2> SUFFICES ASSUME NEW i \in 1 .. Len(q) + 1, NEW j \in 1 .. Len(q) + 1, i < j
               PROVE  (<<c>> \o q)[i].press < (<<c>> \o q)[j].press
    OBVIOUS
  <2>1. j # 1 /\ j - 1 \in 1 .. Len(q) /\ (<<c>> \o q)[j] = q[j - 1]
    BY <1>2, <1>3
  <2>2. CASE i = 1
    BY <1>3, <1>4, <2>1, <2>2
  <2>3. CASE i # 1
    <3>1. i - 1 \in 1 .. Len(q) /\ i - 1 < j - 1 /\ (<<c>> \o q)[i] = q[i - 1]
      BY <1>2, <1>3, <2>3
    <3> QED BY <1>4, <2>1, <3>1
  <2> QED BY <2>2, <2>3
<1> QED BY <1>2, <1>4, <1>5, <1>6 DEF Ordered

LEMMA OrderInit == Init => InOrder
<1> SUFFICES ASSUME Init PROVE InOrder
  OBVIOUS
<1>1. Contents = <<>> /\ Taken = {} /\ last.press = 0 /\ typed = 0
  BY BufSizeAssumption DEF Init, Contents, Unread, First, Taken, Zero
<1> QED BY <1>1, OrderEmptied DEF InOrder

LEMMA OrderStep ==
  ASSUME TypeOK, InOrder, [Next]_vars
  PROVE  /\ Ordered(Contents', Taken', last'.press, typed')
         /\ last' # last => last'.press > last.press
<1>1. /\ Contents \in Seq(Char) /\ Taken \subseteq Char
      /\ last.press \in Nat /\ typed \in Nat /\ last.press <= typed
      /\ Ordered(Contents, Taken, last.press, typed)
  <2>1. pc = "fetch" => key_buffer[buf_head] \in Char
    BY DEF TypeOK
  <2>2. last.press \in Nat /\ typed \in Nat
    BY MaxTypedAssumption DEF TypeOK, Char
  <2> QED BY <2>1, <2>2, ContentsType DEF Taken, InOrder, Ordered
<1>2. CASE \/ \E k \in Modifiers : PressModifier(k) \/ ReleaseModifier(k)
           \/ PressCapsLock \/ PressCtrlC
           \/ process_run \/ process_exit \/ UNCHANGED vars
  <2>1. UNCHANGED <<ring, typed, reader>>
    BY <1>2, QuietSteps DEF vars
  <2>2. Contents' = Contents /\ Taken' = Taken /\ last' = last /\ typed' = typed
    BY <2>1, QuietStutters DEF Queue!vars, reader
  <2> QED BY <1>1, <2>2
<1>3. ASSUME NEW k \in Keys, PressKey(k)
      PROVE  Ordered(Contents', Taken', last.press, typed + 1)
  <2>1. PICK c \in Char : /\ c.press = typed + 1 /\ StoreKey(c)
                          /\ UNCHANGED <<buf_head, reader>>
    <3>1. Upper(k) \in BOOLEAN
      BY DEF Upper, TypeOK
    <3>2. [press |-> typed + 1, upper |-> Upper(k)] \in Char
      BY <1>1, <1>3, <3>1, MaxTypedAssumption DEF PressKey, Char, TypeOK
    <3> QED BY <1>3, <3>2 DEF PressKey
  <2>2. CASE Unread # BufSize - 1
    <3>1. Contents' = Append(Contents, c) /\ Taken' = Taken
      BY <2>1, <2>2, StoreArrives DEF Queue!Arrive
    <3> QED BY <1>1, <2>1, <3>1, OrderAppended
  <2>3. CASE Unread = BufSize - 1
    <3>1. Contents' = <<>> /\ Taken' = IF Taken = {} THEN {} ELSE {c}
      BY <2>1, <2>3, StoreOverflows DEF Queue!Overflow
    <3> QED BY <1>1, <2>1, <3>1 DEF Ordered
  <2> QED BY <2>2, <2>3
<1>4. CASE GetcharCheck
  <2>1. /\ Contents # <<>> /\ Taken = {}
        /\ Contents' = Tail(Contents) /\ Taken' = {Head(Contents)}
    BY <1>4, CheckTakes DEF Queue!Take
  <2>2. Ordered(Contents, {}, last.press, typed)
    BY <1>1, <2>1
  <2>3. Ordered(Tail(Contents), {Head(Contents)}, last.press, typed)
    BY <1>1, <2>1, <2>2, OrderTaken
  <2> QED BY <1>4, <2>1, <2>3 DEF GetcharCheck
<1>5. CASE GetcharFetch
  <2>1. Contents' = Contents /\ Taken' = {} /\ typed' = typed
    BY <1>5, FetchDelivers DEF Queue!Deliver, GetcharFetch
  <2>2. last' \in Taken
    BY <1>5 DEF GetcharFetch, Taken
  <2>3. last'.press \in Nat
    BY <1>1, <2>2, MaxTypedAssumption DEF Char
  <2> QED BY <1>1, <2>1, <2>2, <2>3 DEF Ordered
<1>6. CASE FlushLoad
  <2>1. Contents' = <<>> /\ Taken' = {} /\ last' = last /\ typed' = typed
    BY <1>6, FlushLoadEmpties DEF Queue!Flush, FlushLoad
  <2> QED BY <1>1, <2>1, OrderEmptied
<1>7. CASE FlushStore
  <2>1. Contents' = Contents /\ Taken' = Taken /\ last' = last /\ typed' = typed
    BY <1>7, FlushStoreStutters DEF Queue!vars, FlushStore
  <2> QED BY <1>1, <2>1
<1>8. ASSUME NEW k \in Keys, PressKey(k) PROVE last' = last /\ typed' = typed + 1
  BY <1>8 DEF PressKey, reader
<1>9. CASE process_check_kill
  <2>1. last' = last /\ typed' = typed
    BY <1>9 DEF process_check_kill
  <2>2. CASE pc = "fetch"
    <3> DEFINE c == key_buffer[buf_head]
    <3>1. Taken = {c} /\ c \in Char
      BY <1>1, <2>2 DEF Taken
    <3> HIDE DEF c
    <3>2. /\ Contents' = IF Len(Contents) = BufSize - 1 THEN <<>>
                                                       ELSE <<c>> \o Contents
          /\ Taken' = {}
      BY <1>9, <2>2, <3>1, KillAbandons DEF Queue!Abandon, Queue!Full
    <3>3. Ordered(<<c>> \o Contents, {}, last.press, typed)
      BY <1>1, <3>1, OrderPutBack
    <3> QED BY <1>1, <2>1, <3>2, <3>3, OrderEmptied
  <2>3. CASE pc # "fetch"
    <3>1. Contents' = Contents /\ Taken' = Taken
      BY <1>9, <2>3, KillKeepsIdle, QuietStutters DEF Queue!vars
    <3> QED BY <1>1, <2>1, <3>1
  <2> QED BY <2>2, <2>3
<1> QED BY <1>2, <1>3, <1>4, <1>5, <1>6, <1>7, <1>8, <1>9
        DEF Next, keyboard_handler

(* keyboard_getchar never goes back: the presses it returns only grow,      *)
(* overflow, flush and killed readers included, although the handler may    *)
(* overwrite the very slot it is about to read.                             *)
THEOREM KeysReadInOrder == Spec => ReadsInOrder
<1>1. TypeOK /\ InOrder /\ [Next]_vars => InOrder'
  <2> SUFFICES ASSUME TypeOK, InOrder, [Next]_vars
               PROVE  Ordered(Contents', Taken', last'.press, typed')
    BY DEF InOrder, Ordered
  <2> QED BY OrderStep
<1>2. TypeOK /\ InOrder /\ [Next]_vars => [last' # last => last'.press > last.press]_vars
  BY OrderStep
<1> QED BY <1>1, <1>2, OrderInit, TypeCorrect, PTL DEF Spec, ReadsInOrder
=============================================================================
