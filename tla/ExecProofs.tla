----------------------------- MODULE ExecProofs -----------------------------
(* Safety of Exec for any number of programs, exit codes, ring sizes and    *)
(* timer frequencies.                                                       *)
EXTENDS Exec, TLAPS

(* The program is allocated from process_create to process_free.            *)
Allocated == {"loaded", "flushed", "current", "tss", "esp", "returned",
              "report"} \cup User

(* process_run and enter_user_mode establish, one store after the other,    *)
(* what a kill relies on; the last part is what each point may assume.      *)
Established ==
  /\ pc \in Allocated => live # 0 /\ live = runs
  /\ pc \in {"tss", "esp"} \cup User => esp0 = live
  /\ pc \in {"esp"} \cup User => saved_esp = live
  /\ pc \in User => saved_regs = live /\ iflag

(* Where current_process can be set, and that it is then the allocated one. *)
CurrentPlaces ==
  /\ current_process # 0 =>
       pc \in {"current", "tss", "esp", "halted"} \cup (User \ {"cleared"})
  /\ CurrentIsLive

(* What cmd_exec and process_free have undone.                              *)
Undone ==
  /\ pc = "shell" => live = 0
  /\ pc \in {"shell", "report"} => ~torn

IInv ==
  /\ TypeOK
  /\ LinesAcknowledged
  /\ Established
  /\ CurrentPlaces
  /\ Undone

(* A line is delivered only with all lines acknowledged, and acknowledging  *)
(* the only line in service leaves none.                                    *)
LEMMA Acknowledge ==
  ASSUME in_service = {}, NEW line \in {0, 1}
  PROVE  PIC_sendEOI(in_service \cup {line}) = {}
  BY DEF PIC_sendEOI

(* Unwinding ends in process_run's caller or nowhere anyone knows.          *)
LEMMA ResumeTarget ==
  ASSUME kernel_resume_after_exit
  PROVE  pc' = "returned" \/ pc' = "lost"
  BY DEF kernel_resume_after_exit

(* A uint32_t stays one.                                                    *)
LEMMA ModWord == ASSUME NEW n \in Int PROVE n % Word \in 0 .. Word - 1
  BY TimerAssumption, SMT

(* A number of ticks to wait is a number.                                   *)
LEMMA TicksAreNat == ASSUME NEW ms \in Milliseconds PROVE TicksOf(ms) \in Int
<1>1. ms * Frequency \in Int
  BY TimerAssumption, SMT
<1>2. (ms * Frequency) % Word \in Int
  BY <1>1, ModWord
<1>3. ((ms * Frequency) % Word) \div Second \in Int
  BY <1>2, TimerAssumption, SMT
<1> QED BY <1>3 DEF TicksOf

(* At the first prompt nothing runs and nothing is saved.                   *)
LEMMA InitIInv == Init => IInv
<1> SUFFICES ASSUME Init PROVE IInv
  OBVIOUS
<1>1. 0 \in Activations /\ 0 \in 0 .. Word - 1 /\ 0 \in 0 .. MaxUnread
  BY RunsAssumption, TimerAssumption, UnreadAssumption DEF Activations
<1>2. TypeOK
  BY <1>1 DEF Init, TypeOK, Locations, Awake
<1>3. Established /\ CurrentPlaces /\ Undone /\ LinesAcknowledged
  BY DEF Init, LinesAcknowledged, Established, CurrentPlaces,
         CurrentIsLive, Undone, Allocated, User
<1> QED BY <1>2, <1>3 DEF IInv

(* Every handler acknowledges its line, the kill in its own way.            *)
LEMMA NextAcknowledged == IInv /\ [Next]_vars => LinesAcknowledged'
<1> SUFFICES ASSUME IInv, [Next]_vars PROVE LinesAcknowledged'
  OBVIOUS
<1>1. CASE Interrupt
  BY <1>1, Acknowledge
     DEF Interrupt, TimerTick, TimerKill, KeyboardIRQ, IInv, LinesAcknowledged
<1>2. CASE Shell
  BY <1>2 DEF Shell, ShellKey, ExecCommand, KeyboardFlush, SetCurrent,
              SetKernelStack, SaveEsp, EnterRing3, PrintReturned,
              ReportAndFree, IInv, LinesAcknowledged
<1>3. CASE Syscall
  BY <1>3 DEF Syscall, SysReadkey, SysWrite, Putchar, WriteDone, SysSleep,
              SleepDone, SysExit, ClearCurrent, Resume, Fault, IInv,
              LinesAcknowledged
<1>4. CASE PressKey \/ UNCHANGED vars
  BY <1>4 DEF PressKey, vars, IInv, LinesAcknowledged
<1> QED BY <1>1, <1>2, <1>3, <1>4 DEF Next

(* The type invariant is inductive together with the rest of IInv.          *)
LEMMA NextTypeOK == IInv /\ [Next]_vars => TypeOK'
<1> SUFFICES ASSUME IInv, [Next]_vars PROVE TypeOK'
  OBVIOUS
<1>0. in_service' = {}
  BY NextAcknowledged DEF LinesAcknowledged
<1> USE RunsAssumption, UnreadAssumption
    DEF IInv, TypeOK, Activations, Locations, User, Stopped,
        process, kill, kernel, timer, keyboard
<1>1. CASE ShellKey
  BY <1>1 DEF ShellKey, keyboard_getchar
<1>2. CASE ExecCommand
  BY <1>2 DEF ExecCommand, keyboard_getchar
<1>3. CASE KeyboardFlush
  BY <1>3 DEF KeyboardFlush
<1>4. CASE SetCurrent
  BY <1>4 DEF SetCurrent
<1>5. CASE SetKernelStack
  BY <1>5 DEF SetKernelStack
<1>6. CASE SaveEsp
  BY <1>6 DEF SaveEsp
<1>7. CASE EnterRing3
  BY <1>7 DEF EnterRing3
<1>8. CASE PrintReturned
  BY <1>8 DEF PrintReturned
<1>9. CASE ReportAndFree
  BY <1>9 DEF ReportAndFree
<1>10. CASE SysReadkey
  BY <1>10 DEF SysReadkey, keyboard_getchar, ReturnToRing3
<1>11. CASE SysWrite \/ Putchar \/ WriteDone
  BY <1>11 DEF SysWrite, Putchar, WriteDone, TrapGate, ReturnToRing3
<1>12. CASE SysSleep \/ SleepDone
  <2>1. CASE SysSleep
    <3>1. PICK ms \in Milliseconds :
            /\ target' = (timer_ticks + TicksOf(ms)) % Word
            /\ asked' = [ms |-> ms, from |-> timer_ticks]
      BY <2>1 DEF SysSleep
    <3>2. target' \in 0 .. Word - 1
      BY <3>1, TicksAreNat, ModWord
    <3>3. asked' \in [ms : 0 .. Word - 1, from : 0 .. Word - 1]
      BY <3>1, TimerAssumption
    <3> QED BY <2>1, <3>2, <3>3 DEF SysSleep, TrapGate
  <2>2. CASE SleepDone
    <3>1. target' \in 0 .. Word - 1 /\ asked' \in [ms : 0 .. Word - 1, from : 0 .. Word - 1]
      BY <2>2, TimerAssumption DEF SleepDone, Awake
    <3> QED BY <2>2, <3>1 DEF SleepDone, ReturnToRing3
  <2> QED BY <1>12, <2>1, <2>2
<1>13. CASE SysExit \/ ClearCurrent
  <2>1. CASE SysExit
    <3>1. exit_code' \in Codes \cup {0, 1}
      BY <2>1 DEF SysExit
    <3> QED BY <2>1, <3>1 DEF SysExit, TrapGate
  <2>2. CASE ClearCurrent
    BY <2>2 DEF ClearCurrent
  <2> QED BY <1>13, <2>1, <2>2
<1>14. CASE Resume
  BY <1>14, ResumeTarget DEF Resume
<1>15. CASE Fault
  BY <1>15 DEF Fault
<1>16. CASE TimerTick
  <2>1. timer_ticks' \in 0 .. Word - 1
    BY <1>16, ModWord DEF TimerTick
  <2> QED BY <1>0, <1>16, <2>1 DEF TimerTick
<1>17. CASE TimerKill
  <2>1. /\ exit_code' \in Codes \cup {0, 1}
        /\ timer_ticks' \in 0 .. Word - 1 /\ target' \in 0 .. Word - 1
        /\ asked' \in [ms : 0 .. Word - 1, from : 0 .. Word - 1]
    BY <1>17, ModWord, TimerAssumption DEF TimerKill, Awake
  <2>2. pc' \in Locations
    BY <1>17, ResumeTarget DEF TimerKill
  <2>3. iflag' = FALSE /\ kill_pending' = FALSE /\ current_process' = 0
    BY <1>17 DEF TimerKill
  <2>4. UNCHANGED <<runs, live, signalled, esp0, saved_esp, saved_regs, torn,
                    port, ctrl, unread>>
    BY <1>17 DEF TimerKill
  <2>5. pc' \in Locations /\ iflag' \in BOOLEAN /\ kill_pending' \in BOOLEAN
    BY <2>2, <2>3
  <2>6. /\ runs' \in Activations /\ live' \in {0, runs'}
        /\ current_process' \in Activations
        /\ signalled' \in Activations /\ esp0' \in Activations
        /\ saved_esp' \in Activations /\ saved_regs' \in Activations
    BY <2>3, <2>4
  <2>7. /\ torn' \in BOOLEAN /\ ctrl' \in BOOLEAN
        /\ port' \in Scancodes \cup {None} /\ unread' \in 0 .. MaxUnread
        /\ in_service' \subseteq {0, 1}
    BY <1>0, <2>4
  <2> QED BY <2>1, <2>5, <2>6, <2>7
<1>18. CASE KeyboardIRQ
  <2>1. ctrl' \in BOOLEAN
    BY <1>18 DEF KeyboardIRQ, KeyboardHandler
  <2>2. unread' \in 0 .. MaxUnread
    BY <1>18 DEF KeyboardIRQ, KeyboardHandler, StoreKey
  <2>3. kill_pending' \in BOOLEAN /\ signalled' \in Activations
    BY <1>18 DEF KeyboardIRQ, KeyboardHandler, process_signal_kill
  <2> QED BY <1>0, <1>18, <2>1, <2>2, <2>3 DEF KeyboardIRQ
<1>19. CASE PressKey
  BY <1>19 DEF PressKey
<1>20. CASE UNCHANGED vars
  BY <1>20 DEF vars
<1> QED BY <1>1, <1>2, <1>3, <1>4, <1>5, <1>6, <1>7, <1>8, <1>9, <1>10,
           <1>11, <1>12, <1>13, <1>14, <1>15, <1>16, <1>17, <1>18, <1>19,
           <1>20 DEF Next, Shell, Syscall, Interrupt

(* What a kill relies on is established in order and kept to the end.       *)
LEMMA NextContext ==
  IInv /\ [Next]_vars => Established' /\ CurrentPlaces' /\ Undone'
<1> SUFFICES ASSUME IInv, [Next]_vars
             PROVE  Established' /\ CurrentPlaces' /\ Undone'
  OBVIOUS
<1> USE RunsAssumption
    DEF IInv, TypeOK, Established, CurrentPlaces, CurrentIsLive, Undone,
        Allocated, User, Activations, process, kill, kernel, timer, keyboard
<1>1. CASE ShellKey
  BY <1>1 DEF ShellKey
<1>2. CASE ExecCommand
  BY <1>2 DEF ExecCommand
<1>3. CASE KeyboardFlush
  BY <1>3 DEF KeyboardFlush
<1>4. CASE SetCurrent
  BY <1>4 DEF SetCurrent
<1>5. CASE SetKernelStack
  BY <1>5 DEF SetKernelStack
<1>6. CASE SaveEsp
  BY <1>6 DEF SaveEsp
<1>7. CASE EnterRing3
  BY <1>7 DEF EnterRing3
<1>8. CASE PrintReturned
  BY <1>8 DEF PrintReturned
<1>9. CASE ReportAndFree
  BY <1>9 DEF ReportAndFree
<1>10. CASE SysReadkey
  BY <1>10 DEF SysReadkey, ReturnToRing3
<1>11. CASE SysWrite \/ Putchar \/ WriteDone
  BY <1>11 DEF SysWrite, Putchar, WriteDone, TrapGate, ReturnToRing3
<1>12. CASE SysSleep \/ SleepDone
  BY <1>12 DEF SysSleep, SleepDone, TrapGate, ReturnToRing3
<1>13. CASE SysExit \/ ClearCurrent
  BY <1>13 DEF SysExit, ClearCurrent, TrapGate
<1>14. CASE Resume
  BY <1>14 DEF Resume, kernel_resume_after_exit
<1>15. CASE Fault
  BY <1>15 DEF Fault
<1>16. CASE TimerTick
  BY <1>16 DEF TimerTick
<1>17. CASE TimerKill
  BY <1>17 DEF TimerKill, kernel_resume_after_exit
<1>18. CASE KeyboardIRQ \/ PressKey \/ UNCHANGED vars
  BY <1>18 DEF KeyboardIRQ, PressKey, vars
<1> QED BY <1>1, <1>2, <1>3, <1>4, <1>5, <1>6, <1>7, <1>8, <1>9, <1>10,
           <1>11, <1>12, <1>13, <1>14, <1>15, <1>16, <1>17, <1>18
        DEF Next, Shell, Syscall, Interrupt

(* The strengthened invariant holds in every reachable state.               *)
LEMMA Inductive == Spec => []IInv
<1>1. IInv /\ [Next]_vars => IInv'
  BY NextTypeOK, NextAcknowledged, NextContext DEF IInv
<1> QED BY InitIInv, <1>1, PTL DEF Spec

(* Every variable keeps its type, in every interleaving of the shell, the   *)
(* program's system calls and the two interrupt handlers.                   *)
THEOREM TypeCorrect == Spec => []TypeOK
<1>1. IInv => TypeOK
  BY DEF IInv
<1> QED BY <1>1, Inductive, PTL

(* Whenever a program or one of its system calls executes, process_run has  *)
(* prepared everything that ends it, and interrupts are on.                 *)
THEOREM Ring3IsReady == Spec => []Ring3Ready
<1>1. IInv => Ring3Ready
  BY DEF IInv, Established, Ring3Ready, Allocated
<1> QED BY <1>1, Inductive, PTL

(* process_exit never writes through a pointer to a freed process_t.        *)
THEOREM NoDanglingCurrent == Spec => []CurrentIsLive
<1>1. IInv => CurrentIsLive
  BY DEF IInv, CurrentPlaces
<1> QED BY <1>1, Inductive, PTL

(* The prompt comes back with nothing of the last program left.             *)
THEOREM PromptIsClean == Spec => []PromptClean
<1>1. IInv => PromptClean
  BY DEF IInv, CurrentPlaces, Undone, PromptClean, User
<1> QED BY <1>1, Inductive, PTL

(* No interrupt line stays unacknowledged, whether the handler returns or   *)
(* process_check_kill abandons it.                                          *)
THEOREM NoLineStuck == Spec => []LinesAcknowledged
<1>1. IInv => LinesAcknowledged
  BY DEF IInv
<1> QED BY <1>1, Inductive, PTL

-----------------------------------------------------------------------------
(* A program that sleeps waits for the tick that timer_wait computed when   *)
(* it was called.                                                           *)

SleepOK ==
  pc = "sleep" =>
    /\ asked.ms \in Milliseconds
    /\ target = (asked.from + TicksOf(asked.ms)) % Word

LEMMA NextSleepOK == IInv /\ SleepOK /\ [Next]_vars => SleepOK'
<1> SUFFICES ASSUME SleepOK, [Next]_vars, pc' = "sleep"
             PROVE  /\ asked'.ms \in Milliseconds
                    /\ target' = (asked'.from + TicksOf(asked'.ms)) % Word
  BY DEF SleepOK, TicksOf
<1>1. CASE SysSleep
  BY <1>1 DEF SysSleep
<1>2. CASE pc = "sleep" /\ UNCHANGED <<asked, target>>
  BY <1>2 DEF SleepOK
<1>3. CASE Shell
  BY <1>3 DEF Shell, ShellKey, ExecCommand, KeyboardFlush, SetCurrent,
              SetKernelStack, SaveEsp, EnterRing3, PrintReturned, ReportAndFree
<1>4. CASE Syscall
  <2>1. CASE SysReadkey \/ SysWrite \/ Putchar \/ WriteDone \/ SleepDone
    BY <2>1 DEF SysReadkey, SysWrite, Putchar, WriteDone, SleepDone, ReturnToRing3
  <2>2. CASE SysExit \/ ClearCurrent \/ Resume \/ Fault
    BY <2>2, ResumeTarget DEF SysExit, ClearCurrent, Resume, Fault
  <2> QED BY <1>1, <1>4, <2>1, <2>2 DEF Syscall
<1>5. CASE TimerKill
  BY <1>5, ResumeTarget DEF TimerKill
<1>6. CASE TimerTick \/ KeyboardIRQ \/ PressKey \/ UNCHANGED vars
  BY <1>2, <1>6 DEF TimerTick, KeyboardIRQ, PressKey, vars, timer
<1> QED BY <1>1, <1>3, <1>4, <1>5, <1>6 DEF Next, Interrupt

(* What is left after a whole number of seconds is less than a second.      *)
LEMMA Rounding ==
  ASSUME NEW p \in Nat, NEW q \in Nat, p \div Second < q
  PROVE  p < q * Second
<1>1. /\ Second \in Nat \ {0} /\ p \div Second \in Nat /\ p % Second \in 0 .. Second - 1
  BY TimerAssumption, SMT
<1>2. p = (p % Second) + Second * (p \div Second)
  BY TimerAssumption, Z3
<1>3. PICK n \in Nat, r \in 0 .. Second - 1 : n = p \div Second /\ p = r + Second * n
  BY <1>1, <1>2
<1>4. PICK d \in Nat : q = n + 1 + d
  <2>1. q - n - 1 \in Nat /\ q = n + 1 + (q - n - 1)
    BY <1>3
  <2> QED BY <2>1
<1>5. q * Second = Second * n + Second + Second * d
  BY <1>1, <1>4, Z3
<1>6. Second * n \in Nat /\ Second * d \in Nat
  BY <1>1
<1> QED BY <1>1, <1>3, <1>5, <1>6

LEMMA LongEnough ==
  ASSUME IInv, SleepOK, pc = "sleep", timer_ticks >= target, Fits32
  PROVE  /\ (timer_ticks - asked.from + 1) * Second > asked.ms * Frequency
         /\ asked.ms > 0 => timer_ticks > asked.from
<1> DEFINE p == asked.ms * Frequency
           n == p \div Second
<1>1. /\ asked.ms \in Nat /\ asked.from \in Nat /\ timer_ticks \in Nat /\ Word \in Nat \ {0}
      /\ target \in Nat
  BY TimerAssumption DEF IInv, TypeOK
<1>2. p \in Nat /\ n \in Nat /\ p < Word /\ asked.from + n + 1 < Word
  <2>1. p \in Nat
    BY <1>1, TimerAssumption, SMT
  <2>2. n \in Nat
    BY <2>1, TimerAssumption, SMT
  <2> QED BY <2>1, <2>2 DEF Fits32
<1>3. p % Word = p
  <2> HIDE DEF p, n
  <2> QED BY <1>1, <1>2
<1>4. TicksOf(asked.ms) = IF n = 0 /\ asked.ms > 0 THEN 1 ELSE n
  BY <1>3 DEF TicksOf
<1> HIDE DEF n, p
<1>5. target = asked.from + TicksOf(asked.ms)
  <2>1. asked.from + TicksOf(asked.ms) \in Nat /\ asked.from + TicksOf(asked.ms) < Word
    BY <1>1, <1>2, <1>4
  <2>2. (asked.from + TicksOf(asked.ms)) % Word = asked.from + TicksOf(asked.ms)
    BY <1>1, <2>1
  <2> QED BY <2>2 DEF SleepOK
<1>6. asked.ms > 0 => timer_ticks > asked.from
  <2>1. asked.ms > 0 => TicksOf(asked.ms) >= 1
    BY <1>1, <1>2, <1>4
  <2> QED BY <1>1, <1>2, <1>4, <1>5, <2>1
<1>7. timer_ticks - asked.from + 1 \in Nat /\ n < timer_ticks - asked.from + 1
  BY <1>1, <1>2, <1>4, <1>5
<1>8. p < (timer_ticks - asked.from + 1) * Second
  BY <1>2, <1>7, Rounding DEF n
<1>9. (timer_ticks - asked.from + 1) * Second \in Nat
  BY <1>7, TimerAssumption, SMT
<1> QED BY <1>2, <1>6, <1>8, <1>9 DEF p

(* sys_sleep lasts what the program asked for, short of the part of a tick  *)
(* that the division takes off, whatever ticks and keys come meanwhile, as  *)
(* long as neither the product nor the target wraps around.                 *)
THEOREM SleepsAreLongEnough == Spec => SleepsLongEnough
<1>1. Init => SleepOK
  BY DEF Init, SleepOK
<1>2. IInv /\ SleepOK /\ [Next]_vars
        => [pc = "sleep" /\ pc' = "user" /\ Fits32 =>
              /\ (timer_ticks - asked.from + 1) * Second > asked.ms * Frequency
              /\ asked.ms > 0 => timer_ticks > asked.from]_vars
  <2> SUFFICES ASSUME IInv, SleepOK, [Next]_vars, pc = "sleep", pc' = "user", Fits32
               PROVE  /\ (timer_ticks - asked.from + 1) * Second > asked.ms * Frequency
                      /\ asked.ms > 0 => timer_ticks > asked.from
    OBVIOUS
  <2>1. SleepDone
    <3>1. ~Shell
      BY DEF Shell, ShellKey, ExecCommand, KeyboardFlush, SetCurrent,
             SetKernelStack, SaveEsp, EnterRing3, PrintReturned, ReportAndFree
    <3>2. ~(SysReadkey \/ SysWrite \/ Putchar \/ WriteDone \/ SysSleep)
      BY DEF SysReadkey, SysWrite, Putchar, WriteDone, SysSleep
    <3>3. ~(SysExit \/ ClearCurrent \/ Resume \/ Fault)
      BY DEF SysExit, ClearCurrent, Resume, Fault
    <3>4. ~(TimerTick \/ KeyboardIRQ \/ PressKey \/ UNCHANGED vars)
      BY DEF TimerTick, KeyboardIRQ, PressKey, vars
    <3>5. ~TimerKill
      BY ResumeTarget DEF TimerKill
    <3> QED BY <3>1, <3>2, <3>3, <3>4, <3>5 DEF Next, Syscall, Interrupt
  <2>2. timer_ticks >= target
    BY <2>1 DEF SleepDone
  <2> QED BY <2>2, LongEnough
<1> QED BY <1>1, <1>2, NextSleepOK, Inductive, PTL DEF Spec, SleepsLongEnough
=============================================================================
