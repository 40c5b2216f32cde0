-------------------------------- MODULE Exec --------------------------------
(* One user program at a time: cmd_exec loads it, process_run enters ring   *)
(* 3, sys_exit or a Ctrl+C taken by the timer tick unwinds back into        *)
(* process_run.  The shell, the program's system calls and the two          *)
(* interrupt handlers share current_process, kill_pending, the saved kernel *)
(* context and the interrupt flag.  Interrupts can arrive between any two   *)
(* steps while the flag is set; the handlers run with it clear and are one  *)
(* step each.                                                               *)
EXTENDS Integers

CONSTANTS MaxRuns,     \* bound: programs started in a behaviour
          Milliseconds,  \* bound: what programs ask to sleep
          Word,        \* a uint32_t wraps here (2^32)
          Frequency, Second,  \* ticks (100) and milliseconds (1000) of a second
          Codes,       \* exit codes programs use
          MaxUnread    \* characters the keyboard ring can hold

ASSUME RunsAssumption == MaxRuns \in Nat
ASSUME TimerAssumption ==
  /\ Word \in Nat \ {0, 1} /\ Frequency \in Nat \ {0} /\ Second \in Nat \ {0, 1}
  /\ Milliseconds \subseteq 0 .. Word - 1
ASSUME CodesAssumption == Codes \subseteq Nat
ASSUME UnreadAssumption == MaxUnread \in Nat \ {0}

VARIABLES
  pc,               \* what the processor executes outside handlers
  iflag,            \* the processor's interrupt flag
  runs,             \* programs started so far: numbers the activations
  live,             \* the allocated process_t, by activation, or 0
  current_process,  \* the activation it points to, or 0 for NULL
  kill_pending,
  signalled,        \* history: the activation running at the last Ctrl+C
  esp0,             \* the activation whose kernel stack the TSS names
  saved_esp,        \* the activation that saved process_saved_esp
  saved_regs,       \* and process_saved_ebp, ebx, esi and edi
  exit_code,        \* of the live process_t
  timer_ticks,      \* a uint32_t that counts from timer_install on
  target,           \* of the timer_wait a program sleeps in, or 0
  asked,            \* history: the milliseconds and the tick it went to sleep
  torn,             \* terminal_putchar was interrupted half-way
  port,             \* the scancode waiting in the keyboard controller
  ctrl,             \* the keyboard handler's control flag
  unread,           \* characters in the keyboard ring
  in_service        \* interrupt lines the PIC has not been acknowledged for

kernel == <<esp0, saved_esp, saved_regs>>
process == <<runs, live, current_process, exit_code>>
kill == <<kill_pending, signalled>>
keyboard == <<port, ctrl, unread>>
timer == <<timer_ticks, target, asked>>
vars == <<pc, iflag, process, kill, kernel, timer, torn, keyboard, in_service>>

None == "none"
Awake == [ms |-> 0, from |-> 0]
Scancodes == {"ctrl_down", "ctrl_up", "c", "key"}

User == {"user", "write", "sleep", "exiting", "cleared"}   \* after ring 3 entry
Stopped == {"halted", "lost"}
Locations == {"shell", "loaded", "flushed", "current", "tss", "esp",
              "returned", "report"} \cup User \cup Stopped

Init ==
  /\ pc = "shell" /\ iflag = TRUE
  /\ runs = 0 /\ live = 0 /\ current_process = 0 /\ exit_code = 0
  /\ kill_pending = FALSE /\ signalled = 0
  /\ esp0 = 0 /\ saved_esp = 0 /\ saved_regs = 0
  /\ timer_ticks = 0 /\ target = 0 /\ asked = Awake /\ torn = FALSE
  /\ port = None /\ ctrl = FALSE /\ unread = 0
  /\ in_service = {}

-----------------------------------------------------------------------------
(* The shell and cmd_exec, with interrupts as the last program left them.   *)

keyboard_getchar == unread' = IF unread = 0 THEN 0 ELSE unread - 1

(* shell_run polls the serial line only when the keyboard has nothing.      *)
ShellKey ==
  /\ pc = "shell" /\ unread > 0
  /\ keyboard_getchar
  /\ UNCHANGED <<pc, iflag, process, kill, kernel, timer, torn, port, ctrl,
                 in_service>>

(* The last key of "exec <file>" arrives and process_create succeeds.       *)
ExecCommand ==
  /\ pc = "shell" /\ runs < MaxRuns
  /\ keyboard_getchar
  /\ runs' = runs + 1 /\ live' = runs + 1 /\ exit_code' = 0
  /\ pc' = "loaded"
  /\ UNCHANGED <<iflag, current_process, kill, kernel, timer, torn, port, ctrl,
                 in_service>>

KeyboardFlush ==
  /\ pc = "loaded"
  /\ unread' = 0
  /\ pc' = "flushed"
  /\ UNCHANGED <<iflag, process, kill, kernel, timer, torn, port, ctrl,
                 in_service>>

SetCurrent ==
  /\ pc = "flushed"
  /\ current_process' = live
  /\ pc' = "current"
  /\ UNCHANGED <<iflag, runs, live, exit_code, kill, kernel, timer, torn,
                 keyboard, in_service>>

SetKernelStack ==
  /\ pc = "current"
  /\ esp0' = live
  /\ pc' = "tss"
  /\ UNCHANGED <<iflag, process, kill, saved_esp, saved_regs, timer, torn,
                 keyboard, in_service>>

SaveEsp ==
  /\ pc = "tss"
  /\ saved_esp' = live
  /\ pc' = "esp"
  /\ UNCHANGED <<iflag, process, kill, esp0, saved_regs, timer, torn,
                 keyboard, in_service>>

(* Mutant: "or edx, 0x200" is missing.                                      *)
EnterRing3_FlagCopied ==
  /\ pc = "esp"
  /\ saved_regs' = live
  /\ pc' = "user"
  /\ UNCHANGED <<iflag, process, kill, esp0, saved_esp, timer, torn, keyboard,
                 in_service>>

(* The other saved registers, then iret with the interrupt flag forced on.  *)
EnterRing3 ==
  /\ pc = "esp"
  /\ saved_regs' = live
  /\ iflag' = TRUE
  /\ pc' = "user"
  /\ UNCHANGED <<process, kill, esp0, saved_esp, timer, torn, keyboard,
                 in_service>>

(* Mutant: cmd_exec does not call terminal_initialize.                      *)
PrintReturned_Only ==
  /\ pc = "returned"
  /\ pc' = "report"
  /\ UNCHANGED <<iflag, process, kill, kernel, timer, torn, keyboard,
                 in_service>>

(* "[exec] returned", then terminal_initialize makes the terminal anew.     *)
PrintReturned ==
  /\ pc = "returned"
  /\ torn' = FALSE
  /\ pc' = "report"
  /\ UNCHANGED <<iflag, process, kill, kernel, timer, keyboard, in_service>>

ReportAndFree ==
  /\ pc = "report"
  /\ live' = 0 /\ exit_code' = 0
  /\ pc' = "shell"
  /\ UNCHANGED <<iflag, runs, current_process, kill, kernel, timer, torn,
                 keyboard, in_service>>

-----------------------------------------------------------------------------
(* The program's system calls.  The gate of int 0x80 is a trap gate: the    *)
(* interrupt flag, set in ring 3, stays set in the handler.                 *)

(* Mutant: int 0x80 has an interrupt gate.                                  *)
InterruptGate == iflag' = FALSE
TrapGate == iflag' = iflag
ReturnToRing3 == pc' = "user" /\ iflag' = TRUE

(* In one step here: a kill between its test and its fetch leaves the       *)
(* character unread, as one before the call does.  Keyboard has the two.    *)
SysReadkey ==
  /\ pc = "user"
  /\ keyboard_getchar
  /\ ReturnToRing3
  /\ UNCHANGED <<process, kill, kernel, timer, torn, port, ctrl, in_service>>

SysWrite ==
  /\ pc = "user"
  /\ pc' = "write"
  /\ TrapGate
  /\ UNCHANGED <<process, kill, kernel, timer, torn, keyboard, in_service>>

(* terminal_putchar, from its first to its last store.                      *)
Putchar ==
  /\ pc = "write"
  /\ torn' = ~torn
  /\ UNCHANGED <<pc, iflag, process, kill, kernel, timer, keyboard, in_service>>

WriteDone ==
  /\ pc = "write" /\ ~torn
  /\ ReturnToRing3
  /\ UNCHANGED <<process, kill, kernel, timer, torn, keyboard, in_service>>

(* Mutant: divided before it is multiplied.                                 *)
TicksOf_Coarse(ms) == (ms \div Second) * Frequency

(* sleep: the product wraps, and no sleep is shorter than a tick.           *)
TicksOf(ms) ==
  LET n == ((ms * Frequency) % Word) \div Second
  IN IF n = 0 /\ ms > 0 THEN 1 ELSE n

(* timer_wait: the sum wraps too.                                           *)
SysSleep ==
  /\ pc = "user"
  /\ \E ms \in Milliseconds :
       /\ target' = (timer_ticks + TicksOf(ms)) % Word
       /\ asked' = [ms |-> ms, from |-> timer_ticks]
  /\ pc' = "sleep"
  /\ TrapGate
  /\ UNCHANGED <<process, kill, kernel, timer_ticks, torn, keyboard, in_service>>

SleepDone ==
  /\ pc = "sleep" /\ timer_ticks >= target
  /\ ReturnToRing3
  /\ target' = 0 /\ asked' = Awake
  /\ UNCHANGED <<process, kill, kernel, timer_ticks, torn, keyboard, in_service>>

(* process_exit in three steps: the code, current_process, the unwinding.   *)
SysExit ==
  /\ pc = "user"
  /\ exit_code' \in Codes
  /\ pc' = "exiting"
  /\ TrapGate
  /\ UNCHANGED <<runs, live, current_process, kill, kernel, timer, torn,
                 keyboard, in_service>>

ClearCurrent ==
  /\ pc = "exiting"
  /\ current_process' = 0
  /\ pc' = "cleared"
  /\ UNCHANGED <<iflag, runs, live, exit_code, kill, kernel, timer, torn,
                 keyboard, in_service>>

(* kernel_resume_after_exit returns wherever the saved context says.  A     *)
(* context never saved leads nowhere; one left by an earlier activation     *)
(* may happen to describe the same frames, or not.                          *)
kernel_resume_after_exit ==
  \/ /\ 0 \notin {saved_esp, saved_regs}
     /\ pc' = "returned"
  \/ /\ {saved_esp, saved_regs} # {live}
     /\ pc' = "lost"

Resume ==
  /\ pc = "cleared"
  /\ kernel_resume_after_exit
  /\ UNCHANGED <<iflag, process, kill, kernel, timer, torn, keyboard,
                 in_service>>

(* Any exception, in the program or in a system call on its behalf, prints  *)
(* and stops the machine with interrupts off.                               *)
Fault ==
  /\ pc \in {"user", "write"}
  /\ pc' = "halted"
  /\ iflag' = FALSE
  /\ UNCHANGED <<process, kill, kernel, timer, torn, keyboard, in_service>>

-----------------------------------------------------------------------------
(* The interrupts.  The PIC delivers a line when the flag is set and no     *)
(* line of its priority or a higher one (a lower number) is in service.     *)

Delivers(line) ==
  /\ iflag /\ pc \notin Stopped
  /\ \A l \in in_service : l > line

(* PIC_sendEOI sends a non-specific EOI: the highest priority is cleared.   *)
PIC_sendEOI(lines) == lines \ {l \in lines : \A m \in lines : l <= m}

(* timer_handler: a tick that finds nothing to kill.                        *)
TimerTick ==
  /\ Delivers(0)
  /\ ~(kill_pending /\ current_process # 0)
  /\ timer_ticks' = (timer_ticks + 1) % Word
  /\ in_service' = PIC_sendEOI(in_service \cup {0})
  /\ UNCHANGED <<pc, iflag, process, kill, kernel, target, asked, torn, keyboard>>

(* Mutant: process_check_kill sends no EOI.                                 *)
TimerKill_NoEOI ==
  /\ Delivers(0)
  /\ kill_pending /\ current_process # 0
  /\ kill_pending' = FALSE
  /\ in_service' = in_service \cup {0}
  /\ exit_code' = 1
  /\ current_process' = 0
  /\ iflag' = FALSE
  /\ timer_ticks' = (timer_ticks + 1) % Word
  /\ target' = 0 /\ asked' = Awake
  /\ kernel_resume_after_exit
  /\ UNCHANGED <<runs, live, signalled, kernel, torn, keyboard>>

(* process_check_kill never returns to irq_dispatch: it sends the EOI       *)
(* itself, and the flag the interrupt gate cleared is not restored.         *)
TimerKill ==
  /\ Delivers(0)
  /\ kill_pending /\ current_process # 0
  /\ kill_pending' = FALSE
  /\ in_service' = PIC_sendEOI(in_service \cup {0})
  /\ exit_code' = 1
  /\ current_process' = 0
  /\ iflag' = FALSE
  /\ timer_ticks' = (timer_ticks + 1) % Word
  /\ target' = 0 /\ asked' = Awake   \* a sleeper's loop is abandoned
  /\ kernel_resume_after_exit
  /\ UNCHANGED <<runs, live, signalled, kernel, torn, keyboard>>

(* The keyboard raises its line with a scancode in the controller's port.   *)
PressKey ==
  /\ port = None
  /\ port' \in Scancodes
  /\ UNCHANGED <<pc, iflag, process, kill, kernel, timer, torn, ctrl, unread,
                 in_service>>

process_signal_kill ==
  /\ kill_pending' = TRUE
  /\ signalled' = current_process

StoreKey == unread' = IF unread = MaxUnread THEN 0 ELSE unread + 1

KeyboardHandler ==
  \/ /\ port \in {"ctrl_down", "ctrl_up"}
     /\ ctrl' = (port = "ctrl_down")
     /\ UNCHANGED <<unread, kill>>
  \/ /\ port = "c" /\ ctrl
     /\ IF current_process # 0 THEN process_signal_kill ELSE UNCHANGED kill
     /\ UNCHANGED <<ctrl, unread>>
  \/ /\ port = "key" \/ (port = "c" /\ ~ctrl)
     /\ StoreKey
     /\ UNCHANGED <<ctrl, kill>>

KeyboardIRQ ==
  /\ Delivers(1)
  /\ KeyboardHandler
  /\ port' = None
  /\ in_service' = PIC_sendEOI(in_service \cup {1})
  /\ UNCHANGED <<pc, iflag, process, kernel, timer, torn>>

-----------------------------------------------------------------------------
Shell == ShellKey \/ ExecCommand \/ KeyboardFlush \/ SetCurrent
         \/ SetKernelStack \/ SaveEsp \/ EnterRing3
         \/ PrintReturned \/ ReportAndFree

Syscall == SysReadkey \/ SysWrite \/ Putchar \/ WriteDone \/ SysSleep
           \/ SleepDone \/ SysExit \/ ClearCurrent \/ Resume \/ Fault

Interrupt == TimerTick \/ TimerKill \/ KeyboardIRQ

Next == Shell \/ Syscall \/ Interrupt \/ PressKey

Spec == Init /\ [][Next]_vars

(* The processor executes the kernel's straight-line code, and the PIC      *)
(* delivers a raised line for as long as the flag lets it.  Nothing is      *)
(* assumed of the user, of the program, or of the length of a write.  The   *)
(* loop of timer_wait tests many times in a tick: a target that the count   *)
(* passes again and again is not missed every time.                         *)
KernelStep == KeyboardFlush \/ SetCurrent \/ SetKernelStack \/ SaveEsp
              \/ EnterRing3 \/ PrintReturned \/ ReportAndFree
              \/ ClearCurrent \/ Resume

Fairness == /\ WF_vars(KernelStep) /\ SF_vars(SleepDone)
            /\ WF_vars(TimerTick \/ TimerKill)
            /\ WF_vars(KeyboardIRQ)

FairSpec == Spec /\ Fairness

-----------------------------------------------------------------------------
Activations == 0 .. MaxRuns

TypeOK ==
  /\ pc \in Locations /\ iflag \in BOOLEAN
  /\ runs \in Activations /\ live \in {0, runs}
  /\ current_process \in Activations
  /\ kill_pending \in BOOLEAN /\ signalled \in Activations
  /\ esp0 \in Activations /\ saved_esp \in Activations
  /\ saved_regs \in Activations
  /\ exit_code \in Codes \cup {0, 1}
  /\ timer_ticks \in 0 .. Word - 1 /\ target \in 0 .. Word - 1
  /\ asked \in [ms : 0 .. Word - 1, from : 0 .. Word - 1]
  /\ torn \in BOOLEAN
  /\ port \in Scancodes \cup {None} /\ ctrl \in BOOLEAN
  /\ unread \in 0 .. MaxUnread
  /\ in_service \subseteq {0, 1}

(* While a program runs or one of its system calls does, everything that    *)
(* ends it is in place: the TSS names its kernel stack, the context to      *)
(* unwind to is the one its own process_run saved, and interrupts are on    *)
(* (no sleep of sys_sleep can hang, no Ctrl+C be ignored).                  *)
Ring3Ready ==
  pc \in User =>
    /\ live # 0 /\ live = runs
    /\ esp0 = live /\ saved_esp = live /\ saved_regs = live
    /\ iflag

(* current_process is NULL or the one allocated process_t: process_exit     *)
(* never writes the exit code into a process_t that cmd_exec has freed.     *)
CurrentIsLive == current_process # 0 => current_process = live

(* Back at the prompt nothing of the program is left: no process_t, no      *)
(* current_process for Ctrl+C to hit, no half-written terminal state.       *)
PromptClean ==
  pc = "shell" => live = 0 /\ current_process = 0 /\ ~torn

(* Between handlers no interrupt line waits for its acknowledgement: a kill *)
(* that abandons the timer interrupt does not silence the timer for good.   *)
LinesAcknowledged == in_service = {}

(* A Ctrl+C on a running program ends it (unless the machine stops first).  *)
KillTakesEffect ==
  (kill_pending /\ current_process # 0)
    ~> (current_process = 0 \/ pc \in Stopped)

(* sys_sleep returns, at the end of the counter's range as well: its busy-  *)
(* wait sees the ticks it waits for.                                        *)
SleepReturns == pc = "sleep" ~> pc # "sleep"

(* A sleep lasts what was asked for, less the part of a tick that rounding  *)
(* takes off, and no sleep but sleep(0) ends before a tick has come; unless *)
(* the product or the target did not fit in 32 bits.                        *)
Fits32 == /\ asked.ms * Frequency < Word
          /\ asked.from + (asked.ms * Frequency) \div Second + 1 < Word
SleepsLongEnough ==
  [][pc = "sleep" /\ pc' = "user" /\ Fits32 =>
       /\ (timer_ticks - asked.from + 1) * Second > asked.ms * Frequency
       /\ asked.ms > 0 => timer_ticks > asked.from]_vars

(* keyboard.c:49 "Ctrl+C - kill the running process", process.h:40 "on the  *)
(* next timer tick": the program a kill ends is the one that was running    *)
(* when Ctrl+C was pressed.                                                 *)
KillHitsPressedProcess ==
  [][kill_pending /\ ~kill_pending' => live = signalled]_vars

(* process.c:11: the context is "saved by enter_user_mode, restored by      *)
(* process_exit to unwind back to process_run's call site": ending a        *)
(* program always unwinds into the process_run that started it.             *)
UnwindsToCaller == pc # "lost"

(* A key pressed is eventually read from the controller by the handler, as  *)
(* an interactive shell (README.md:14) needs, unless the machine stops.     *)
KeysReachHandler == port # None ~> (port = None \/ pc \in Stopped)
=============================================================================
