------------------------------ MODULE Keyboard ------------------------------
(* drivers/keyboard.c: the PS/2 interrupt handler with its modifier flags,  *)
(* and the ring it shares, without a lock, with keyboard_getchar and        *)
(* keyboard_flush.  The handler runs with interrupts off, so it is one      *)
(* step; the readers run with interrupts on, so each of their loads and     *)
(* stores of the shared indices is a step of its own.                       *)
EXTENDS Naturals, Sequences

CONSTANTS BufSize,    \* slots of key_buffer (256 in the code, = 2^8)
          MaxTyped    \* bound: characters stored in a behaviour

ASSUME BufSizeAssumption == BufSize \in Nat /\ BufSize >= 2
ASSUME MaxTypedAssumption == MaxTyped \in Nat

VARIABLES key_buffer, buf_head, buf_tail,   \* the ring
          shift, ctrl, caps,                \* the handler's modifier flags
          held,            \* the modifier keys that are physically down
          typed,           \* characters stored so far: numbers the presses
          pc,              \* where the reader is: idle, fetch or flush
          at,              \* the buf_tail that keyboard_flush has loaded
          last,            \* the character last returned by keyboard_getchar
          running,         \* current_process is set (kernel/process.c)
          kill_pending     \* set by Ctrl+C, taken by the timer tick

ring == <<key_buffer, buf_head, buf_tail>>
modifiers == <<shift, ctrl, caps, held>>
reader == <<pc, at, last>>
process == <<running, kill_pending>>
vars == <<ring, modifiers, typed, reader, process>>

Index == 0 .. BufSize - 1

(* A stored byte is known by the press that stored it and by which table    *)
(* or case conversion produced it.                                          *)
Char == [press : 0 .. MaxTyped, upper : BOOLEAN]
Zero == [press |-> 0, upper |-> FALSE]

ShiftKeys == {"lshift", "rshift"}
CtrlKeys == {"lctrl", "rctrl"}       \* both are 0x1D: 0xE0 is ignored
Modifiers == ShiftKeys \cup CtrlKeys

(* The other keys, by what the tables make of them: "c" is scancode 0x2E,   *)
(* "backspace" has a character only unshifted, "dead" never has one.        *)
Keys == {"letter", "c", "digit", "backspace", "dead"}
Letters == {"letter", "c"}

HasChar(k) == k # "dead" /\ ~(k = "backspace" /\ shift)
Upper(k) == shift \/ (caps /\ k \in Letters)

(* buf_head and buf_tail are uint8_t: the increment wraps at the ring size. *)
Inc(i) == IF i = BufSize - 1 THEN 0 ELSE i + 1

Init ==
  /\ key_buffer = [i \in Index |-> Zero]
  /\ buf_head = 0 /\ buf_tail = 0
  /\ shift = FALSE /\ ctrl = FALSE /\ caps = FALSE
  /\ held = {}
  /\ typed = 0
  /\ pc = "idle" /\ at = 0 /\ last = Zero
  /\ running = FALSE /\ kill_pending = FALSE

-----------------------------------------------------------------------------
(* keyboard_handler, one action per scancode class.                         *)

(* Mutant: the 0x9D line is missing.                                        *)
ReleaseModifier_CtrlKept(k) ==
  /\ k \in held
  /\ held' = held \ {k}
  /\ shift' = IF k \in ShiftKeys THEN FALSE ELSE shift
  /\ UNCHANGED <<ctrl, caps, ring, typed, reader, process>>

ReleaseModifier(k) ==
  /\ k \in held
  /\ held' = held \ {k}
  /\ shift' = IF k \in ShiftKeys THEN FALSE ELSE shift
  /\ ctrl' = IF k \in CtrlKeys THEN FALSE ELSE ctrl
  /\ UNCHANGED <<caps, ring, typed, reader, process>>

PressModifier(k) ==
  /\ held' = held \cup {k}
  /\ shift' = (shift \/ k \in ShiftKeys)
  /\ ctrl' = (ctrl \/ k \in CtrlKeys)
  /\ UNCHANGED <<caps, ring, typed, reader, process>>

PressCapsLock ==
  /\ caps' = ~caps
  /\ UNCHANGED <<shift, ctrl, held, ring, typed, reader, process>>

PressCtrlC ==
  /\ ctrl
  /\ kill_pending' = (kill_pending \/ running)
  /\ UNCHANGED <<running, modifiers, ring, typed, reader>>

StoreKey(c) ==
  /\ key_buffer' = [key_buffer EXCEPT ![buf_tail] = c]
  /\ buf_tail' = Inc(buf_tail)

PressKey(k) ==
  /\ ~(ctrl /\ k = "c")
  /\ HasChar(k)
  /\ typed < MaxTyped
  /\ StoreKey([press |-> typed + 1, upper |-> Upper(k)])
  /\ typed' = typed + 1
  /\ UNCHANGED <<buf_head, modifiers, reader, process>>

keyboard_handler ==
  \/ \E k \in Modifiers : PressModifier(k) \/ ReleaseModifier(k)
  \/ PressCapsLock
  \/ PressCtrlC
  \/ \E k \in Keys : PressKey(k)

-----------------------------------------------------------------------------
(* keyboard_getchar: the empty test and the fetch are two accesses.         *)

(* Mutant: the empty test is missing.                                       *)
GetcharCheck_Untested ==
  /\ pc = "idle"
  /\ pc' = "fetch"
  /\ UNCHANGED <<ring, modifiers, typed, at, last, process>>

GetcharCheck ==
  /\ pc = "idle"
  /\ buf_head # buf_tail
  /\ pc' = "fetch"
  /\ UNCHANGED <<ring, modifiers, typed, at, last, process>>

GetcharFetch ==
  /\ pc = "fetch"
  /\ last' = key_buffer[buf_head]
  /\ buf_head' = Inc(buf_head)
  /\ pc' = "idle"
  /\ UNCHANGED <<key_buffer, buf_tail, modifiers, typed, at, process>>

(* keyboard_flush: buf_tail is loaded, then stored into buf_head.  cmd_exec *)
(* calls it just before process_run.                                        *)
FlushLoad ==
  /\ ~running
  /\ pc = "idle"
  /\ at' = buf_tail
  /\ pc' = "flush"
  /\ UNCHANGED <<ring, modifiers, typed, last, process>>

(* Mutant: the flush resets the reader's index instead of catching up.      *)
FlushStore_ToZero ==
  /\ pc = "flush"
  /\ buf_head' = 0
  /\ pc' = "idle"
  /\ at' = 0
  /\ UNCHANGED <<key_buffer, buf_tail, modifiers, typed, last, process>>

FlushStore ==
  /\ pc = "flush"
  /\ buf_head' = at
  /\ pc' = "idle"
  /\ at' = 0                      \* the register is dead after the store
  /\ UNCHANGED <<key_buffer, buf_tail, modifiers, typed, last, process>>

-----------------------------------------------------------------------------
(* The rest of the kernel, as far as the handler and the readers see it.    *)
(* The shell reads and flushes while no process is current; between         *)
(* process_run and the end of the program only the program reads, in        *)
(* SYS_READKEY.  Exec.tla has these steps in full.                          *)
process_run ==
  /\ ~running
  /\ pc = "idle"
  /\ running' = TRUE
  /\ UNCHANGED <<kill_pending, ring, modifiers, typed, reader>>

process_exit ==
  /\ running
  /\ pc = "idle"
  /\ running' = FALSE
  /\ UNCHANGED <<kill_pending, ring, modifiers, typed, reader>>

(* The tick interrupts the program anywhere, also inside SYS_READKEY: a     *)
(* reader between its test and its fetch is abandoned there, and its        *)
(* character is still in the ring.                                          *)
process_check_kill ==
  /\ running
  /\ kill_pending
  /\ running' = FALSE
  /\ kill_pending' = FALSE
  /\ pc' = "idle"
  /\ UNCHANGED <<ring, modifiers, typed, at, last>>

Next == \/ keyboard_handler
        \/ GetcharCheck \/ GetcharFetch
        \/ FlushLoad \/ FlushStore
        \/ process_run \/ process_exit \/ process_check_kill

Spec == Init /\ [][Next]_vars

-----------------------------------------------------------------------------
(* The queue the ring stands for.  A reader between its two accesses has    *)
(* already taken its character: the queue then starts one slot further, or  *)
(* where keyboard_flush will put buf_head.                                  *)

First == CASE pc = "fetch" -> Inc(buf_head)
           [] pc = "flush" -> at
           [] OTHER -> buf_head
Unread == IF First <= buf_tail THEN buf_tail - First
                               ELSE buf_tail - First + BufSize
Slot(i) == IF First + i - 1 < BufSize THEN First + i - 1
                                      ELSE First + i - 1 - BufSize
Contents == [i \in 1 .. Unread |-> key_buffer[Slot(i)]]
Taken == IF pc = "fetch" THEN {key_buffer[buf_head]} ELSE {}

Queue == INSTANCE KeyQueue
           WITH queue <- Contents, taken <- Taken, Capacity <- BufSize - 1

TypeOK ==
  /\ key_buffer \in [Index -> Char]
  /\ buf_head \in Index /\ buf_tail \in Index
  /\ shift \in BOOLEAN /\ ctrl \in BOOLEAN /\ caps \in BOOLEAN
  /\ held \subseteq Modifiers
  /\ typed \in 0 .. MaxTyped
  /\ pc \in {"idle", "fetch", "flush"} /\ at \in Index /\ last \in Char
  /\ running \in BOOLEAN /\ kill_pending \in BOOLEAN
  /\ pc = "flush" => ~running

(* The unlocked ring of keyboard_handler, keyboard_getchar and              *)
(* keyboard_flush is a queue of BufSize - 1 characters: nothing is lost,    *)
(* duplicated or made up before the ring overflows, an overflow leaves an   *)
(* empty queue, and a reader abandoned by a kill gives its character back,  *)
(* which overflows a ring that filled up meanwhile.                         *)
ImplementsQueue == Queue!Spec

(* keyboard_getchar never returns a byte it returned before, nor an older   *)
(* one: whatever the interleaving with the handler, however often the ring  *)
(* overflows and wherever a kill abandons a reader, no stale slot of        *)
(* key_buffer is read again.                                                *)
ReadsInOrder == [][last' # last => last'.press > last.press]_vars

(* The handler's shift and ctrl flags never outlive the keys: with both     *)
(* keys of a kind up, the flag is clear, so no later key is shifted or      *)
(* taken for Ctrl+C by mistake.                                             *)
NoStickyModifier ==
  /\ shift => held \cap ShiftKeys # {}
  /\ ctrl => held \cap CtrlKeys # {}

(* Ctrl+C asks for a kill only when a control key is really down and a      *)
(* process is current: at the prompt it is swallowed.                       *)
KillNeedsCtrlAndProcess ==
  [][kill_pending' /\ ~kill_pending
       => running /\ held \cap CtrlKeys # {}]_vars
=============================================================================
