------------------------------ MODULE KeyQueue ------------------------------
(* What drivers/keyboard.c promises to the readers of the keyboard: a queue *)
(* of typed characters, in order, that keeps at most Capacity of them.      *)
(* The ring has no full check: the character that does not fit makes the    *)
(* ring look empty, so an overflow drops every unread character, the new    *)
(* one included, and a character a reader is about to fetch is overwritten. *)
(* A reader killed before its fetch leaves its character the oldest unread  *)
(* one again; when the queue has filled up meanwhile that is one too many,  *)
(* and everything is dropped.                                               *)
EXTENDS Naturals, Sequences

CONSTANTS Char,       \* the characters the scancode tables can produce
          Capacity    \* how many unread characters the ring can tell apart

VARIABLES queue,      \* the unread characters, oldest first
          taken       \* the set of at most one character a reader is fetching

vars == <<queue, taken>>

Full == Len(queue) = Capacity

Init == queue = <<>> /\ taken = {}

Arrive(c) ==
  /\ ~Full
  /\ queue' = Append(queue, c)
  /\ UNCHANGED taken

Overflow(c) ==
  /\ Full
  /\ queue' = <<>>
  /\ taken' = IF taken = {} THEN {} ELSE {c}

Take ==
  /\ taken = {}
  /\ queue # <<>>
  /\ taken' = {Head(queue)}
  /\ queue' = Tail(queue)

Deliver ==
  /\ taken # {}
  /\ taken' = {}
  /\ UNCHANGED queue

Abandon ==
  /\ \E c \in taken : queue' = IF Full THEN <<>> ELSE <<c>> \o queue
  /\ taken' = {}

Flush ==
  /\ taken = {}
  /\ queue' = <<>>
  /\ UNCHANGED taken

Next == \/ \E c \in Char : Arrive(c) \/ Overflow(c)
        \/ Take
        \/ Deliver
        \/ Abandon
        \/ Flush

Spec == Init /\ [][Next]_vars
=============================================================================
