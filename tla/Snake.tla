------------------------------- MODULE Snake --------------------------------
(* The snake game, the one user program that draws and reads keys itself.   *)
(* It shares nothing with the kernel but the ring that keys come from and   *)
(* the screen; keys arrive at any moment, also while it drains the ring.    *)
EXTENDS Integers, Sequences

CONSTANTS
  PW, PH,        \* width and height of the play area
  MAX_LEN,       \* elements of the array snake
  Text,          \* the cells that the words of the last screen cover
  MaxKeys,       \* bound: keys waiting in the ring
  MaxScore       \* bound: scores from here on are not told apart

ASSUME AreaAssumption == PW \in Nat /\ PW >= 4 /\ PH \in Nat /\ PH >= 1
ASSUME LengthAssumption == MAX_LEN \in Nat /\ 3 <= MAX_LEN /\ MAX_LEN < PW * PH
ASSUME BoundsAssumption == MaxKeys \in Nat /\ MaxScore \in Nat
                            /\ MaxScore > MAX_LEN - 3

PX == 1              \* left and top edge, inside the border
PY == 2
Cells == (PX .. PX + PW - 1) \X (PY .. PY + PH - 1)
ASSUME TextAssumption == Text \subseteq Cells

Nowhere == <<0, 0>>  \* what .bss holds
Keys == {"w", "a", "s", "d", "q", "other"}

VARIABLES
  snake,         \* the array: head first, elements from slen on unused
  slen,
  dir,           \* <<dx, dy>>
  food,
  score,
  cell,          \* what the play area shows
  keys,          \* the ring of the keyboard driver
  pc,
  turns          \* history: changes of direction since the last move

vars == <<snake, slen, dir, food, score, cell, keys, pc, turns>>

Used == 0 .. slen - 1
Body == {snake[i] : i \in Used}

(* Mutant: no look at the body.                                             *)
place_food_Anywhere(body) == Cells

(* place_food draws cells until one is no part of the snake; which one the  *)
(* generator comes to first is left open.                                   *)
place_food(body) == Cells \ body

Start == <<PX + PW \div 2, PY + PH \div 2>>
Init ==
  /\ slen = 3
  /\ snake = [i \in 0 .. MAX_LEN - 1 |->
                IF i < 3 THEN <<Start[1] - i, Start[2]>> ELSE Nowhere]
  /\ dir = <<1, 0>> /\ score = 0 /\ turns = 0
  /\ food \in place_food(Body)
  /\ cell = [c \in Cells |-> IF c \in Body THEN "#"
                             ELSE IF c = food THEN "*" ELSE " "]
  /\ keys = << >> /\ pc = "sleep"

-----------------------------------------------------------------------------
KeyPressed ==
  /\ pc # "exited" /\ Len(keys) < MaxKeys
  /\ \E k \in Keys : keys' = Append(keys, k)
  /\ UNCHANGED <<snake, slen, dir, food, score, cell, pc, turns>>

Wake ==
  /\ pc = "sleep"
  /\ pc' = "drain"
  /\ UNCHANGED <<snake, slen, dir, food, score, cell, keys, turns>>

(* Mutant: any direction is valid.                                          *)
Turned_AnyWay(k) ==
  CASE k = "w" -> <<0, -1>>
    [] k = "s" -> <<0, 1>>
    [] k = "a" -> <<-1, 0>>
    [] k = "d" -> <<1, 0>>
    [] OTHER -> dir

(* A direction is valid across the one of the moment, which an earlier key  *)
(* of the same drain may have set.                                          *)
Turned(k) ==
  CASE k = "w" /\ dir[2] = 0 -> <<0, -1>>
    [] k = "s" /\ dir[2] = 0 -> <<0, 1>>
    [] k = "a" /\ dir[1] = 0 -> <<-1, 0>>
    [] k = "d" /\ dir[1] = 0 -> <<1, 0>>
    [] OTHER -> dir

Drain ==
  /\ pc = "drain" /\ keys # << >>
  /\ keys' = Tail(keys)
  /\ \/ Head(keys) = "q" /\ pc' = "exited" /\ UNCHANGED <<dir, turns>>
     \/ /\ Head(keys) # "q" /\ pc' = pc
        /\ dir' = Turned(Head(keys))
        /\ turns' = IF dir' # dir /\ turns < 2 THEN turns + 1 ELSE turns
  /\ UNCHANGED <<snake, slen, food, score, cell>>

nh == <<snake[0][1] + dir[1], snake[0][2] + dir[2]>>
Wall == nh \notin Cells
(* Self collision skips the tail.                                           *)
Bites == \E i \in 0 .. slen - 2 : snake[i] = nh
ate == nh = food

Grown == IF ate /\ slen < MAX_LEN THEN slen + 1 ELSE slen
(* Mutant: the head is drawn before the tail is erased.                     *)
Drawn_TailLast == IF ate THEN [cell EXCEPT ![nh] = "#"]
                  ELSE [cell EXCEPT ![nh] = "#", ![snake[slen - 1]] = " "]

Drawn == IF ate THEN [cell EXCEPT ![nh] = "#"]
         ELSE [cell EXCEPT ![snake[slen - 1]] = " ", ![nh] = "#"]

(* The ring is empty: the snake grows, moves, is drawn, and what it ate is  *)
(* replaced.                                                                *)
Move ==
  /\ pc = "drain" /\ keys = << >>
  /\ ~Wall /\ ~Bites
  /\ slen' = Grown
  /\ snake' = [i \in 0 .. MAX_LEN - 1 |->
                IF i = 0 THEN nh ELSE IF i < Grown THEN snake[i - 1] ELSE snake[i]]
  /\ IF ate
     THEN /\ food' \in place_food({snake'[i] : i \in 0 .. Grown - 1})
          /\ score' = IF score < MaxScore THEN score + 1 ELSE score
          /\ cell' = [Drawn EXCEPT ![food'] = "*"]
     ELSE cell' = Drawn /\ UNCHANGED <<food, score>>
  /\ pc' = "sleep" /\ turns' = 0
  /\ UNCHANGED <<dir, keys>>

(* The words of the last screen are drawn over the play area.               *)
Die ==
  /\ pc = "drain" /\ keys = << >>
  /\ Wall \/ Bites
  /\ cell' = [c \in Cells |-> IF c \in Text THEN "text" ELSE cell[c]]
  /\ pc' = "over"
  /\ UNCHANGED <<snake, slen, dir, food, score, keys, turns>>

Over ==
  /\ pc = "over" /\ keys # << >>
  /\ keys' = Tail(keys)
  /\ pc' = IF Head(keys) = "q" THEN "exited" ELSE pc
  /\ UNCHANGED <<snake, slen, dir, food, score, cell, turns>>

Program == Wake \/ Drain \/ Move \/ Die \/ Over
Next == KeyPressed \/ Program

Spec == Init /\ [][Next]_vars

-----------------------------------------------------------------------------
TypeOK ==
  /\ snake \in [0 .. MAX_LEN - 1 -> Cells \cup {Nowhere}]
  /\ slen \in 3 .. MAX_LEN
  /\ dir \in {<<1, 0>>, <<-1, 0>>, <<0, 1>>, <<0, -1>>}
  /\ food \in Cells
  /\ score \in Nat
  /\ cell \in [Cells -> {" ", "#", "*", "text"}]
  /\ keys \in Seq(Keys)
  /\ pc \in {"sleep", "drain", "over", "exited"}
  /\ turns \in 0 .. 2

(* The snake is in the play area, no cell of it twice, and never where the  *)
(* food is: moving onto the tail, which the self-collision test skips, is   *)
(* safe because the tail stays only when food is eaten, and food is never   *)
(* on the tail.                                                             *)
SnakeIsWhole ==
  /\ \A i \in Used : snake[i] \in Cells /\ snake[i] # food
  /\ \A i, j \in Used : snake[i] = snake[j] => i = j

(* "last valid direction wins" (snake.c:175): a player who turns once       *)
(* between two moves is never sent back into the neck.  One who turns twice *)
(* can be.                                                                  *)
NoReversal == pc = "drain" /\ turns <= 1 => nh # snake[1]

(* While the game runs the screen shows the snake and the food, and nothing *)
(* else until food is eaten by a snake of MAX_LEN, whose tail is then left  *)
(* on the screen; once it is over, the same around the last words.          *)
Shows(area) ==
  /\ \A c \in Body \cap area : cell[c] = "#"
  /\ food \in area => cell[food] = "*"
  /\ score <= MAX_LEN - 3
       => \A c \in area \ (Body \cup {food}) : cell[c] = " "
ScreenShowsGame ==
  /\ pc \in {"sleep", "drain"} => Shows(Cells)
  /\ pc = "over" => Shows(Cells \ Text) /\ \A c \in Text : cell[c] = "text"

=============================================================================
