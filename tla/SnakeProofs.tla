---------------------------- MODULE SnakeProofs -----------------------------
(* The snake is whole, is not sent back by one turn, and the screen shows   *)
(* it, on a play area of any size and for an array of any length.           *)
EXTENDS Snake, TLAPS

(* What is needed of the array: below slen there are cells.                 *)
Typed ==
  /\ snake \in [0 .. MAX_LEN - 1 -> Cells \cup {Nowhere}]
  /\ slen \in 3 .. MAX_LEN
  /\ dir \in {<<1, 0>>, <<-1, 0>>, <<0, 1>>, <<0, -1>>}
  /\ food \in Cells
  /\ score \in Nat
  /\ cell \in [Cells -> {" ", "#", "*", "text"}]
  /\ turns \in 0 .. 2
  /\ pc \in {"sleep", "drain", "over", "exited"}

(* Until a turn the snake goes on as it came: the head is where the neck    *)
(* was sent; after one turn it is not sent into the neck.                   *)
Heading ==
  /\ turns = 0 => snake[0] = <<snake[1][1] + dir[1], snake[1][2] + dir[2]>>
  /\ turns <= 1 => nh # snake[1]

(* Until MAX_LEN is reached every meal has made the snake longer.           *)
Fed == score <= MAX_LEN - 3 => slen = score + 3

(* What Shows says of the whole play area: the snake never leaves it.       *)
Shown ==
  /\ \A c \in Body : cell[c] = "#"
  /\ cell[food] = "*"
  /\ score <= MAX_LEN - 3 => \A c \in Cells \ (Body \cup {food}) : cell[c] = " "

IInv == Typed /\ SnakeIsWhole /\ Heading /\ Fed /\ ScreenShowsGame

(* The constants, without the area's size, which only TLC needs.            *)
LEMMA Sizes ==
  /\ PW \in Nat /\ PW >= 4 /\ PH \in Nat /\ PH >= 1
  /\ MAX_LEN \in Nat /\ MAX_LEN >= 3
  /\ MaxScore \in Nat /\ MaxScore > MAX_LEN - 3
<1>1. MAX_LEN \in Nat /\ MAX_LEN >= 3
  <2>1. MAX_LEN \in Nat /\ 3 <= MAX_LEN
    BY LengthAssumption, Zenon
  <2> QED BY <2>1
<1> QED BY <1>1, AreaAssumption, BoundsAssumption

(* A cell is a pair of integers.                                            *)
LEMMA CellPairs ==
  ASSUME NEW c \in Cells
  PROVE  c = <<c[1], c[2]>> /\ c[1] \in Int /\ c[2] \in Int
BY Sizes DEF Cells, PX, PY

LEMMA Playing ==
  /\ Typed /\ SnakeIsWhole => (Shows(Cells) <=> Shown)
  /\ pc \in {"sleep", "drain"} => pc # "over"
<1>1. Typed /\ SnakeIsWhole => Body \subseteq Cells /\ food \in Cells
  BY Zenon DEF Typed, SnakeIsWhole, Body
<1>2. Body \subseteq Cells => Body \cap Cells = Body
  OBVIOUS
<1>3. Typed /\ SnakeIsWhole => (Shows(Cells) <=> Shown)
  BY <1>1, <1>2, Zenon DEF Shows, Shown
<1>4. "over" \notin {"sleep", "drain"}
  OBVIOUS
<1> QED BY <1>3, <1>4, Zenon

LEMMA Initially == ASSUME Init PROVE IInv
<1>a. slen = 3 /\ score = 0 /\ turns = 0
  BY Zenon DEF Init
<1>b. dir = <<1, 0>> /\ pc = "sleep"
  BY Zenon DEF Init
<1>c. cell = [c \in Cells |-> IF c \in Body THEN "#"
                              ELSE IF c = food THEN "*" ELSE " "]
  BY Zenon DEF Init
<1>1. slen = 3 /\ Used = 0 .. 2
  BY <1>a, SMT DEF Used
<1>2. /\ Start[1] \in Int /\ Start[1] >= 3 /\ Start[1] <= PW
      /\ Start[2] \in Int /\ Start[2] >= 2 /\ Start[2] <= PH + 1
  BY Sizes DEF Start, PX, PY
<1>3. \A i \in 0 .. 2 : snake[i] = <<Start[1] - i, Start[2]>>
  <2>1. snake = [i \in 0 .. MAX_LEN - 1 |->
                  IF i < 3 THEN <<Start[1] - i, Start[2]>> ELSE Nowhere]
    BY DEF Init
  <2>2. \A i \in 0 .. 2 : i \in 0 .. MAX_LEN - 1 /\ i < 3
    BY Sizes
  <2> QED BY <2>1, <2>2
<1>4. \A i \in 0 .. 2 : <<Start[1] - i, Start[2]>> \in Cells
  BY <1>2, Sizes DEF Cells, PX, PY
<1>5. food \in Cells /\ food \notin Body
  BY DEF Init, place_food
<1>6. Typed
  <2>1. snake \in [0 .. MAX_LEN - 1 -> Cells \cup {Nowhere}]
    <3>1. \A i \in 0 .. MAX_LEN - 1 : i < 3 => i \in 0 .. 2
      BY Sizes
    <3>2. \A i \in 0 .. MAX_LEN - 1 :
            i < 3 => <<Start[1] - i, Start[2]>> \in Cells
      BY <1>4, <3>1
    <3> QED BY <3>2 DEF Init
  <2>2. cell \in [Cells -> {" ", "#", "*", "text"}]
    BY <1>c
  <2>3. slen \in 3 .. MAX_LEN /\ score \in Nat /\ turns \in 0 .. 2
    BY <1>a, Sizes
  <2> QED BY <1>b, <1>5, <2>1, <2>2, <2>3 DEF Typed
<1>7. SnakeIsWhole
  <2>1. \A i \in Used : snake[i] \in Cells /\ snake[i] # food
    BY <1>1, <1>3, <1>4, <1>5 DEF Body
  <2>2. \A i, j \in Used : snake[i] = snake[j] => i = j
    BY <1>1, <1>2, <1>3
  <2> QED BY <2>1, <2>2 DEF SnakeIsWhole
<1>8. Heading
  <2>1. snake[0] = <<Start[1], Start[2]>> /\ snake[1] = <<Start[1] - 1, Start[2]>>
    BY <1>2, <1>3
  <2>2. turns = 0 /\ dir[1] = 1 /\ dir[2] = 0
    BY <1>a, <1>b
  <2>3. snake[0][1] = snake[1][1] + 1 /\ snake[0][2] = snake[1][2] + 0
    BY <1>2, <2>1
  <2>4. snake[0] = <<snake[1][1] + dir[1], snake[1][2] + dir[2]>>
    BY <1>2, <2>1, <2>2
  <2>5. nh = <<Start[1] + 1, Start[2] + 0>>
    BY <2>1, <2>2 DEF nh
  <2>6. nh # snake[1]
    BY <1>2, <2>1, <2>5
  <2> QED BY <2>4, <2>6 DEF Heading
<1>9. Fed
  BY <1>a, SMT DEF Fed
<1>10. Shown
  <2>1. Body \subseteq Cells
    BY <1>1, <1>3, <1>4 DEF Body
  <2> QED BY <1>c, <1>5, <2>1, Zenon DEF Shown
<1>11. ScreenShowsGame
  BY <1>b, <1>6, <1>7, <1>10, Playing, Zenon DEF ScreenShowsGame
<1> QED BY <1>6, <1>7, <1>8, <1>9, <1>11 DEF IInv

(* A key turns the snake across its direction, or leaves it.                *)
LEMMA TurnsAcross ==
  ASSUME NEW k, Typed
  PROVE  /\ Turned(k) \in {<<1, 0>>, <<-1, 0>>, <<0, 1>>, <<0, -1>>}
         /\ Turned(k) # dir => Turned(k) # <<0 - dir[1], 0 - dir[2]>>
<1>1. \/ dir = <<1, 0>> /\ dir[1] = 1 /\ dir[2] = 0
      \/ dir = <<-1, 0>> /\ dir[1] = -1 /\ dir[2] = 0
      \/ dir = <<0, 1>> /\ dir[1] = 0 /\ dir[2] = 1
      \/ dir = <<0, -1>> /\ dir[1] = 0 /\ dir[2] = -1
  <2>1. dir = <<1, 0>> \/ dir = <<-1, 0>> \/ dir = <<0, 1>> \/ dir = <<0, -1>>
    BY Zenon DEF Typed
  <2> QED BY <2>1
<1>2. \/ Turned(k) = dir
      \/ dir[2] = 0 /\ Turned(k) \in {<<0, -1>>, <<0, 1>>}
      \/ dir[1] = 0 /\ Turned(k) \in {<<-1, 0>>, <<1, 0>>}
  BY DEF Turned
<1> QED BY <1>1, <1>2

LEMMA DrainKeeps ==
  ASSUME IInv, Drain PROVE IInv'
<1>1. UNCHANGED <<snake, slen, food, score, cell>>
  BY Zenon DEF Drain
<1>2. 0 \in Used /\ 1 \in Used /\ snake[0] \in Cells /\ snake[1] \in Cells
  <2>1. slen \in 3 .. MAX_LEN
    BY Zenon DEF IInv, Typed
  <2>2. 0 \in Used /\ 1 \in Used
    BY <2>1, Sizes, SMT DEF Used
  <2> QED BY <2>2, Zenon DEF IInv, SnakeIsWhole
<1>3. /\ snake[0] = <<snake[0][1], snake[0][2]>> /\ snake[0][1] \in Int /\ snake[0][2] \in Int
      /\ snake[1] = <<snake[1][1], snake[1][2]>> /\ snake[1][1] \in Int /\ snake[1][2] \in Int
  BY <1>2, CellPairs
<1>4. SnakeIsWhole' /\ Fed' /\ ScreenShowsGame'
  <2>1. SnakeIsWhole'
    BY <1>1, Zenon DEF IInv, SnakeIsWhole, Used
  <2>2. Fed' /\ ScreenShowsGame'
    <3>1. Fed' /\ Used' = Used /\ Body' = Body
      BY <1>1, Zenon DEF IInv, Fed, Used, Body
    <3>2. pc = "drain" /\ (pc' = "drain" \/ pc' = "exited")
      BY Zenon DEF Drain
    <3>3. Shows(Cells)
      BY <3>2, Zenon DEF IInv, ScreenShowsGame
    <3>4. Shows(Cells)'
      BY <1>1, <3>1, <3>3, Zenon DEF Shows
    <3>5. pc' # "over"
      BY <3>2
    <3> QED BY <3>1, <3>4, <3>5, Zenon DEF ScreenShowsGame
  <2> QED BY <2>1, <2>2
<1>5. Typed' /\ Heading'
  <2>1. CASE Head(keys) = "q" /\ UNCHANGED <<dir, turns>>
    BY <1>1, <2>1 DEF IInv, Typed, Heading, nh, Drain
  <2>2. CASE dir' = dir /\ turns' = turns
    BY <1>1, <2>2 DEF IInv, Typed, Heading, nh, Drain
  <2>3. CASE /\ dir' = Turned(Head(keys)) /\ dir' # dir
             /\ turns' = IF turns < 2 THEN turns + 1 ELSE turns
    <3>1. /\ dir' \in {<<1, 0>>, <<-1, 0>>, <<0, 1>>, <<0, -1>>}
          /\ dir' # <<0 - dir[1], 0 - dir[2]>>
      BY <2>3, TurnsAcross DEF IInv
    <3>2. turns \in 0 .. 2 /\ turns' \in 1 .. 2
      <4>1. turns \in 0 .. 2
        BY Zenon DEF IInv, Typed
      <4> QED BY <2>3, <4>1, SMT
    <3>3. Typed'
      <4>1. turns' \in 0 .. 2
        BY <3>2, SMT
      <4>2. pc' \in {"sleep", "drain", "over", "exited"}
        BY Zenon DEF Drain
      <4> QED BY <1>1, <3>1, <4>1, <4>2, Zenon DEF IInv, Typed
    <3>4. ASSUME turns' <= 1
          PROVE  nh' # snake'[1]
      <4>1. turns = 0
        BY <2>3, <3>2, <3>4
      <4>2. snake[0] = <<snake[1][1] + dir[1], snake[1][2] + dir[2]>>
        BY <4>1 DEF IInv, Heading
      <4>3. /\ snake[0][1] = snake[1][1] + dir[1]
            /\ snake[0][2] = snake[1][2] + dir[2]
        BY <4>2
      <4>4. dir \in {<<1, 0>>, <<-1, 0>>, <<0, 1>>, <<0, -1>>}
        BY DEF IInv, Typed
      <4>5. nh' = <<snake[0][1] + dir'[1], snake[0][2] + dir'[2]>>
        BY <1>1 DEF nh
      <4> QED BY <1>1, <1>3, <3>1, <4>3, <4>4, <4>5
    <3> QED BY <3>2, <3>3, <3>4 DEF Heading
  <2>4. \/ Head(keys) = "q" /\ UNCHANGED <<dir, turns>>
        \/ /\ dir' = Turned(Head(keys))
           /\ turns' = IF dir' # dir /\ turns < 2 THEN turns + 1 ELSE turns
    BY DEF Drain
  <2> QED BY <2>1, <2>2, <2>3, <2>4
<1> QED BY <1>4, <1>5 DEF IInv

(* The body after a move: the head, and what was below the new length less  *)
(* one.                                                                     *)
LEMMA Shifted ==
  ASSUME IInv, Move
  PROVE  /\ slen' = Grown /\ Grown \in 3 .. MAX_LEN /\ slen \in 3 .. MAX_LEN
         /\ Grown = slen \/ (Grown = slen + 1 /\ ate)
         /\ snake' \in [0 .. MAX_LEN - 1 -> Cells \cup {Nowhere}]
         /\ snake'[0] = nh /\ nh \in Cells
         /\ \A i \in 1 .. Grown - 1 : snake'[i] = snake[i - 1] /\ i - 1 \in Used
<1>1. /\ slen' = Grown /\ ~Wall
      /\ snake' = [i \in 0 .. MAX_LEN - 1 |->
                IF i = 0 THEN nh ELSE IF i < Grown THEN snake[i - 1] ELSE snake[i]]
  BY Zenon DEF Move
<1>2. /\ slen \in 3 .. MAX_LEN
      /\ snake \in [0 .. MAX_LEN - 1 -> Cells \cup {Nowhere}]
  BY Zenon DEF IInv, Typed
<1>3. Grown \in 3 .. MAX_LEN /\ (Grown = slen \/ (Grown = slen + 1 /\ ate))
  <2>1. CASE ate /\ slen < MAX_LEN
    <3>1. Grown = slen + 1
      BY <2>1, Zenon DEF Grown
    <3> QED BY <1>2, <2>1, <3>1, Sizes
  <2>2. CASE ~(ate /\ slen < MAX_LEN)
    <3>1. Grown = slen
      BY <2>2, Zenon DEF Grown
    <3> QED BY <1>2, <3>1, Sizes
  <2> QED BY <2>1, <2>2
<1>4. nh \in Cells
  BY <1>1, Zenon DEF Wall
<1>5. snake'[0] = nh
  <2>1. 0 \in 0 .. MAX_LEN - 1
    BY Sizes
  <2> QED BY <1>1, <2>1
<1>6. ASSUME NEW i \in 1 .. Grown - 1
      PROVE  snake'[i] = snake[i - 1] /\ i - 1 \in Used
  <2>1. i \in 0 .. MAX_LEN - 1 /\ i # 0 /\ i < Grown
    BY <1>3, Sizes
  <2>2. i - 1 \in Used
    BY <1>2, <1>3, SMT DEF Used
  <2> QED BY <1>1, <2>1, <2>2
<1>7. snake' \in [0 .. MAX_LEN - 1 -> Cells \cup {Nowhere}]
  <2>1. ASSUME NEW i \in 0 .. MAX_LEN - 1, i # 0
        PROVE  snake[i - 1] \in Cells \cup {Nowhere}
    <3>1. i - 1 \in 0 .. MAX_LEN - 1
      BY <2>1, Sizes
    <3> QED BY <1>2, <3>1
  <2> QED BY <1>1, <1>2, <1>4, <2>1
<1> QED BY <1>1, <1>2, <1>3, <1>4, <1>5, <1>6, <1>7

(* What a move does to the food, the score and the screen.                  *)
LEMMA Eaten ==
  ASSUME IInv, Move, ate
  PROVE  /\ food' \in Cells /\ \A i \in Used' : snake'[i] # food'
         /\ score' = IF score < MaxScore THEN score + 1 ELSE score
         /\ cell' = [[cell EXCEPT ![nh] = "#"] EXCEPT ![food'] = "*"]
<1>1. /\ food' \in Cells \ {snake'[i] : i \in 0 .. Grown - 1} /\ slen' = Grown
      /\ score' = IF score < MaxScore THEN score + 1 ELSE score
      /\ cell' = [[cell EXCEPT ![nh] = "#"] EXCEPT ![food'] = "*"]
  BY Zenon DEF Move, place_food, Drawn
<1> QED BY <1>1, Zenon DEF Used

LEMMA NotEaten ==
  ASSUME IInv, Move, ~ate
  PROVE  /\ food' = food /\ score' = score /\ Grown = slen
         /\ cell' = [cell EXCEPT ![snake[slen - 1]] = " ", ![nh] = "#"]
BY Zenon DEF Move, Drawn, Grown

LEMMA MoveWhole == ASSUME IInv, Move PROVE SnakeIsWhole'
<1>1. \A i \in 0 .. slen - 2 : snake[i] # nh
  BY Zenon DEF Move, Bites
<1>2. /\ \A i \in Used : snake[i] \in Cells /\ snake[i] # food
      /\ \A i, j \in Used : snake[i] = snake[j] => i = j
  BY Zenon DEF IInv, SnakeIsWhole
<1>3. Used' = 0 .. Grown - 1
  BY Shifted, Zenon DEF Used
<1>4. \A i \in Used' : i = 0 \/ i \in 1 .. Grown - 1
  BY <1>3, Shifted
<1>5. \A i \in Used' : snake'[i] \in Cells
  BY <1>2, <1>4, Shifted, Zenon
<1>6. \A i \in Used' : snake'[i] # food'
  <2>1. CASE ate
    BY <2>1, Eaten, Zenon
  <2>2. CASE ~ate
    <3>1. food' = food /\ nh # food
      BY <2>2, NotEaten, Zenon DEF ate
    <3> QED BY <1>2, <1>4, <3>1, Shifted, Zenon
  <2> QED BY <2>1, <2>2
<1>7. ASSUME NEW j \in 1 .. Grown - 1 PROVE snake'[j] # nh
  <2>1. snake'[j] = snake[j - 1] /\ j - 1 \in Used
    BY Shifted, Zenon
  <2>2. CASE ate
    BY <1>2, <2>1, <2>2, Zenon DEF ate
  <2>3. CASE ~ate
    <3>1. Grown = slen /\ slen \in 3 .. MAX_LEN
      BY <2>3, NotEaten, Shifted, Zenon
    <3>2. j - 1 \in 0 .. slen - 2
      BY <3>1, Sizes
    <3> QED BY <1>1, <2>1, <3>2, Zenon
  <2> QED BY <2>2, <2>3
<1>8. ASSUME NEW i \in Used', NEW j \in Used', snake'[i] = snake'[j]
      PROVE  i = j
  <2>1. CASE i = 0 \/ j = 0
    BY <1>4, <1>7, <1>8, <2>1, Shifted, Zenon
  <2>2. CASE i \in 1 .. Grown - 1 /\ j \in 1 .. Grown - 1
    <3>1. snake[i - 1] = snake[j - 1] /\ i - 1 \in Used /\ j - 1 \in Used
      BY <1>8, <2>2, Shifted, Zenon
    <3>2. i - 1 = j - 1
      BY <1>2, <3>1, Zenon
    <3> QED BY <2>2, <3>2, Shifted, SMT
  <2> QED BY <1>4, <2>1, <2>2
<1> QED BY <1>5, <1>6, <1>8, Zenon DEF SnakeIsWhole

LEMMA MoveHeading == ASSUME IInv, Move PROVE Heading'
<1>1. dir' = dir /\ turns' = 0
  BY Zenon DEF Move
<1>2. 1 \in 1 .. Grown - 1 /\ 1 - 1 = 0
  BY Shifted, Sizes
<1>3. snake'[0] = nh /\ nh \in Cells /\ snake'[1] = snake[1 - 1]
  BY <1>2, Shifted, Zenon
<1>4. snake'[1] = snake[0] /\ snake[0] \in Cells
  <2>1. 0 \in Used
    BY Shifted, Sizes DEF Used
  <2> QED BY <1>2, <1>3, <2>1, Zenon DEF IInv, SnakeIsWhole
<1>5. nh = <<snake[0][1] + dir[1], snake[0][2] + dir[2]>>
  BY DEF nh
<1>6. /\ snake[0] = <<snake[0][1], snake[0][2]>>
      /\ snake[0][1] \in Int /\ snake[0][2] \in Int
  BY <1>4, CellPairs
<1>7. snake'[0] = <<snake'[1][1] + dir'[1], snake'[1][2] + dir'[2]>>
  BY <1>1, <1>3, <1>4, <1>5, Zenon
<1>8. nh' = <<nh[1] + dir[1], nh[2] + dir[2]>>
  BY <1>1, <1>3, Zenon DEF nh
<1>9. nh' # snake'[1]
  <2>1. dir \in {<<1, 0>>, <<-1, 0>>, <<0, 1>>, <<0, -1>>}
    BY Zenon DEF IInv, Typed
  <2>2. nh[1] = snake[0][1] + dir[1] /\ nh[2] = snake[0][2] + dir[2]
    BY <1>5
  <2> QED BY <1>4, <1>6, <1>8, <2>1, <2>2
<1> QED BY <1>7, <1>9, Zenon DEF Heading

LEMMA MoveFed == ASSUME IInv, Move PROVE Fed' /\ score' \in Nat
<1>1. score \in Nat /\ (score <= MAX_LEN - 3 => slen = score + 3)
  BY Zenon DEF IInv, Typed, Fed
<1>2. slen' = Grown /\ slen \in 3 .. MAX_LEN
  BY Shifted, Zenon
<1>3. CASE ate
  <2>1. score' = IF score < MaxScore THEN score + 1 ELSE score
    BY <1>3, Eaten, Zenon
  <2>2. score' \in Nat
    BY <1>1, <2>1, Sizes
  <2>3. ASSUME score' <= MAX_LEN - 3
        PROVE  slen' = score' + 3
    <3>1. score' = score + 1 /\ slen = score + 3 /\ slen < MAX_LEN
      BY <1>1, <2>1, <2>3, Sizes
    <3>2. Grown = slen + 1
      BY <1>3, <3>1, Zenon DEF Grown
    <3> QED BY <1>1, <1>2, <3>1, <3>2
  <2> QED BY <2>2, <2>3, Zenon DEF Fed
<1>4. CASE ~ate
  <2>1. score' = score /\ slen' = slen
    BY <1>2, <1>4, NotEaten, Zenon
  <2> QED BY <1>1, <2>1, Zenon DEF Fed
<1> QED BY <1>3, <1>4

(* The body after the move, cell by cell.                                   *)
LEMMA NewBody ==
  ASSUME IInv, Move
  PROVE  /\ \A c \in Body' : c = nh \/ (\E i \in 0 .. Grown - 2 : i \in Used /\ c = snake[i])
         /\ nh \in Body' /\ \A i \in 0 .. Grown - 2 : snake[i] \in Body'
         /\ Body \subseteq Cells /\ food \notin Body
<1>1. Used' = 0 .. Grown - 1 /\ Body' = {snake'[i] : i \in 0 .. Grown - 1}
  BY Shifted, Zenon DEF Used, Body
<1>2. ASSUME NEW c \in Body'
      PROVE  c = nh \/ (\E i \in 0 .. Grown - 2 : i \in Used /\ c = snake[i])
  <2>1. PICK i \in 0 .. Grown - 1 : c = snake'[i]
    BY <1>1, <1>2, Zenon
  <2>2. CASE i = 0
    BY <2>1, <2>2, Shifted, Zenon
  <2>3. CASE i # 0
    <3>1. i \in 1 .. Grown - 1 /\ i - 1 \in 0 .. Grown - 2
      BY <2>3, Shifted
    <3> QED BY <2>1, <3>1, Shifted, Zenon
  <2> QED BY <2>2, <2>3
<1>3. nh \in Body'
  <2>1. 0 \in 0 .. Grown - 1
    BY Shifted, Sizes
  <2> QED BY <1>1, <2>1, Shifted, Zenon
<1>4. ASSUME NEW i \in 0 .. Grown - 2
      PROVE  snake[i] \in Body'
  <2>1. i + 1 \in 1 .. Grown - 1 /\ i + 1 \in 0 .. Grown - 1 /\ (i + 1) - 1 = i
    BY Shifted, Sizes
  <2>2. snake'[i + 1] = snake[(i + 1) - 1]
    BY <2>1, Shifted, Zenon
  <2> QED BY <1>1, <2>1, <2>2, Zenon
<1>5. Body \subseteq Cells /\ food \notin Body
  BY Zenon DEF IInv, SnakeIsWhole, Body
<1> QED BY <1>2, <1>3, <1>4, <1>5, Zenon

(* What EXCEPT does to the screen.                                          *)
LEMMA Draw ==
  ASSUME NEW f, NEW a \in DOMAIN f, NEW x
  PROVE  /\ DOMAIN [f EXCEPT ![a] = x] = DOMAIN f
         /\ [f EXCEPT ![a] = x][a] = x
         /\ \A c \in DOMAIN f : c # a => [f EXCEPT ![a] = x][c] = f[c]
OBVIOUS

LEMMA DrawTyped ==
  ASSUME NEW S, NEW T, NEW f \in [S -> T], NEW a, NEW x \in T
  PROVE  [f EXCEPT ![a] = x] \in [S -> T]
OBVIOUS

LEMMA MoveScreen ==
  ASSUME IInv, Move
  PROVE  Shown' /\ cell' \in [Cells -> {" ", "#", "*", "text"}]
<1>1. /\ cell \in [Cells -> {" ", "#", "*", "text"}] /\ DOMAIN cell = Cells
      /\ food \in Cells /\ nh \in Cells
  BY Shifted, Zenon DEF IInv, Typed
<1>2. /\ \A c \in Body : cell[c] = "#"
      /\ cell[food] = "*"
      /\ score <= MAX_LEN - 3 => \A c \in Cells \ (Body \cup {food}) : cell[c] = " "
  <2>1. pc \in {"sleep", "drain"}
    BY Zenon DEF Move
  <2> QED BY <2>1, Playing, Zenon DEF IInv, ScreenShowsGame, Shown
<1>3. CASE ate
  <2> DEFINE headed == [cell EXCEPT ![nh] = "#"]
  <2>1. cell' = [headed EXCEPT ![food'] = "*"] /\ food' \in Cells /\ food' \notin Body'
    BY <1>3, Eaten, Zenon DEF Body
  <2>2. /\ DOMAIN headed = Cells /\ headed[nh] = "#"
        /\ \A c \in Cells : c # nh => headed[c] = cell[c]
    BY <1>1, Draw, Zenon
  <2>3. headed \in [Cells -> {" ", "#", "*", "text"}]
    BY <1>1, DrawTyped, Zenon
  <2> HIDE DEF headed
  <2>4. cell'[food'] = "*" /\ \A c \in Cells : c # food' => cell'[c] = headed[c]
    BY <2>1, <2>2, Draw, Zenon
  <2>5. cell' \in [Cells -> {" ", "#", "*", "text"}]
    BY <2>1, <2>3, DrawTyped, Zenon
  <2>6. \A c \in Body' : cell'[c] = "#"
    <3>1. \A c \in Body' : c = nh \/ c \in Body
      BY NewBody, Zenon DEF Body
    <3>2. \A c \in Body' : c \in Cells /\ c # food'
      BY <1>1, <2>1, <3>1, NewBody, Zenon
    <3> QED BY <1>2, <2>2, <2>4, <3>1, <3>2, Zenon
  <2>7. ASSUME score' <= MAX_LEN - 3
        PROVE  \A c \in Cells \ (Body' \cup {food'}) : cell'[c] = " "
    <3>1. /\ score \in Nat /\ slen \in 3 .. MAX_LEN /\ slen' = Grown
          /\ (score' <= MAX_LEN - 3 => slen' = score' + 3)
          /\ (score <= MAX_LEN - 3 => slen = score + 3)
      BY MoveFed, Shifted, Zenon DEF IInv, Typed, Fed
    <3>2. score' = IF score < MaxScore THEN score + 1 ELSE score
      BY <1>3, Eaten, Zenon
    <3>3. score <= MAX_LEN - 3 /\ Grown = slen + 1
      BY <2>7, <3>1, <3>2, Sizes
    <3>4. Body \subseteq Body'
      <4>1. \A i \in Used : i \in 0 .. Grown - 2
        BY <3>1, <3>3 DEF Used
      <4> QED BY <4>1, NewBody, Zenon DEF Body
    <3>5. nh = food /\ nh \in Body'
      BY <1>3, NewBody, Zenon DEF ate
    <3> QED BY <1>2, <2>2, <2>4, <3>3, <3>4, <3>5, Zenon
  <2> QED BY <2>4, <2>5, <2>6, <2>7, Zenon DEF Shown
<1>4. CASE ~ate
  <2> DEFINE tail == snake[slen - 1]
             erased == [cell EXCEPT ![tail] = " "]
  <2>1. /\ food' = food /\ score' = score /\ Grown = slen
        /\ cell' = [erased EXCEPT ![nh] = "#"]
    BY <1>4, NotEaten, Zenon
  <2>2. slen - 1 \in Used /\ \A i \in 0 .. Grown - 2 : i # slen - 1
    <3>1. Grown = slen /\ slen \in 3 .. MAX_LEN
      BY <2>1, Shifted, Zenon
    <3> QED BY <3>1, Sizes, SMT DEF Used
  <2>3. tail \in Cells /\ tail # food /\ tail \in Body
    BY <2>2, Zenon DEF IInv, SnakeIsWhole, Body
  <2>4. /\ DOMAIN erased = Cells /\ erased[tail] = " "
        /\ \A c \in Cells : c # tail => erased[c] = cell[c]
    BY <1>1, <2>3, Draw, Zenon
  <2>5. erased \in [Cells -> {" ", "#", "*", "text"}]
    BY <1>1, DrawTyped, Zenon
  <2>6. \A i \in 0 .. Grown - 2 : i \in Used => snake[i] # tail
    BY <2>2, Zenon DEF IInv, SnakeIsWhole
  <2> HIDE DEF erased
  <2>7. cell'[nh] = "#" /\ \A c \in Cells : c # nh => cell'[c] = erased[c]
    BY <1>1, <2>1, <2>4, Draw, Zenon
  <2>8. cell' \in [Cells -> {" ", "#", "*", "text"}]
    BY <2>1, <2>5, DrawTyped, Zenon
  <2>9. \A c \in Body' : cell'[c] = "#"
    <3>1. SUFFICES ASSUME NEW c \in Body', c # nh PROVE cell'[c] = "#"
      BY <2>7, Zenon
    <3>2. PICK i \in 0 .. Grown - 2 : i \in Used /\ c = snake[i]
      BY <3>1, NewBody, Zenon
    <3>3. c \in Body /\ c \in Cells /\ c # tail
      BY <2>6, <3>2, NewBody, Zenon DEF Body
    <3> QED BY <1>2, <2>4, <2>7, <3>1, <3>3, Zenon
  <2>10. cell'[food'] = "*"
    <3>1. food # nh /\ food # tail
      BY <1>4, <2>3, Zenon DEF ate
    <3> QED BY <1>1, <1>2, <2>1, <2>4, <2>7, <3>1, Zenon
  <2>11. ASSUME score <= MAX_LEN - 3,
                NEW c \in Cells \ (Body' \cup {food})
         PROVE  cell'[c] = " "
    <3>1. c # nh /\ c # food /\ \A i \in 0 .. Grown - 2 : c # snake[i]
      BY <2>11, NewBody, Zenon
    <3>2. c = tail \/ c \notin Body
      <4>1. \A i \in Used : i = slen - 1 \/ i \in 0 .. Grown - 2
        BY <2>1, Shifted DEF Used
      <4> QED BY <3>1, <4>1, Zenon DEF Body
    <3> QED BY <1>2, <2>4, <2>7, <2>11, <3>1, <3>2, Zenon
  <2> QED BY <2>1, <2>8, <2>9, <2>10, <2>11, Zenon DEF Shown
<1> QED BY <1>3, <1>4

LEMMA MoveKeeps == ASSUME IInv, Move PROVE IInv'
<1>1. Typed'
  <2>1. /\ dir' \in {<<1, 0>>, <<-1, 0>>, <<0, 1>>, <<0, -1>>}
        /\ pc' \in {"sleep", "drain", "over", "exited"} /\ turns' = 0
    BY Zenon DEF Move, IInv, Typed
  <2>2. turns' \in 0 .. 2
    BY <2>1, SMT
  <2>3. food' \in Cells
    <3>1. CASE ate
      BY <3>1, Eaten, Zenon
    <3>2. CASE ~ate
      BY <3>2, NotEaten, Zenon DEF IInv, Typed
    <3> QED BY <3>1, <3>2
  <2>4. /\ snake' \in [0 .. MAX_LEN - 1 -> Cells \cup {Nowhere}]
        /\ slen' \in 3 .. MAX_LEN
    BY Shifted, Zenon
  <2> QED BY <2>1, <2>2, <2>3, <2>4, MoveFed, MoveScreen, Zenon DEF Typed
<1>2. ScreenShowsGame'
  <2>1. pc' = "sleep"
    BY Zenon DEF Move
  <2>2. (Shows(Cells) <=> Shown)' /\ pc' # "over"
    <3>1. Typed' /\ SnakeIsWhole' => (Shows(Cells) <=> Shown)'
      BY Playing, PTL
    <3> QED BY <1>1, <2>1, <3>1, MoveWhole
  <2> QED BY <2>1, <2>2, MoveScreen, Zenon DEF ScreenShowsGame
<1> QED BY <1>1, <1>2, MoveWhole, MoveHeading, MoveFed, Zenon DEF IInv

(* A death draws the last words and moves nothing.                          *)
LEMMA DieKeeps == ASSUME IInv, Die PROVE IInv'
<1>1. /\ UNCHANGED <<snake, slen, dir, food, score, turns>>
      /\ cell' = [c \in Cells |-> IF c \in Text THEN "text" ELSE cell[c]]
      /\ pc = "drain" /\ pc' = "over"
  BY Zenon DEF Die
<1>2. Typed'
  <2>1. cell \in [Cells -> {" ", "#", "*", "text"}]
    BY Zenon DEF IInv, Typed
  <2>2. cell' \in [Cells -> {" ", "#", "*", "text"}]
    BY <1>1, <2>1
  <2>3. pc' \in {"sleep", "drain", "over", "exited"}
    BY <1>1, Zenon
  <2> QED BY <1>1, <2>2, <2>3, Zenon DEF IInv, Typed
<1>3. /\ SnakeIsWhole' /\ Heading' /\ Fed'
      /\ Used' = Used /\ Body' = Body
  <2>1. Used' = Used /\ Body' = Body /\ nh' = nh
    BY <1>1, Zenon DEF Used, Body, nh
  <2> QED BY <1>1, <2>1, Zenon DEF IInv, SnakeIsWhole, Heading, Fed
<1>4. ScreenShowsGame'
  <2>1. Shows(Cells)
    BY <1>1, Zenon DEF IInv, ScreenShowsGame
  <2>2. /\ \A c \in Cells \ Text : cell'[c] = cell[c]
        /\ \A c \in Text : cell'[c] = "text"
    <3>1. \A c \in Cells : cell'[c] = IF c \in Text THEN "text" ELSE cell[c]
      BY <1>1, Zenon
    <3> QED BY <3>1, TextAssumption, Zenon
  <2>3. Shows(Cells \ Text)'
    BY <1>1, <1>3, <2>1, <2>2, Zenon DEF Shows
  <2>4. pc' \notin {"sleep", "drain"}
    BY <1>1
  <2> QED BY <2>2, <2>3, <2>4, Zenon DEF ScreenShowsGame
<1> QED BY <1>2, <1>3, <1>4, Zenon DEF IInv

(* Other steps move nothing.                                                *)
LEMMA OthersKeep ==
  ASSUME IInv, KeyPressed \/ Wake \/ Over \/ UNCHANGED vars
  PROVE  IInv'
<1>1. UNCHANGED <<snake, slen, dir, food, score, cell, turns>>
  BY Zenon DEF KeyPressed, Wake, Over, vars
<1>2. pc' \in {"sleep", "drain", "over", "exited"}
  BY Zenon DEF IInv, Typed, KeyPressed, Wake, Over, vars
<1>3. Typed'
  BY <1>1, <1>2, Zenon DEF IInv, Typed
<1>4. SnakeIsWhole' /\ Heading' /\ Fed' /\ Used' = Used /\ Body' = Body
  <2>1. Used' = Used /\ Body' = Body /\ nh' = nh
    BY <1>1, Zenon DEF Used, Body, nh
  <2> QED BY <1>1, <2>1, Zenon DEF IInv, SnakeIsWhole, Heading, Fed
<1>5. ScreenShowsGame'
  <2>1. \/ pc' = pc
        \/ pc = "sleep" /\ pc' = "drain"
        \/ pc' = "exited"
    BY Zenon DEF KeyPressed, Wake, Over, vars
  <2>2. \A area : Shows(area)' <=> Shows(area)
    BY <1>1, <1>4, Zenon DEF Shows
  <2>3. ScreenShowsGame
    BY Zenon DEF IInv
  <2>4. CASE pc' = pc
    BY <1>1, <2>2, <2>3, <2>4, Zenon DEF ScreenShowsGame
  <2>5. CASE pc = "sleep" /\ pc' = "drain"
    BY <1>1, <2>2, <2>3, <2>5, Zenon DEF ScreenShowsGame
  <2>6. CASE pc' = "exited"
    BY <2>6, Zenon DEF ScreenShowsGame
  <2> QED BY <2>1, <2>4, <2>5, <2>6
<1> QED BY <1>3, <1>4, <1>5, Zenon DEF IInv

(* The strengthened invariant of the game.                                  *)
THEOREM Invariance == Spec => []IInv
<1>1. Init => IInv
  BY Initially
<1>2. IInv /\ [Next]_vars => IInv'
  BY DrainKeeps, MoveKeeps, DieKeeps, OthersKeep, Zenon DEF Next, Program
<1> QED BY <1>1, <1>2, PTL DEF Spec

(* The snake never leaves the play area, never has a cell twice and never   *)
(* lies on the food, on any area and at any length (snake.c:185-219).       *)
THEOREM WholeAlways == Spec => []SnakeIsWhole
<1>1. IInv => SnakeIsWhole
  BY Zenon DEF IInv
<1> QED BY <1>1, Invariance, PTL

(* One turn between two moves never sends the snake into its neck           *)
(* (snake.c:175-183).                                                       *)
THEOREM NoReversalAlways == Spec => []NoReversal
<1>1. IInv => NoReversal
  BY Zenon DEF IInv, Heading, NoReversal
<1> QED BY <1>1, Invariance, PTL

(* While it runs the screen shows the game, and nothing else until a snake  *)
(* of MAX_LEN eats (snake.c:203-219); a lost game is shown around the last  *)
(* words, wherever in the play area they are (snake.c:222-224).             *)
THEOREM ScreenAlways == Spec => []ScreenShowsGame
<1>1. IInv => ScreenShowsGame
  BY Zenon DEF IInv
<1> QED BY <1>1, Invariance, PTL
=============================================================================
