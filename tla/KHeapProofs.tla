---------------------------- MODULE KHeapProofs -----------------------------
(* KHeap for every heap length, header size and sequence of calls.          *)
EXTENDS KHeap, TLAPS

Shape(m) ==
  /\ DOMAIN m \subseteq Start .. End - HDR
  /\ m \in [DOMAIN m -> Header]
  /\ TiledBy(m)

(* What a well-shaped list says of one of its headers.                      *)
LEMMA Fields ==
  ASSUME NEW m, Shape(m), NEW a \in DOMAIN m
  PROVE  /\ a \in Nat /\ Start <= a /\ a <= End - HDR
         /\ m[a].size \in Nat /\ m[a].is_free \in BOOLEAN
         /\ m[a].next \in Nat /\ m[a].prev \in Nat
  <1>1. m[a] \in Header
    BY DEF Shape
  <1> QED BY <1>1, StartAssumption, HdrAssumption, LengthAssumption
          DEF Shape, Header, End

(* Two blocks that start at different addresses do not overlap, so a link   *)
(* identifies its block.                                                    *)
LEMMA Disjoint ==
  ASSUME NEW m, Shape(m), NEW a \in DOMAIN m, NEW b \in DOMAIN m, a # b
  PROVE  Past(m, a) <= b \/ Past(m, b) <= a
  <1>1. a < b \/ b < a
    BY Fields
  <1> QED BY <1>1 DEF Shape, TiledBy

-----------------------------------------------------------------------------
(* Marking a block changes no address and no link.                          *)
MarkResult(m, h, f, k) ==
  /\ Shape(k) /\ DOMAIN k = DOMAIN m
  /\ k[h].is_free = f
  /\ \A a \in DOMAIN m : /\ k[a].size = m[a].size /\ k[a].next = m[a].next
                         /\ k[a].prev = m[a].prev
  /\ \A a \in DOMAIN m \ {h} : k[a].is_free = m[a].is_free

(* Changing is_free of one header changes nothing else of the list.         *)
LEMMA MarkShape ==
  ASSUME NEW m, Shape(m), NEW h \in DOMAIN m, NEW f \in BOOLEAN
  PROVE  MarkResult(m, h, f, Mark(m, h, f))
<1> DEFINE k == Mark(m, h, f)
<1>1. /\ DOMAIN k = DOMAIN m
      /\ \A a \in DOMAIN m :
           k[a] = [size |-> m[a].size,
                   is_free |-> IF a = h THEN f ELSE m[a].is_free,
                   next |-> m[a].next, prev |-> m[a].prev]
  BY DEF Mark
<1>2. k = [a \in DOMAIN k |-> k[a]]
  BY DEF Mark
<1> HIDE DEF k
<1>3. \A a \in DOMAIN m :
        /\ k[a].size = m[a].size /\ k[a].next = m[a].next
        /\ k[a].prev = m[a].prev
        /\ k[a].is_free = IF a = h THEN f ELSE m[a].is_free
  BY <1>1
<1>4. \A a \in DOMAIN k : k[a] \in Header
  <2> TAKE a \in DOMAIN k
  <2>1. /\ m[a].size \in Nat /\ m[a].is_free \in BOOLEAN
        /\ m[a].next \in Nat /\ m[a].prev \in Nat
    BY <1>1, Fields
  <2> QED BY <1>1, <2>1 DEF Header
<1>5. k \in [DOMAIN k -> Header]
  BY <1>2, <1>4
<1>6. TiledBy(k)
  BY <1>1, <1>3 DEF Shape, TiledBy, Past
<1>7. Shape(k)
  BY <1>1, <1>5, <1>6 DEF Shape
<1>8. k[h].is_free = f /\ \A a \in DOMAIN m \ {h} : k[a].is_free = m[a].is_free
  BY <1>3
<1>9. MarkResult(m, h, f, k)
  BY <1>1, <1>3, <1>7, <1>8 DEF MarkResult
<1> QED BY <1>9 DEF k

-----------------------------------------------------------------------------
(* Joining a block with the one that follows keeps the tiling and both      *)
(* directions of the list.                                                  *)
JoinResult(m, h, j, gone) ==
  /\ gone \in DOMAIN m /\ gone # h /\ gone # Start /\ h < gone
  /\ DOMAIN j = DOMAIN m \ {gone}
  /\ j \in [DOMAIN j -> Header]
  /\ j[h].size = m[h].size + HDR + m[gone].size
  /\ j[h].next = m[gone].next /\ j[h].prev = m[h].prev
  /\ j[h].is_free = m[h].is_free
  /\ \A a \in DOMAIN m \ {gone, h} :
       /\ j[a].size = m[a].size /\ j[a].next = m[a].next
       /\ j[a].is_free = m[a].is_free
       /\ j[a].prev = IF a = m[gone].next THEN h ELSE m[a].prev

(* The fields of every header after a join.                                 *)
LEMMA JoinFields ==
  ASSUME NEW m, Shape(m), NEW h \in DOMAIN m, m[h].next # 0
  PROVE  JoinResult(m, h, Join(m, h), m[h].next)
<1> DEFINE j == Join(m, h)
           gone == m[h].next
<1>1. gone \in DOMAIN m /\ gone = h + HDR + m[h].size
  BY DEF Shape, TiledBy, Past
<1>2. h < gone /\ Start <= h
  BY <1>1, Fields, HdrAssumption
<1>3. gone # h /\ gone # Start
  BY <1>1, <1>2, Fields, StartAssumption
<1>4. /\ DOMAIN j = DOMAIN m \ {gone}
      /\ j = [a \in DOMAIN m \ {gone} |-> j[a]]
  BY DEF Join
<1>5. j[h] = [size |-> m[h].size + HDR + m[gone].size,
              is_free |-> m[h].is_free, next |-> m[gone].next,
              prev |-> m[h].prev]
  BY <1>3 DEF Join
<1>6. \A a \in DOMAIN m \ {gone, h} :
        j[a] = [size |-> m[a].size, is_free |-> m[a].is_free,
                next |-> m[a].next,
                prev |-> IF a = m[gone].next THEN h ELSE m[a].prev]
  BY DEF Join
<1> HIDE DEF j, gone
<1>7. j[h] \in Header
  BY <1>1, <1>5, Fields, HdrAssumption DEF Header
<1>8. \A a \in DOMAIN m \ {gone, h} : j[a] \in Header
  <2> SUFFICES ASSUME NEW a \in DOMAIN m \ {gone, h} PROVE j[a] \in Header
    OBVIOUS
  <2>1. h \in Nat /\ m[a].size \in Nat /\ m[a].is_free \in BOOLEAN
        /\ m[a].next \in Nat /\ m[a].prev \in Nat
    BY Fields
  <2> DEFINE p == IF a = m[gone].next THEN h ELSE m[a].prev
  <2>2. p \in Nat
    BY <2>1
  <2>3. j[a] = [size |-> m[a].size, is_free |-> m[a].is_free,
                next |-> m[a].next, prev |-> p]
    BY <1>6
  <2> HIDE DEF p
  <2> QED BY <2>1, <2>2, <2>3 DEF Header
<1>9. \A a \in DOMAIN m \ {gone} : j[a] \in Header
  BY <1>7, <1>8
<1>10. j \in [DOMAIN j -> Header]
  BY <1>4, <1>9
<1>11. /\ j[h].size = m[h].size + HDR + m[gone].size
       /\ j[h].next = m[gone].next /\ j[h].prev = m[h].prev
       /\ j[h].is_free = m[h].is_free
  BY <1>5
<1>12. \A a \in DOMAIN m \ {gone, h} :
         /\ j[a].size = m[a].size /\ j[a].next = m[a].next
         /\ j[a].is_free = m[a].is_free
         /\ j[a].prev = IF a = m[gone].next THEN h ELSE m[a].prev
  <2> SUFFICES ASSUME NEW a \in DOMAIN m \ {gone, h}
               PROVE  /\ j[a].size = m[a].size /\ j[a].next = m[a].next
                      /\ j[a].is_free = m[a].is_free
                      /\ j[a].prev = IF a = m[gone].next THEN h ELSE m[a].prev
    OBVIOUS
  <2> DEFINE p == IF a = m[gone].next THEN h ELSE m[a].prev
  <2>1. j[a] = [size |-> m[a].size, is_free |-> m[a].is_free,
                next |-> m[a].next, prev |-> p]
    BY <1>6
  <2> HIDE DEF p
  <2>2. /\ j[a].size = m[a].size /\ j[a].next = m[a].next
        /\ j[a].is_free = m[a].is_free /\ j[a].prev = p
    BY <2>1
  <2> QED BY <2>2 DEF p
<1>13. JoinResult(m, h, j, gone)
  BY <1>1, <1>2, <1>3, <1>4, <1>10, <1>11, <1>12 DEF JoinResult
<1> QED BY <1>13 DEF j, gone

(* A join leaves a list that tiles the heap.                                *)
LEMMA JoinShape ==
  ASSUME NEW m, Shape(m), NEW h \in DOMAIN m, m[h].next # 0
  PROVE  Shape(Join(m, h))
<1> DEFINE j == Join(m, h)
           gone == m[h].next
<1>0. JoinResult(m, h, j, gone)
  BY JoinFields
<1>3. gone = Past(m, h) /\ m[gone].prev = h
  BY DEF Shape, TiledBy
<1> HIDE DEF j, gone
<1>1. /\ gone \in DOMAIN m /\ gone # h /\ gone # Start /\ h < gone
      /\ DOMAIN j = DOMAIN m \ {gone}
      /\ j \in [DOMAIN j -> Header]
      /\ j[h].size = m[h].size + HDR + m[gone].size
      /\ j[h].next = m[gone].next /\ j[h].prev = m[h].prev
  BY <1>0 DEF JoinResult
<1>2. \A a \in DOMAIN m \ {gone, h} :
         /\ j[a].size = m[a].size /\ j[a].next = m[a].next
         /\ j[a].prev = IF a = m[gone].next THEN h ELSE m[a].prev
  BY <1>0 DEF JoinResult
<1>4. Past(j, h) = Past(m, gone)
  BY <1>1, <1>3, Fields, HdrAssumption DEF Past
<1>5. \A a \in DOMAIN m \ {gone, h} : Past(j, a) = Past(m, a)
  BY <1>2 DEF Past
<1>6. \A a \in DOMAIN j : m[a].next # 0 /\ a # h => m[a].next # gone
  BY <1>1, <1>3 DEF Shape, TiledBy
<1>7. m[gone].next # 0 => /\ m[gone].next \in DOMAIN m
                          /\ m[gone].next = Past(m, gone)
                          /\ m[m[gone].next].prev = gone
                          /\ m[gone].next \notin {gone, h}
  <2> SUFFICES ASSUME m[gone].next # 0
               PROVE  /\ m[gone].next \in DOMAIN m
                      /\ m[gone].next = Past(m, gone)
                      /\ m[m[gone].next].prev = gone
                      /\ m[gone].next \notin {gone, h}
    OBVIOUS
  <2>1. /\ m[gone].next \in DOMAIN m /\ m[gone].next = Past(m, gone)
        /\ m[m[gone].next].prev = gone
    BY <1>1 DEF Shape, TiledBy
  <2>2. h \in Nat /\ gone \in Nat /\ m[gone].size \in Nat
    BY <1>1, Fields
  <2>3. gone < Past(m, gone)
    BY <2>2, HdrAssumption DEF Past
  <2> QED BY <1>1, <2>1, <2>2, <2>3
<1>8. Start \in DOMAIN j /\ j[Start].prev = 0
  <2>1. Start \in DOMAIN m /\ m[Start].prev = 0
    BY DEF Shape, TiledBy
  <2>2. Start # m[gone].next
    BY <1>1, <1>7, <2>1, StartAssumption, Fields
  <2> QED BY <1>1, <1>2, <2>1, <2>2
<1>9. \A a \in DOMAIN j : j[a].next = 0 => Past(j, a) = End
  BY <1>1, <1>2, <1>4, <1>5 DEF Shape, TiledBy
<1>10. \A a \in DOMAIN j : j[a].next # 0 => /\ j[a].next = Past(j, a)
                                            /\ j[a].next \in DOMAIN j
                                            /\ j[j[a].next].prev = a
  <2> SUFFICES ASSUME NEW a \in DOMAIN j, j[a].next # 0
               PROVE  /\ j[a].next = Past(j, a)
                      /\ j[a].next \in DOMAIN j
                      /\ j[j[a].next].prev = a
    OBVIOUS
  <2>1. CASE a = h
    BY <1>1, <1>2, <1>4, <1>7, <2>1
  <2>2. CASE a # h
    <3>1. /\ j[a].next = m[a].next /\ m[a].next \in DOMAIN m
          /\ m[a].next = Past(m, a) /\ m[m[a].next].prev = a
      BY <1>1, <1>2, <2>2 DEF Shape, TiledBy
    <3>2. m[a].next # gone
      BY <1>1, <1>3, <2>2, <3>1
    <3>3. m[a].next = h => j[h].prev = a
      BY <1>1, <3>1
    <3>4. m[a].next # h => j[m[a].next].prev = a
      <4>1. m[a].next # m[gone].next
        BY <1>1, <1>7, <3>1
      <4> QED BY <1>1, <1>2, <3>1, <3>2, <4>1
    <3> QED BY <1>1, <1>5, <2>2, <3>1, <3>2, <3>3, <3>4
  <2> QED BY <2>1, <2>2
<1>11. \A a \in DOMAIN j : a # Start =>
         j[a].prev \in DOMAIN j /\ j[j[a].prev].next = a
  <2> SUFFICES ASSUME NEW a \in DOMAIN j, a # Start
               PROVE  j[a].prev \in DOMAIN j /\ j[j[a].prev].next = a
    OBVIOUS
  <2>1. a \in DOMAIN m /\ m[a].prev \in DOMAIN m /\ m[m[a].prev].next = a
    BY <1>1 DEF Shape, TiledBy
  <2>2. CASE a # h /\ a = m[gone].next
    BY <1>1, <1>2, <2>2
  <2>3. CASE a = h \/ a # m[gone].next
    <3>1. j[a].prev = m[a].prev
      BY <1>1, <1>2, <2>3
    <3>2. m[a].prev # gone
      <4>1. a # 0
        BY <2>1, Fields, StartAssumption
      <4> QED BY <1>1, <1>7, <2>1, <2>3, <4>1
    <3>3. m[a].prev # h
      BY <1>1, <2>1 DEF gone
    <3> QED BY <1>1, <1>2, <2>1, <3>1, <3>2, <3>3
  <2> QED BY <2>2, <2>3
<1>12. \A a, b \in DOMAIN j : a < b => Past(j, a) <= b
  <2> SUFFICES ASSUME NEW a \in DOMAIN j, NEW b \in DOMAIN j, a < b
               PROVE  Past(j, a) <= b
    OBVIOUS
  <2>1. a \in DOMAIN m /\ b \in DOMAIN m /\ b # gone
    BY <1>1
  <2>2. CASE a # h
    BY <1>1, <1>5, <2>1, <2>2 DEF Shape, TiledBy
  <2>3. CASE a = h
    <3>1. gone <= b
      BY <1>3, <2>1, <2>3 DEF Shape, TiledBy
    <3>2. gone < b
      BY <1>1, <2>1, <3>1, Fields
    <3> QED BY <1>1, <1>4, <2>1, <2>3, <3>2 DEF Shape, TiledBy
  <2> QED BY <2>2, <2>3
<1>13. TiledBy(j)
  BY <1>8, <1>9, <1>10, <1>11, <1>12 DEF TiledBy
<1> QED BY <1>1, <1>13 DEF Shape, j

-----------------------------------------------------------------------------
(* Splitting a block that can spare a header and a byte keeps the tiling.   *)

SplitResult(m, h, n, s, rest) ==
  /\ rest = h + HDR + n /\ rest \notin DOMAIN m /\ h < rest
  /\ DOMAIN s = DOMAIN m \cup {rest}
  /\ s \in [DOMAIN s -> Header]
  /\ s[rest].size = m[h].size - n - HDR /\ s[rest].is_free
  /\ s[rest].next = m[h].next /\ s[rest].prev = h
  /\ s[h].size = n /\ s[h].next = rest /\ s[h].prev = m[h].prev
  /\ s[h].is_free = m[h].is_free
  /\ \A a \in DOMAIN m \ {h} :
       /\ s[a].size = m[a].size /\ s[a].next = m[a].next
       /\ s[a].is_free = m[a].is_free
       /\ s[a].prev = IF a = m[h].next THEN rest ELSE m[a].prev

(* The fields of every header after a split.                                *)
LEMMA SplitFields ==
  ASSUME NEW m, Shape(m), NEW h \in DOMAIN m, NEW n \in Nat,
         m[h].size >= n + HDR + 1
  PROVE  SplitResult(m, h, n, Split(m, h, n), h + HDR + n)
<1> DEFINE s == Split(m, h, n)
           rest == h + HDR + n
<1>1. h \in Nat /\ m[h].size \in Nat /\ rest \in Nat /\ h < rest
  BY Fields, HdrAssumption
<1>2. rest < Past(m, h)
  BY <1>1, HdrAssumption DEF Past
<1>3. rest \notin DOMAIN m
  <2> SUFFICES ASSUME rest \in DOMAIN m PROVE FALSE
    OBVIOUS
  <2>1. Past(m, h) <= rest
    BY <1>1 DEF Shape, TiledBy
  <2> QED BY <1>1, <1>2, <2>1, HdrAssumption DEF Past
<1>4. /\ DOMAIN s = DOMAIN m \cup {rest}
      /\ s = [a \in DOMAIN m \cup {rest} |-> s[a]]
  BY DEF Split
<1>5. s[rest] = [size |-> m[h].size - n - HDR, is_free |-> TRUE,
                 next |-> m[h].next, prev |-> h]
  BY DEF Split
<1>6. s[h] = [size |-> n, is_free |-> m[h].is_free, next |-> rest,
              prev |-> m[h].prev]
  BY <1>1 DEF Split
<1>7. \A a \in DOMAIN m \ {h} :
        s[a] = [size |-> m[a].size, is_free |-> m[a].is_free,
                next |-> m[a].next,
                prev |-> IF a = m[h].next THEN rest ELSE m[a].prev]
  BY <1>3 DEF Split
<1> HIDE DEF s, rest
<1>8. s[rest] \in Header /\ s[h] \in Header
  <2>1. m[h].size - n - HDR \in Nat
    BY <1>1, HdrAssumption
  <2> QED BY <1>1, <1>5, <1>6, <2>1, Fields DEF Header
<1>9. \A a \in DOMAIN m \ {h} :
         /\ s[a] \in Header
         /\ s[a].size = m[a].size /\ s[a].next = m[a].next
         /\ s[a].is_free = m[a].is_free
         /\ s[a].prev = IF a = m[h].next THEN rest ELSE m[a].prev
  <2> SUFFICES ASSUME NEW a \in DOMAIN m \ {h}
               PROVE  /\ s[a] \in Header
                      /\ s[a].size = m[a].size /\ s[a].next = m[a].next
                      /\ s[a].is_free = m[a].is_free
                      /\ s[a].prev = IF a = m[h].next THEN rest ELSE m[a].prev
    OBVIOUS
  <2> DEFINE p == IF a = m[h].next THEN rest ELSE m[a].prev
  <2>1. m[a].size \in Nat /\ m[a].is_free \in BOOLEAN
        /\ m[a].next \in Nat /\ m[a].prev \in Nat
    BY Fields
  <2>2. p \in Nat
    BY <1>1, <2>1
  <2>3. s[a] = [size |-> m[a].size, is_free |-> m[a].is_free,
                next |-> m[a].next, prev |-> p]
    BY <1>7
  <2> HIDE DEF p
  <2>4. /\ s[a] \in Header
        /\ s[a].size = m[a].size /\ s[a].next = m[a].next
        /\ s[a].is_free = m[a].is_free /\ s[a].prev = p
    BY <2>1, <2>2, <2>3 DEF Header
  <2> QED BY <2>4 DEF p
<1>10. s \in [DOMAIN s -> Header]
  BY <1>4, <1>8, <1>9
<1>11. /\ s[rest].size = m[h].size - n - HDR /\ s[rest].is_free
       /\ s[rest].next = m[h].next /\ s[rest].prev = h
       /\ s[h].size = n /\ s[h].next = rest /\ s[h].prev = m[h].prev
       /\ s[h].is_free = m[h].is_free
  BY <1>5, <1>6
<1>12. SplitResult(m, h, n, s, rest)
  BY <1>1, <1>3, <1>4, <1>9, <1>10, <1>11 DEF SplitResult, rest
<1> QED BY <1>12 DEF s, rest

(* A split with room for a header and a byte leaves a list that tiles the   *)
(* heap.                                                                    *)
LEMMA SplitShape ==
  ASSUME NEW m, Shape(m), NEW h \in DOMAIN m, NEW n \in Nat,
         m[h].size >= n + HDR + 1
  PROVE  Shape(Split(m, h, n))
<1> DEFINE s == Split(m, h, n)
           rest == h + HDR + n
<1>0. SplitResult(m, h, n, s, rest)
  BY SplitFields
<1>1. h \in Nat /\ m[h].size \in Nat /\ rest \in Nat /\ rest # 0 /\ h < rest
  BY Fields, HdrAssumption
<1> HIDE DEF s
<1>2. /\ rest \notin DOMAIN m /\ DOMAIN s = DOMAIN m \cup {rest}
      /\ s \in [DOMAIN s -> Header]
      /\ s[rest].size = m[h].size - n - HDR
      /\ s[rest].next = m[h].next /\ s[rest].prev = h
      /\ s[h].size = n /\ s[h].next = rest /\ s[h].prev = m[h].prev
  BY <1>0 DEF SplitResult
<1>3. \A a \in DOMAIN m \ {h} :
         /\ s[a].size = m[a].size /\ s[a].next = m[a].next
         /\ s[a].prev = IF a = m[h].next THEN rest ELSE m[a].prev
  BY <1>0 DEF SplitResult
<1>4. Past(s, h) = rest /\ Past(s, rest) = Past(m, h)
  BY <1>1, <1>2, HdrAssumption DEF Past
<1>5. \A a \in DOMAIN m \ {h} : Past(s, a) = Past(m, a)
  BY <1>3 DEF Past
<1>6. rest < Past(m, h) /\ Past(m, h) <= End /\ Past(m, h) \in Nat
  <2>1. m[h].next = 0 => Past(m, h) = End
    BY DEF Shape, TiledBy
  <2>2. m[h].next # 0 => Past(m, h) <= End
    <3>1. m[h].next # 0 => m[h].next \in DOMAIN m /\ m[h].next = Past(m, h)
      BY DEF Shape, TiledBy
    <3> QED BY <3>1, Fields, StartAssumption, HdrAssumption, LengthAssumption
            DEF End
  <2> QED BY <1>1, <2>1, <2>2, HdrAssumption, StartAssumption,
             LengthAssumption DEF Past, End
<1>7. DOMAIN s \subseteq Start .. End - HDR
  <2>1. rest >= Start
    BY <1>1, Fields, StartAssumption
  <2>2. rest <= End - HDR
    <3>1. rest + HDR <= Past(m, h)
      BY <1>1, HdrAssumption DEF Past
    <3> QED BY <1>1, <1>6, <3>1, StartAssumption, HdrAssumption,
               LengthAssumption DEF End
  <2> HIDE DEF rest
  <2> QED BY <1>1, <1>2, <2>1, <2>2, StartAssumption, HdrAssumption,
             LengthAssumption DEF Shape, End
<1>8. m[h].next # 0 => /\ m[h].next \in DOMAIN m \ {h}
                       /\ m[h].next = Past(m, h)
                       /\ m[m[h].next].prev = h
  <2>1. m[h].next # 0 => /\ m[h].next \in DOMAIN m
                         /\ m[h].next = Past(m, h)
                         /\ m[m[h].next].prev = h
    BY DEF Shape, TiledBy
  <2> QED BY <1>1, <1>6, <2>1
<1> HIDE DEF rest
<1>9. Start \in DOMAIN s /\ s[Start].prev = 0
  <2>1. Start \in DOMAIN m /\ m[Start].prev = 0
    BY DEF Shape, TiledBy
  <2>2. Start # m[h].next
    BY <1>8, <2>1, StartAssumption, Fields
  <2> QED BY <1>2, <1>3, <2>1, <2>2
<1>10. \A a \in DOMAIN s : s[a].next = 0 => Past(s, a) = End
  BY <1>1, <1>2, <1>3, <1>4, <1>5 DEF Shape, TiledBy
<1>11. \A a \in DOMAIN s : s[a].next # 0 => /\ s[a].next = Past(s, a)
                                            /\ s[a].next \in DOMAIN s
                                            /\ s[s[a].next].prev = a
  <2> SUFFICES ASSUME NEW a \in DOMAIN s, s[a].next # 0
               PROVE  /\ s[a].next = Past(s, a)
                      /\ s[a].next \in DOMAIN s
                      /\ s[s[a].next].prev = a
    OBVIOUS
  <2>1. CASE a = h
    BY <1>2, <1>4, <2>1
  <2>2. CASE a = rest
    BY <1>2, <1>3, <1>4, <1>8, <2>2
  <2>3. CASE a # h /\ a # rest
    <3>1. /\ s[a].next = m[a].next /\ m[a].next \in DOMAIN m
          /\ m[a].next = Past(m, a) /\ m[m[a].next].prev = a
      BY <1>2, <1>3, <2>3 DEF Shape, TiledBy
    <3>2. m[a].next = h => s[h].prev = a
      BY <1>2, <3>1
    <3>3. m[a].next # h => s[m[a].next].prev = a
      <4>1. m[a].next # m[h].next
        BY <1>8, <2>3, <3>1, Fields, StartAssumption
      <4> QED BY <1>3, <3>1, <4>1
    <3> QED BY <1>2, <1>5, <2>3, <3>1, <3>2, <3>3
  <2> QED BY <2>1, <2>2, <2>3
<1>12. \A a \in DOMAIN s : a # Start =>
         s[a].prev \in DOMAIN s /\ s[s[a].prev].next = a
  <2> SUFFICES ASSUME NEW a \in DOMAIN s, a # Start
               PROVE  s[a].prev \in DOMAIN s /\ s[s[a].prev].next = a
    OBVIOUS
  <2>1. CASE a = rest
    BY <1>2, <2>1
  <2>2. CASE a # rest
    <3>1. a \in DOMAIN m /\ m[a].prev \in DOMAIN m /\ m[m[a].prev].next = a
      BY <1>2, <2>2 DEF Shape, TiledBy
    <3>2. a # 0
      BY <3>1, Fields, StartAssumption
    <3>3. CASE a = m[h].next
      BY <1>2, <1>3, <1>8, <3>2, <3>3
    <3>4. CASE a # m[h].next
      <4>1. s[a].prev = m[a].prev /\ m[a].prev # h
        BY <1>2, <1>3, <3>1, <3>4
      <4> QED BY <1>2, <1>3, <3>1, <4>1
    <3> QED BY <3>3, <3>4
  <2> QED BY <2>1, <2>2
<1>13. \A a, b \in DOMAIN s : a < b => Past(s, a) <= b
  <2> SUFFICES ASSUME NEW a \in DOMAIN s, NEW b \in DOMAIN s, a < b
               PROVE  Past(s, a) <= b
    OBVIOUS
  <2>1. CASE a = h
    <3>1. b # rest => Past(m, h) <= b /\ b \in Nat
      BY <1>2, <2>1, Fields DEF Shape, TiledBy
    <3> QED BY <1>1, <1>4, <1>6, <2>1, <3>1
  <2>2. CASE a = rest
    <3>1. b \in DOMAIN m /\ b \in Nat
      BY <1>1, <1>2, <2>2, Fields
    <3>2. h < b
      BY <1>1, <2>2, <3>1
    <3> QED BY <1>4, <2>2, <3>1, <3>2 DEF Shape, TiledBy
  <2>3. CASE a # h /\ a # rest
    <3>1. a \in DOMAIN m /\ a \in Nat /\ Past(s, a) = Past(m, a)
      BY <1>2, <1>5, <2>3, Fields
    <3>2. CASE b # rest
      BY <1>2, <3>1, <3>2 DEF Shape, TiledBy
    <3>3. CASE b = rest
      <4>1. a < h
        <5> SUFFICES ASSUME h < a PROVE FALSE
          BY <1>1, <2>3, <3>1
        <5>1. Past(m, h) <= a
          BY <3>1 DEF Shape, TiledBy
        <5> QED BY <1>1, <1>6, <3>1, <3>3, <5>1
      <4>2. Past(m, a) <= h
        BY <3>1, <4>1 DEF Shape, TiledBy
      <4>3. Past(m, a) \in Nat
        BY <3>1, Fields, HdrAssumption DEF Past
      <4> QED BY <1>1, <3>1, <3>3, <4>2, <4>3
    <3> QED BY <3>2, <3>3
  <2> QED BY <2>1, <2>2, <2>3
<1>14. TiledBy(s)
  BY <1>9, <1>10, <1>11, <1>12, <1>13 DEF TiledBy
<1> QED BY <1>2, <1>7, <1>14 DEF Shape, s

-----------------------------------------------------------------------------
(* The inductive invariant: the list tiles the heap, free neighbours are    *)
(* joined, callers hold the blocks in use, and a scanning kmalloc has       *)
(* passed only blocks that do not fit.                                      *)

(* A block ends after its header and not past the heap.                     *)
LEMMA PastEnd ==
  ASSUME NEW m, Shape(m), NEW a \in DOMAIN m
  PROVE  Past(m, a) \in Nat /\ a + HDR <= Past(m, a) /\ Past(m, a) <= End
<1>1. a \in Nat /\ m[a].size \in Nat
  BY Fields
<1>2. m[a].next = 0 => Past(m, a) = End
  BY DEF Shape, TiledBy
<1>3. m[a].next # 0 => m[a].next = Past(m, a) /\ m[a].next <= End - HDR
  BY Fields DEF Shape, TiledBy
<1> QED BY <1>1, <1>2, <1>3, StartAssumption, HdrAssumption, LengthAssumption
        DEF Past, End

NoFreePair(m) ==
  \A h \in DOMAIN m : m[h].is_free /\ m[h].next # 0 => ~m[m[h].next].is_free

Scanned ==
  pc = "scan" => \A h \in DOMAIN hdr : current = 0 \/ h < current => ~Fits(h)

IInv == TypeOK /\ Tiled /\ Coalesced /\ HeldBlocks /\ Scanned

(* The part of the invariant the operators on lists ask for.                *)
LEMMA ShapeOfHeap ==
  ASSUME TypeOK, Tiled
  PROVE  Shape(hdr)
  BY DEF TypeOK, Tiled, Shape

(* kheap_init makes one block of the whole heap.                            *)
LEMMA InitShape == Shape(kheap_init)
<1>1. DOMAIN kheap_init = {Start} /\ kheap_init = [h \in {Start} |-> kheap_init[h]]
  BY DEF kheap_init
<1>2. kheap_init[Start] = [size |-> Length - HDR, is_free |-> TRUE,
                           next |-> 0, prev |-> 0]
  BY DEF kheap_init
<1> HIDE DEF kheap_init
<1>3. kheap_init[Start] \in Header
  BY <1>2, LengthAssumption, HdrAssumption DEF Header
<1>4. kheap_init \in [DOMAIN kheap_init -> Header]
  BY <1>1, <1>3
<1>5. TiledBy(kheap_init)
  <2>1. kheap_init[Start].next = 0 /\ kheap_init[Start].prev = 0
    BY <1>2
  <2>2. Past(kheap_init, Start) = End
    BY <1>2, LengthAssumption, HdrAssumption, StartAssumption DEF Past, End
  <2> QED BY <1>1, <2>1, <2>2, StartAssumption DEF TiledBy
<1>6. Start \in Start .. End - HDR
  BY StartAssumption, LengthAssumption, HdrAssumption DEF End
<1> QED BY <1>1, <1>4, <1>5, <1>6 DEF Shape

(* The invariant holds after kheap_init.                                    *)
LEMMA InitIInv == Init => IInv
<1> SUFFICES ASSUME Init PROVE IInv
  OBVIOUS
<1>1. Shape(hdr) /\ DOMAIN hdr = {Start}
  BY InitShape DEF Init, kheap_init
<1>2. hdr[Start].next = 0 /\ hdr[Start].is_free
  BY DEF Init, kheap_init
<1>3. DOMAIN held = {} /\ held \in [DOMAIN held -> Sizes]
  BY DEF Init, EmptyMap
<1>4. TypeOK
  BY <1>1, <1>3 DEF Shape, TypeOK, Init
<1>5. Tiled
  BY <1>1 DEF Shape, Tiled
<1>6. Coalesced /\ HeldBlocks
  BY <1>1, <1>2, <1>3 DEF Coalesced, HeldBlocks
<1>7. Scanned
  BY DEF Init, Scanned
<1> QED BY <1>4, <1>5, <1>6, <1>7 DEF IInv

(* kmalloc's loop moves to the next block of the heap.                      *)
LEMMA CallScans ==
  ASSUME IInv, NEW n \in Sizes, KmallocCall(n)
  PROVE  IInv'
<1>1. Start \in DOMAIN hdr
  BY DEF IInv, Tiled, TiledBy
<1>2. \A h \in DOMAIN hdr : ~(Start = 0 \/ h < Start)
  BY ShapeOfHeap, Fields, StartAssumption DEF IInv
<1>3. /\ hdr' = hdr /\ held' = held /\ pc' = "scan" /\ current' = Start
      /\ request' = n
  BY DEF KmallocCall
<1>4. TypeOK'
  BY <1>1, <1>3 DEF IInv, TypeOK
<1>5. Tiled' /\ Coalesced' /\ HeldBlocks'
  BY <1>3 DEF IInv, Tiled, Coalesced, HeldBlocks, TiledBy, Past
<1>6. Scanned'
  BY <1>2, <1>3 DEF Scanned
<1> QED BY <1>4, <1>5, <1>6 DEF IInv

(* A block that does not fit joins those the search has passed.             *)
LEMMA SkipScans ==
  ASSUME IInv, KmallocSkip
  PROVE  IInv'
<1>1. /\ hdr' = hdr /\ held' = held /\ pc' = pc /\ request' = request
      /\ current' = hdr[current].next /\ pc = "scan"
  BY DEF KmallocSkip
<1>2. current \in DOMAIN hdr /\ ~Fits(current)
  BY DEF KmallocSkip, IInv, TypeOK
<1>3. Shape(hdr)
  BY ShapeOfHeap DEF IInv
<1>4. current' = 0 \/ current' \in DOMAIN hdr
  BY <1>1, <1>2, <1>3 DEF Shape, TiledBy
<1>5. TypeOK'
  BY <1>1, <1>4 DEF IInv, TypeOK
<1>6. Tiled' /\ Coalesced' /\ HeldBlocks'
  BY <1>1 DEF IInv, Tiled, Coalesced, HeldBlocks, TiledBy, Past
<1>7. \A h \in DOMAIN hdr : current' = 0 \/ h < current' => ~Fits(h)
  <2> SUFFICES ASSUME NEW h \in DOMAIN hdr, current' = 0 \/ h < current'
               PROVE  ~Fits(h)
    OBVIOUS
  <2>1. h \in Nat /\ current \in Nat /\ current # 0
    BY <1>2, <1>3, Fields, StartAssumption
  <2>2. ~(current < h)
    <3> SUFFICES ASSUME current < h PROVE FALSE
      OBVIOUS
    <3>1. Past(hdr, current) <= h
      BY <1>2, <1>3 DEF Shape, TiledBy
    <3>2. current' = 0 => Past(hdr, current) = End
      BY <1>1, <1>2, <1>3 DEF Shape, TiledBy
    <3>3. current' # 0 => current' = Past(hdr, current)
      BY <1>1, <1>2, <1>3 DEF Shape, TiledBy
    <3>4. Past(hdr, h) <= End /\ h + HDR <= Past(hdr, h) /\ Past(hdr, h) \in Nat
      BY <1>3, PastEnd
    <3>5. Past(hdr, current) \in Nat /\ End \in Nat
      BY <1>2, <1>3, PastEnd, StartAssumption, LengthAssumption DEF End
    <3>6. current' # 0
      BY <2>1, <3>1, <3>2, <3>4, <3>5, HdrAssumption
    <3> QED BY <2>1, <3>1, <3>3, <3>5, <3>6
  <2>3. h = current \/ h < current
    BY <2>1, <2>2
  <2> QED BY <1>1, <1>2, <2>1, <2>3 DEF IInv, Scanned
<1>8. Scanned'
  BY <1>1, <1>7 DEF Scanned, Fits
<1> QED BY <1>5, <1>6, <1>8 DEF IInv

(* A kmalloc that finds nothing leaves everything as it was.                *)
LEMMA NullScans ==
  ASSUME IInv, KmallocNull
  PROVE  IInv'
<1>1. /\ hdr' = hdr /\ held' = held /\ pc' = "idle" /\ request' = 0
      /\ current' = current /\ current = 0
  BY DEF KmallocNull
<1>2. TypeOK'
  BY <1>1 DEF IInv, TypeOK
<1>3. Tiled' /\ Coalesced' /\ HeldBlocks'
  BY <1>1 DEF IInv, Tiled, Coalesced, HeldBlocks, TiledBy, Past
<1>4. Scanned'
  BY <1>1 DEF Scanned
<1> QED BY <1>2, <1>3, <1>4 DEF IInv

-----------------------------------------------------------------------------
(* The list kmalloc leaves behind, by what it does to each block.           *)

TakenFrom(m, t, h, n) ==
  /\ Shape(t) /\ h \in DOMAIN t /\ DOMAIN m \subseteq DOMAIN t
  /\ t[h].size >= n /\ ~t[h].is_free
  /\ \A a \in DOMAIN m \ {h} : /\ t[a].size = m[a].size
                               /\ t[a].is_free = m[a].is_free
  /\ \A a \in DOMAIN t \ DOMAIN m : t[a].is_free
  /\ NoFreePair(t)

(* Taking a free block, split or whole, changes the use of no other block.  *)
LEMMA TakeResult ==
  ASSUME NEW m, Shape(m), NoFreePair(m), NEW h \in DOMAIN m, NEW n \in Nat,
         m[h].is_free, m[h].size >= n
  PROVE  TakenFrom(m, Mark(IF m[h].size >= n + HDR + 1 THEN Split(m, h, n)
                                                       ELSE m, h, FALSE), h, n)
<1>1. CASE m[h].size >= n + HDR + 1
  <2> DEFINE s == Split(m, h, n)
             rest == h + HDR + n
             t == Mark(s, h, FALSE)
  <2>1. SplitResult(m, h, n, s, rest) /\ Shape(s)
    BY <1>1, SplitFields, SplitShape
  <2> HIDE DEF s, rest
  <2>2. /\ rest \notin DOMAIN m /\ h # rest /\ DOMAIN s = DOMAIN m \cup {rest}
        /\ s[rest].is_free /\ s[rest].next = m[h].next /\ s[h].size = n
    BY <2>1, Fields DEF SplitResult
  <2>3. \A a \in DOMAIN m \ {h} :
          /\ s[a].size = m[a].size /\ s[a].next = m[a].next
          /\ s[a].is_free = m[a].is_free
    BY <2>1 DEF SplitResult
  <2>0. MarkResult(s, h, FALSE, t)
    BY <2>1, <2>2, MarkShape
  <2> HIDE DEF t
  <2>4. /\ Shape(t) /\ DOMAIN t = DOMAIN s /\ ~t[h].is_free
        /\ t[h].size = n /\ t[rest].is_free /\ t[rest].next = m[h].next
        /\ \A a \in DOMAIN m \ {h} :
             /\ t[a].size = m[a].size /\ t[a].next = m[a].next
             /\ t[a].is_free = m[a].is_free
    BY <2>0, <2>2, <2>3 DEF MarkResult
  <2>5. NoFreePair(t)
    <3> SUFFICES ASSUME NEW a \in DOMAIN t, t[a].is_free, t[a].next # 0
                 PROVE  ~t[t[a].next].is_free
      BY DEF NoFreePair
    <3>1. a # h /\ a \in DOMAIN s
      BY <2>4
    <3>2. CASE a = rest
      <4>1. t[a].next = m[h].next
        BY <2>4, <3>2
      <4>2. m[h].next \in DOMAIN m /\ m[h].next # h /\ ~m[m[h].next].is_free
        <5>1. m[h].next \in DOMAIN m /\ m[h].next = Past(m, h)
          BY <4>1 DEF Shape, TiledBy
        <5>2. m[h].next # h
          BY <5>1, PastEnd, Fields, HdrAssumption
        <5> QED BY <4>1, <5>1, <5>2 DEF NoFreePair
      <4>3. m[h].next \in DOMAIN m \ {h}
        BY <4>2
      <4> QED BY <2>4, <4>1, <4>2, <4>3
    <3>3. CASE a # rest
      <4>1. a \in DOMAIN m \ {h} /\ m[a].is_free /\ t[a].next = m[a].next
        BY <2>2, <2>4, <3>1, <3>3
      <4>2. m[a].next \in DOMAIN m /\ ~m[m[a].next].is_free
        BY <4>1 DEF NoFreePair, Shape, TiledBy
      <4>3. m[a].next \in DOMAIN m \ {h}
        BY <4>2
      <4> QED BY <2>4, <4>1, <4>2, <4>3
    <3> QED BY <3>2, <3>3
  <2>6. TakenFrom(m, t, h, n)
    <3>1. t[h].size >= n /\ h \in DOMAIN t /\ DOMAIN m \subseteq DOMAIN t
      BY <2>2, <2>4
    <3>2. \A a \in DOMAIN t \ DOMAIN m : t[a].is_free
      BY <2>2, <2>4
    <3> QED BY <2>4, <2>5, <3>1, <3>2 DEF TakenFrom
  <2> QED BY <1>1, <2>6 DEF t, s
<1>2. CASE ~(m[h].size >= n + HDR + 1)
  <2> DEFINE t == Mark(m, h, FALSE)
  <2>0. MarkResult(m, h, FALSE, t)
    BY MarkShape
  <2> HIDE DEF t
  <2>1. /\ Shape(t) /\ DOMAIN t = DOMAIN m /\ ~t[h].is_free
        /\ \A a \in DOMAIN m :
             t[a].size = m[a].size /\ t[a].next = m[a].next
        /\ \A a \in DOMAIN m \ {h} : t[a].is_free = m[a].is_free
    BY <2>0 DEF MarkResult
  <2>2. NoFreePair(t)
    <3> SUFFICES ASSUME NEW a \in DOMAIN t, t[a].is_free, t[a].next # 0
                 PROVE  ~t[t[a].next].is_free
      BY DEF NoFreePair
    <3>1. m[a].is_free /\ m[a].next = t[a].next
      BY <2>1
    <3>2. m[a].next \in DOMAIN m /\ ~m[m[a].next].is_free
      BY <2>1, <3>1 DEF NoFreePair, Shape, TiledBy
    <3> QED BY <2>1, <3>1, <3>2
  <2>3. TakenFrom(m, t, h, n)
    BY <2>1, <2>2 DEF TakenFrom
  <2> QED BY <1>2, <2>3 DEF t
<1> QED BY <1>1, <1>2

(* The block kmalloc takes was free, fits, and is nobody's.                 *)
LEMMA TakeFacts ==
  ASSUME IInv, KmallocTake
  PROVE  /\ current \in DOMAIN hdr /\ hdr[current].is_free
         /\ request \in Nat /\ request \in Sizes
         /\ Shape(hdr) /\ NoFreePair(hdr)
         /\ TakenFrom(hdr, hdr', current, request)
         /\ current + HDR \notin DOMAIN held
<1>1. current \in DOMAIN hdr /\ Fits(current)
  BY DEF IInv, TypeOK, KmallocTake
<1>2. Shape(hdr) /\ NoFreePair(hdr)
  BY ShapeOfHeap DEF IInv, Coalesced, NoFreePair
<1>3. request \in Nat
  BY SizesAssumption DEF IInv, TypeOK
<1>4. TakenFrom(hdr, hdr', current, request)
  BY <1>1, <1>2, <1>3, TakeResult DEF KmallocTake, Fits, Splits
<1>5. current + HDR \notin DOMAIN held
  <2> DEFINE p == current + HDR
  <2>1. p - HDR = current
    BY <1>1, <1>2, Fields, HdrAssumption
  <2>2. hdr[current].is_free
    BY <1>1 DEF Fits
  <2> HIDE DEF p
  <2>3. p \notin DOMAIN held
    BY <2>1, <2>2 DEF IInv, HeldBlocks
  <2> QED BY <2>3 DEF p
<1>6. request \in Sizes
  BY DEF KmallocTake, IInv, TypeOK
<1> QED BY <1>1, <1>2, <1>3, <1>4, <1>5, <1>6 DEF Fits

(* A kmalloc that succeeds keeps the invariant.                             *)
LEMMA TakeKeeps ==
  ASSUME IInv, KmallocTake
  PROVE  IInv'
<1> DEFINE p == current + HDR
<1>1. /\ current \in DOMAIN hdr /\ hdr[current].is_free /\ Shape(hdr)
      /\ request \in Nat /\ request \in Sizes
      /\ Shape(hdr') /\ current \in DOMAIN hdr'
      /\ DOMAIN hdr \subseteq DOMAIN hdr'
      /\ hdr'[current].size >= request /\ ~hdr'[current].is_free
  BY TakeFacts DEF TakenFrom
<1>2. \A a \in DOMAIN hdr \ {current} : /\ hdr'[a].size = hdr[a].size
                                        /\ hdr'[a].is_free = hdr[a].is_free
  BY TakeFacts DEF TakenFrom
<1>3. \A a \in DOMAIN hdr' \ DOMAIN hdr : hdr'[a].is_free
  BY TakeFacts DEF TakenFrom
<1>4. NoFreePair(hdr')
  BY TakeFacts DEF TakenFrom
<1>5. p \in Start .. End /\ p - HDR = current
  BY <1>1, Fields, HdrAssumption, StartAssumption, LengthAssumption DEF End
<1>6. /\ DOMAIN held' = DOMAIN held \cup {p}
      /\ held'[p] = request
      /\ \A q \in DOMAIN held \ {p} : held'[q] = held[q]
      /\ held' = [q \in DOMAIN held \cup {p} |-> held'[q]]
  BY DEF KmallocTake
<1>7. pc' = "idle" /\ current' = 0 /\ request' = 0
  BY DEF KmallocTake
<1> HIDE DEF p
<1>8. TypeOK'
  <2>1. \A q \in DOMAIN held' : held'[q] \in Sizes /\ q \in Start .. End
    BY <1>1, <1>5, <1>6 DEF IInv, TypeOK
  <2>2. held' \in [DOMAIN held' -> Sizes]
    BY <1>6, <2>1
  <2> QED BY <1>1, <1>7, <2>1, <2>2 DEF Shape, TypeOK
<1>9. Tiled'
  BY <1>1 DEF Shape, Tiled
<1>10. Coalesced'
  BY <1>4 DEF Coalesced, NoFreePair
<1>11. HeldBlocks'
  <2>1. \A q \in DOMAIN held : /\ q - HDR \in DOMAIN hdr
                              /\ ~hdr[q - HDR].is_free
                              /\ held[q] <= hdr[q - HDR].size
    BY DEF IInv, HeldBlocks
  <2>2. ASSUME NEW q \in DOMAIN held'
        PROVE  /\ q - HDR \in DOMAIN hdr' /\ ~hdr'[q - HDR].is_free
               /\ held'[q] <= hdr'[q - HDR].size
    <3>1. CASE q = p
      <4>1. hdr'[current].size \in Nat
        BY <1>1, Fields
      <4> QED BY <1>1, <1>5, <1>6, <3>1, <4>1
    <3>2. CASE q # p
      <4>1. q \in DOMAIN held /\ held'[q] = held[q]
        BY <1>6, <3>2
      <4>2. q - HDR \in DOMAIN hdr \ {current}
        BY <1>1, <2>1, <4>1
      <4> QED BY <1>1, <1>2, <2>1, <4>1, <4>2
    <3> QED BY <3>1, <3>2
  <2>3. ASSUME NEW a \in DOMAIN hdr', ~hdr'[a].is_free
        PROVE  a + HDR \in DOMAIN held'
    <3>1. a \in DOMAIN hdr
      BY <1>3, <2>3
    <3>2. a # current => a + HDR \in DOMAIN held
      BY <1>2, <2>3, <3>1 DEF IInv, HeldBlocks
    <3> QED BY <1>6, <3>2 DEF p
  <2> QED BY <2>2, <2>3 DEF HeldBlocks
<1>12. Scanned'
  BY <1>7 DEF Scanned
<1> QED BY <1>8, <1>9, <1>10, <1>11, <1>12 DEF IInv

-----------------------------------------------------------------------------
(* kfree: while block h of m is being freed, the list t has the same blocks *)
(* in use but h, and the only free neighbours are h and those next to it.   *)

SameUse(m, t, h) ==
  /\ \A a \in DOMAIN m \ {h} : ~m[a].is_free =>
       a \in DOMAIN t /\ ~t[a].is_free /\ t[a].size = m[a].size
  /\ \A a \in DOMAIN t : ~t[a].is_free =>
       a \in DOMAIN m \ {h} /\ ~m[a].is_free

Freeing(m, t, h) ==
  /\ Shape(t) /\ h \in DOMAIN t /\ t[h].is_free
  /\ SameUse(m, t, h)
  /\ \A a \in DOMAIN t \ {h} :
       t[a].is_free /\ t[a].next \notin {0, h} => ~t[t[a].next].is_free

(* Marking a block free begins a kfree.                                     *)
LEMMA MarkFreeing ==
  ASSUME NEW m, Shape(m), NoFreePair(m), NEW h \in DOMAIN m, ~m[h].is_free
  PROVE  Freeing(m, Mark(m, h, TRUE), h)
<1> DEFINE k == Mark(m, h, TRUE)
<1>1. MarkResult(m, h, TRUE, k)
  BY MarkShape
<1> HIDE DEF k
<1>2. /\ Shape(k) /\ DOMAIN k = DOMAIN m /\ k[h].is_free
      /\ \A a \in DOMAIN m : k[a].size = m[a].size /\ k[a].next = m[a].next
      /\ \A a \in DOMAIN m \ {h} : k[a].is_free = m[a].is_free
  BY <1>1 DEF MarkResult
<1>3. SameUse(m, k, h)
  BY <1>2 DEF SameUse
<1>4. ASSUME NEW a \in DOMAIN k \ {h}, k[a].is_free, k[a].next \notin {0, h}
      PROVE  ~k[k[a].next].is_free
  <2>1. m[a].is_free /\ m[a].next = k[a].next /\ m[a].next \in DOMAIN m \ {h}
    BY <1>2, <1>4 DEF Shape, TiledBy
  <2>2. ~m[m[a].next].is_free
    BY <1>2, <1>4, <2>1 DEF NoFreePair
  <2> QED BY <1>2, <2>1, <2>2
<1>5. Freeing(m, k, h)
  BY <1>2, <1>3, <1>4 DEF Freeing
<1> QED BY <1>5 DEF k

(* Two blocks have the same successor only if they are the same block.      *)
LEMMA NextInjective ==
  ASSUME NEW m, Shape(m), NEW a \in DOMAIN m, NEW b \in DOMAIN m,
         m[a].next # 0, m[a].next = m[b].next
  PROVE  a = b
  BY DEF Shape, TiledBy

(* The list goes up in addresses.                                           *)
LEMMA NextAbove ==
  ASSUME NEW m, Shape(m), NEW a \in DOMAIN m, m[a].next # 0
  PROVE  m[a].next \in DOMAIN m /\ a < m[a].next /\ m[a].next \in Nat
<1>1. m[a].next \in DOMAIN m /\ m[a].next = Past(m, a)
  BY DEF Shape, TiledBy
<1> QED BY <1>1, PastEnd, Fields, HdrAssumption

NextInUse(t, h) == t[h].next # 0 => ~t[t[h].next].is_free

(* After the join with the block above the one above is in use.             *)
LEMMA JoinNextFreeing ==
  ASSUME NEW m, NEW k, NEW h, Freeing(m, k, h)
  PROVE  Freeing(m, JoinNext(k, h), h) /\ NextInUse(JoinNext(k, h), h)
<1>1. Shape(k) /\ h \in DOMAIN k /\ k[h].is_free /\ SameUse(m, k, h)
  BY DEF Freeing
<1>2. \A a \in DOMAIN k \ {h} :
        k[a].is_free /\ k[a].next \notin {0, h} => ~k[k[a].next].is_free
  BY DEF Freeing
<1>3. CASE k[h].next # 0 /\ k[k[h].next].is_free
  <2> DEFINE j == Join(k, h)
             gone == k[h].next
  <2>1. JoinResult(k, h, j, gone) /\ Shape(j)
    BY <1>1, <1>3, JoinFields, JoinShape
  <2>2. \A a \in DOMAIN k : a # h => k[a].next # gone
    BY <1>1, <1>3, NextInjective
  <2>3. k[gone].is_free
    BY <1>3
  <2> HIDE DEF j, gone
  <2>4. /\ gone \in DOMAIN k /\ gone # h /\ h < gone
        /\ DOMAIN j = DOMAIN k \ {gone}
        /\ j[h].next = k[gone].next /\ j[h].is_free
        /\ \A a \in DOMAIN k \ {gone, h} :
             /\ j[a].size = k[a].size /\ j[a].next = k[a].next
             /\ j[a].is_free = k[a].is_free
    BY <1>1, <2>1 DEF JoinResult
  <2>5. SameUse(m, j, h)
    <3>1. ASSUME NEW a \in DOMAIN m \ {h}, ~m[a].is_free
          PROVE  a \in DOMAIN j /\ ~j[a].is_free /\ j[a].size = m[a].size
      <4>1. a \in DOMAIN k /\ ~k[a].is_free /\ k[a].size = m[a].size
        BY <1>1, <3>1 DEF SameUse
      <4>2. a \in DOMAIN k \ {gone, h}
        BY <1>1, <2>3, <4>1
      <4> QED BY <2>4, <4>1, <4>2
    <3>2. ASSUME NEW a \in DOMAIN j, ~j[a].is_free
          PROVE  a \in DOMAIN m \ {h} /\ ~m[a].is_free
      <4>1. a \in DOMAIN k \ {gone, h}
        BY <2>4, <3>2
      <4>2. ~k[a].is_free
        BY <2>4, <3>2, <4>1
      <4> QED BY <1>1, <4>1, <4>2 DEF SameUse
    <3> QED BY <3>1, <3>2 DEF SameUse
  <2>6. ASSUME k[gone].next # 0
        PROVE  k[gone].next \in DOMAIN k \ {gone, h} /\ ~k[k[gone].next].is_free
    <3>1. k[gone].next \in DOMAIN k /\ gone < k[gone].next
          /\ h \in Nat /\ gone \in Nat /\ k[gone].next \in Nat
      BY <1>1, <2>4, <2>6, NextAbove, Fields
    <3>2. k[gone].next \notin {0, gone, h}
      BY <2>4, <2>6, <3>1
    <3> QED BY <1>2, <2>3, <2>4, <3>1, <3>2
  <2>7. NextInUse(j, h)
    BY <2>4, <2>6 DEF NextInUse
  <2>8. ASSUME NEW a \in DOMAIN j \ {h}, j[a].is_free, j[a].next \notin {0, h}
        PROVE  ~j[j[a].next].is_free
    <3>1. a \in DOMAIN k \ {gone, h} /\ k[a].is_free /\ j[a].next = k[a].next
      BY <2>4, <2>8
    <3>2. k[a].next \in DOMAIN k \ {gone, h}
      BY <1>1, <2>2, <2>8, <3>1, NextAbove
    <3>3. ~k[k[a].next].is_free
      BY <1>2, <2>8, <3>1
    <3> QED BY <2>4, <3>1, <3>2, <3>3
  <2>9. Freeing(m, j, h)
    BY <1>1, <2>1, <2>4, <2>5, <2>8 DEF Freeing
  <2>10. JoinNext(k, h) = j
    BY <1>3 DEF JoinNext, j
  <2> QED BY <2>7, <2>9, <2>10
<1>4. CASE ~(k[h].next # 0 /\ k[k[h].next].is_free)
  <2>1. JoinNext(k, h) = k
    BY <1>4 DEF JoinNext
  <2> QED BY <1>4, <2>1 DEF NextInUse
<1> QED BY <1>3, <1>4

(* After the join with the block below no two free blocks are neighbours.   *)
LEMMA JoinPrevDone ==
  ASSUME NEW m, NEW n, NEW h, Freeing(m, n, h), NextInUse(n, h)
  PROVE  /\ Shape(JoinPrev(n, h)) /\ NoFreePair(JoinPrev(n, h))
         /\ SameUse(m, JoinPrev(n, h), h)
<1> DEFINE q == n[h].prev
<1>1. Shape(n) /\ h \in DOMAIN n /\ n[h].is_free /\ SameUse(m, n, h)
  BY DEF Freeing
<1>2. \A a \in DOMAIN n \ {h} :
        n[a].is_free /\ n[a].next \notin {0, h} => ~n[n[a].next].is_free
  BY DEF Freeing
<1>3. h # 0 /\ \A a \in DOMAIN n : n[a].next = h => a = q
  <2>1. h # 0
    BY <1>1, Fields, StartAssumption
  <2>2. \A a \in DOMAIN n : n[a].next # 0 => n[n[a].next].prev = a
    BY <1>1 DEF Shape, TiledBy
  <2> QED BY <2>1, <2>2
<1>4. CASE q # 0 /\ n[q].is_free
  <2> DEFINE j == Join(n, q)
  <2>1. q \in DOMAIN n /\ n[q].next = h /\ h # 0
    <3>1. n[Start].prev = 0
      BY <1>1 DEF Shape, TiledBy
    <3>2. h # Start
      BY <1>4, <3>1
    <3> QED BY <1>1, <1>3, <3>2 DEF Shape, TiledBy
  <2>2. JoinResult(n, q, j, h) /\ Shape(j)
    BY <1>1, <2>1, JoinFields, JoinShape
  <2>3. JoinPrev(n, h) = j
    BY <1>4 DEF JoinPrev
  <2> HIDE DEF j, q
  <2>4. /\ h # q /\ DOMAIN j = DOMAIN n \ {h}
        /\ j[q].next = n[h].next /\ j[q].is_free
        /\ \A a \in DOMAIN n \ {h, q} :
             /\ j[a].size = n[a].size /\ j[a].next = n[a].next
             /\ j[a].is_free = n[a].is_free
    BY <1>4, <2>2 DEF JoinResult
  <2>5. \A a \in DOMAIN j : j[a].is_free = n[a].is_free
    <3> SUFFICES ASSUME NEW a \in DOMAIN j PROVE j[a].is_free = n[a].is_free
      OBVIOUS
    <3>1. CASE a = q
      BY <2>1, <2>2, <3>1 DEF JoinResult
    <3>2. CASE a # q
      BY <2>4, <3>2
    <3> QED BY <3>1, <3>2
  <2>6. NoFreePair(j)
    <3> SUFFICES ASSUME NEW a \in DOMAIN j, j[a].is_free, j[a].next # 0
                 PROVE  ~j[j[a].next].is_free
      BY DEF NoFreePair
    <3>1. j[a].next \in DOMAIN j
      BY <2>2 DEF Shape, TiledBy
    <3>2. CASE a = q
      BY <2>4, <2>5, <3>1, <3>2 DEF NextInUse
    <3>3. CASE a # q
      <4>1. a \in DOMAIN n \ {h, q} /\ n[a].is_free /\ j[a].next = n[a].next
        BY <2>4, <3>3
      <4>2. n[a].next # h
        BY <1>3, <3>3, <4>1
      <4>3. ~n[n[a].next].is_free
        BY <1>2, <4>1, <4>2
      <4> QED BY <2>5, <3>1, <4>1, <4>3
    <3> QED BY <3>2, <3>3
  <2>7. SameUse(m, j, h)
    <3>1. ASSUME NEW a \in DOMAIN m \ {h}, ~m[a].is_free
          PROVE  a \in DOMAIN j /\ ~j[a].is_free /\ j[a].size = m[a].size
      <4>1. a \in DOMAIN n /\ ~n[a].is_free /\ n[a].size = m[a].size
        BY <1>1, <3>1 DEF SameUse
      <4>2. a \in DOMAIN n \ {h, q}
        BY <1>1, <1>4, <4>1
      <4> QED BY <2>4, <4>1, <4>2
    <3>2. ASSUME NEW a \in DOMAIN j, ~j[a].is_free
          PROVE  a \in DOMAIN m \ {h} /\ ~m[a].is_free
      BY <1>1, <2>4, <2>5, <3>2 DEF SameUse
    <3> QED BY <3>1, <3>2 DEF SameUse
  <2> QED BY <2>2, <2>3, <2>6, <2>7
<1>5. CASE ~(q # 0 /\ n[q].is_free)
  <2>1. JoinPrev(n, h) = n
    BY <1>5 DEF JoinPrev
  <2> HIDE DEF q
  <2>2. NoFreePair(n)
    <3> SUFFICES ASSUME NEW a \in DOMAIN n, n[a].is_free, n[a].next # 0
                 PROVE  ~n[n[a].next].is_free
      BY DEF NoFreePair
    <3>1. a # 0
      BY <1>1, Fields, StartAssumption
    <3>2. n[a].next # h
      BY <1>3, <1>5, <3>1
    <3>3. CASE a = h
      BY <3>3 DEF NextInUse
    <3>4. CASE a # h
      BY <1>2, <3>2, <3>4
    <3> QED BY <3>3, <3>4
  <2> QED BY <1>1, <2>1, <2>2
<1> QED BY <1>4, <1>5

(* kfree of a held pointer frees its block and changes the use of no other. *)
LEMMA KfreeFacts ==
  ASSUME IInv, NEW p \in DOMAIN held, Kfree(p)
  PROVE  /\ p - HDR \in DOMAIN hdr /\ p - HDR + HDR = p
         /\ Shape(hdr') /\ NoFreePair(hdr') /\ SameUse(hdr, hdr', p - HDR)
<1> DEFINE h == p - HDR
           k == Mark(hdr, h, TRUE)
           n == JoinNext(k, h)
<1>1. Shape(hdr) /\ NoFreePair(hdr)
  BY ShapeOfHeap DEF IInv, Coalesced, NoFreePair
<1>2. h \in DOMAIN hdr /\ ~hdr[h].is_free
  BY DEF IInv, HeldBlocks
<1>3. p \in Int
  BY StartAssumption, LengthAssumption DEF IInv, TypeOK, End
<1>4. hdr' = JoinPrev(n, h)
  BY DEF Kfree
<1>5. h + HDR = p
  BY <1>3, HdrAssumption
<1> HIDE DEF h
<1>6. Freeing(hdr, k, h)
  BY <1>1, <1>2, MarkFreeing
<1> HIDE DEF k
<1>7. Freeing(hdr, n, h) /\ NextInUse(n, h)
  BY <1>6, JoinNextFreeing
<1> HIDE DEF n
<1>8. Shape(hdr') /\ NoFreePair(hdr') /\ SameUse(hdr, hdr', h)
  BY <1>4, <1>7, JoinPrevDone
<1> QED BY <1>2, <1>5, <1>8 DEF h

(* A kfree keeps the invariant.                                             *)
LEMMA KfreeKeeps ==
  ASSUME IInv, NEW p \in DOMAIN held, Kfree(p)
  PROVE  IInv'
<1> DEFINE h == p - HDR
<1>1. /\ h \in DOMAIN hdr /\ h + HDR = p /\ Shape(hdr') /\ NoFreePair(hdr')
      /\ SameUse(hdr, hdr', h)
  BY KfreeFacts
<1>2. pc' = "idle" /\ pc = "idle" /\ current' = current /\ request' = request
  BY DEF Kfree
<1>3. /\ DOMAIN held' = DOMAIN held \ {p}
      /\ held' = [q \in DOMAIN held \ {p} |-> held'[q]]
      /\ \A q \in DOMAIN held \ {p} : held'[q] = held[q]
  BY DEF Kfree
<1> HIDE DEF h
<1>4. current' = 0
  BY <1>2 DEF IInv, TypeOK
<1>5. TypeOK'
  <2>1. held' \in [DOMAIN held' -> Sizes]
    BY <1>3 DEF IInv, TypeOK
  <2>2. DOMAIN held' \subseteq Start .. End
    BY <1>3 DEF IInv, TypeOK
  <2> QED BY <1>1, <1>2, <1>4, <2>1, <2>2 DEF IInv, TypeOK, Shape
<1>6. Tiled' /\ Coalesced'
  BY <1>1 DEF Shape, Tiled, Coalesced, NoFreePair
<1>7. HeldBlocks'
  <2>1. ASSUME NEW q \in DOMAIN held'
        PROVE  /\ q - HDR \in DOMAIN hdr' /\ ~hdr'[q - HDR].is_free
               /\ held'[q] <= hdr'[q - HDR].size
    <3> DEFINE a == q - HDR
    <3>1. q \in DOMAIN held /\ q # p /\ held'[q] = held[q]
      BY <1>3
    <3>2. a \in DOMAIN hdr /\ ~hdr[a].is_free /\ held[q] <= hdr[a].size
      BY <3>1 DEF IInv, HeldBlocks
    <3>3. a # h
      <4>1. q \in Int /\ p \in Int
        BY <3>1, StartAssumption, LengthAssumption DEF IInv, TypeOK, End
      <4> QED BY <3>1, <4>1, HdrAssumption DEF h
    <3> HIDE DEF a
    <3>4. a \in DOMAIN hdr' /\ ~hdr'[a].is_free /\ hdr'[a].size = hdr[a].size
      BY <1>1, <3>2, <3>3 DEF SameUse
    <3>5. held'[q] <= hdr'[a].size
      BY <3>1, <3>2, <3>4
    <3> QED BY <3>4, <3>5 DEF a
  <2>2. ASSUME NEW a \in DOMAIN hdr', ~hdr'[a].is_free
        PROVE  a + HDR \in DOMAIN held'
    <3>1. a \in DOMAIN hdr \ {h} /\ ~hdr[a].is_free
      BY <1>1, <2>2 DEF SameUse
    <3>2. a + HDR \in DOMAIN held
      BY <3>1 DEF IInv, HeldBlocks
    <3>3. a + HDR # p
      <4>1. a \in Nat /\ h \in Nat
        BY <1>1, <3>1, ShapeOfHeap, Fields DEF IInv
      <4> QED BY <1>1, <3>1, <4>1, HdrAssumption
    <3> QED BY <1>3, <3>2, <3>3
  <2> QED BY <2>1, <2>2 DEF HeldBlocks
<1>8. Scanned'
  BY <1>2 DEF Scanned
<1> QED BY <1>5, <1>6, <1>7, <1>8 DEF IInv

(* The inductive invariant holds in every reachable state.                  *)
LEMMA Inductive == Init /\ [][Next]_vars => []IInv
<1>1. IInv /\ [Next]_vars => IInv'
  <2> SUFFICES ASSUME IInv, [Next]_vars PROVE IInv'
    OBVIOUS
  <2>1. CASE \E n \in Sizes : KmallocCall(n)
    BY <2>1, CallScans
  <2>2. CASE KmallocSkip
    BY <2>2, SkipScans
  <2>3. CASE KmallocTake
    BY <2>3, TakeKeeps
  <2>4. CASE KmallocNull
    BY <2>4, NullScans
  <2>5. CASE \E p \in DOMAIN held : Kfree(p)
    BY <2>5, KfreeKeeps
  <2>6. CASE UNCHANGED vars
    BY <2>6 DEF vars, IInv, TypeOK, Tiled, TiledBy, Past, Coalesced,
                HeldBlocks, Scanned, Fits
  <2> QED BY <2>1, <2>2, <2>3, <2>4, <2>5, <2>6 DEF Next
<1> QED BY InitIInv, <1>1, PTL

-----------------------------------------------------------------------------
(* Every header and every field of it keeps its type and stays in the heap. *)
THEOREM TypeCorrect == Spec => []TypeOK
<1>1. IInv => TypeOK
  BY DEF IInv
<1> QED BY <1>1, Inductive, PTL DEF Spec

(* kmalloc and kfree keep the blocks tiling the heap and the list doubly    *)
(* linked in address order, for any sequence of calls.                      *)
THEOREM HeapIsTiled == Spec => []Tiled
<1>1. IInv => Tiled
  BY DEF IInv
<1> QED BY <1>1, Inductive, PTL DEF Spec

(* kfree leaves no two free neighbours.                                     *)
THEOREM HeapIsCoalesced == Spec => []Coalesced
<1>1. IInv => Coalesced
  BY DEF IInv
<1> QED BY <1>1, Inductive, PTL DEF Spec

(* The blocks in use are exactly those callers hold, and long enough.       *)
THEOREM HeldAreBlocks == Spec => []HeldBlocks
<1>1. IInv => HeldBlocks
  BY DEF IInv
<1> QED BY <1>1, Inductive, PTL DEF Spec

(* With nothing held the heap is the one free block of kheap_init.          *)
THEOREM EmptyHeapIsWhole == Spec => []EmptyIsWhole
<1>1. IInv => EmptyIsWhole
  <2> SUFFICES ASSUME IInv, held = EmptyMap PROVE hdr = kheap_init
    BY DEF EmptyIsWhole
  <2>1. Shape(hdr) /\ NoFreePair(hdr) /\ Start \in DOMAIN hdr
    BY ShapeOfHeap DEF IInv, Coalesced, NoFreePair, Tiled, TiledBy
  <2>2. DOMAIN held = {}
    BY DEF EmptyMap
  <2>3. \A h \in DOMAIN hdr : hdr[h].is_free
    BY <2>2 DEF IInv, HeldBlocks
  <2>4. hdr[Start].next = 0 /\ hdr[Start].prev = 0 /\ hdr[Start].is_free
    BY <2>1, <2>3, NextAbove DEF NoFreePair, Shape, TiledBy
  <2>5. Past(hdr, Start) = End
    BY <2>1, <2>4 DEF Shape, TiledBy
  <2>6. hdr[Start].size = Length - HDR
    BY <2>1, <2>5, Fields, StartAssumption, LengthAssumption, HdrAssumption
       DEF Past, End
  <2>7. DOMAIN hdr = {Start}
    <3> SUFFICES ASSUME NEW h \in DOMAIN hdr, h # Start PROVE FALSE
      BY <2>1
    <3>1. h \in Nat /\ Start < h /\ h <= End - HDR
      BY <2>1, Fields, StartAssumption
    <3>2. Past(hdr, Start) <= h
      BY <2>1, <3>1 DEF Shape, TiledBy
    <3> QED BY <2>5, <3>1, <3>2, StartAssumption, LengthAssumption,
               HdrAssumption DEF End
  <2>8. hdr[Start] = [size |-> Length - HDR, is_free |-> TRUE,
                      next |-> 0, prev |-> 0]
    <3>1. hdr[Start] \in Header
      BY <2>1 DEF Shape
    <3> QED BY <2>4, <2>6, <3>1 DEF Header
  <2>9. hdr = [h \in DOMAIN hdr |-> hdr[h]]
    BY <2>1 DEF Shape
  <2> QED BY <2>7, <2>8, <2>9 DEF kheap_init
<1> QED BY <1>1, Inductive, PTL DEF Spec

(* A step of kmalloc that hands out memory changes what callers hold.       *)
LEMMA TakeHands ==
  ASSUME IInv, KmallocTake
  PROVE  held' # held
<1>1. current + HDR \notin DOMAIN held
  BY TakeFacts
<1>2. current + HDR \in DOMAIN held'
  BY DEF KmallocTake
<1> QED BY <1>1, <1>2

(* kmalloc answers NULL only when no free block of the heap is long enough. *)
THEOREM NullMeansFull == Spec => NullOnlyWhenFull
<1>1. IInv /\ [Next]_vars
        => [pc = "scan" /\ pc' = "idle" /\ held' = held
              => \A h \in DOMAIN hdr : ~Fits(h)]_vars
  <2> SUFFICES ASSUME IInv, [Next]_vars, pc = "scan", pc' = "idle", held' = held
               PROVE  \A h \in DOMAIN hdr : ~Fits(h)
    OBVIOUS
  <2>1. KmallocNull \/ KmallocTake
    BY DEF Next, KmallocCall, KmallocSkip, Kfree, vars
  <2>2. KmallocNull
    BY <2>1, TakeHands
  <2>3. current = 0
    BY <2>2 DEF KmallocNull
  <2> QED BY <2>3 DEF IInv, Scanned
<1> QED BY <1>1, Inductive, PTL DEF Spec, NullOnlyWhenFull

(* A kmalloc that succeeds is an allocation of Allocator.tla: its bytes are *)
(* nobody's.                                                                *)
LEMMA TakeAllocates ==
  ASSUME IInv, KmallocTake
  PROVE  Heap!Alloc(current + HDR, request) /\ current + HDR \in Start .. End
         /\ request \in Sizes
<1> DEFINE p == current + HDR
<1>1. /\ current \in DOMAIN hdr /\ hdr[current].is_free /\ Shape(hdr)
      /\ request \in Nat /\ request \in Sizes /\ p \notin DOMAIN held
  BY TakeFacts
<1>2. hdr[current].size >= request /\ hdr[current].size \in Nat /\ current \in Nat
      /\ Start <= current
  BY <1>1, Fields DEF KmallocTake, Fits
<1>3. p + request <= Past(hdr, current) /\ Past(hdr, current) <= End
  BY <1>1, <1>2, PastEnd, HdrAssumption DEF Past
<1>4. p \in Start .. End
  BY <1>1, <1>2, Fields, HdrAssumption, StartAssumption, LengthAssumption DEF End
<1>5. Heap!Bytes(p, request) \subseteq Start .. End - 1
  <2>1. p \in Nat /\ Start <= p /\ p + request <= End /\ End \in Nat
    <3>1. Past(hdr, current) \in Nat
      BY <1>1, PastEnd
    <3> QED BY <1>1, <1>3, <1>4, <3>1, StartAssumption, LengthAssumption DEF End
  <2> HIDE DEF p
  <2> QED BY <1>1, <2>1, StartAssumption DEF Heap!Bytes
<1>6. ASSUME NEW q \in DOMAIN held
      PROVE  Heap!Bytes(p, request) \cap Heap!Bytes(q, held[q]) = {}
  <2> DEFINE a == q - HDR
  <2>1. a \in DOMAIN hdr /\ ~hdr[a].is_free /\ held[q] <= hdr[a].size
    BY <1>6 DEF IInv, HeldBlocks
  <2>2. q \in Int /\ held[q] \in Nat
    BY <1>6, SizesAssumption, StartAssumption, LengthAssumption
       DEF IInv, TypeOK, End
  <2>3. q = a + HDR
    BY <2>2, HdrAssumption
  <2> HIDE DEF a
  <2>4. Past(hdr, current) <= a \/ Past(hdr, a) <= current
    BY <1>1, <2>1, Disjoint
  <2>5. a \in Nat /\ hdr[a].size \in Nat
    BY <1>1, <2>1, Fields
  <2>6. q + held[q] <= Past(hdr, a)
    BY <2>1, <2>2, <2>3, <2>5, HdrAssumption DEF Past
  <2>7. p + request <= q \/ q + held[q] <= p
    <3>1. Past(hdr, a) \in Nat /\ Past(hdr, current) \in Nat
      BY <1>1, <2>1, PastEnd
    <3> QED BY <1>1, <1>2, <1>3, <2>2, <2>3, <2>4, <2>5, <2>6, <3>1,
               HdrAssumption
  <2>8. p \in Nat
    BY <1>2, HdrAssumption
  <2> HIDE DEF p
  <2> QED BY <1>1, <2>2, <2>7, <2>8 DEF Heap!Bytes
<1>7. held' = [q \in DOMAIN held \cup {p} |-> IF q = p THEN request ELSE held[q]]
  BY DEF KmallocTake
<1> QED BY <1>1, <1>4, <1>5, <1>6, <1>7 DEF Heap!Alloc

(* kmalloc and kfree implement the abstract allocator: regions handed out   *)
(* are long enough, inside the heap, and disjoint from all that are held.   *)
THEOREM HeapIsAllocator == Spec => ImplementsAllocator
<1>1. Init => Heap!Init
  BY DEF Init, Heap!Init, EmptyMap
<1>2. IInv /\ [Next]_vars => [Heap!Next]_held
  <2> SUFFICES ASSUME IInv, [Next]_vars PROVE Heap!Next \/ held' = held
    OBVIOUS
  <2>1. CASE KmallocTake
    BY <2>1, TakeAllocates DEF Heap!Next
  <2>2. ASSUME NEW p \in DOMAIN held, Kfree(p) PROVE Heap!Next
    BY <2>2 DEF Kfree, Heap!Free, Heap!Next
  <2>3. CASE \/ \E n \in Sizes : KmallocCall(n)
             \/ KmallocSkip \/ KmallocNull \/ UNCHANGED vars
    BY <2>3 DEF KmallocCall, KmallocSkip, KmallocNull, vars
  <2> QED BY <2>1, <2>2, <2>3 DEF Next
<1> QED BY <1>1, <1>2, Inductive, PTL DEF Spec, ImplementsAllocator, Heap!Spec
=============================================================================
