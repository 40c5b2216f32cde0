------------------------------- MODULE KHeap --------------------------------
(* kernel/kheap.c: first-fit allocation over a doubly linked list of block  *)
(* headers that lie in the heap they manage, splitting a block when the     *)
(* rest can hold a header and a byte, and joining a freed block with free   *)
(* neighbours.  The heap is used by the shell's thread only: no interrupt   *)
(* handler allocates, and a killed program is in no kmalloc.                *)
EXTENDS Integers

CONSTANTS Start,     \* heap_start, above the kernel image
          Length,    \* KHEAP_FIXED_SIZE (1 MB)
          HDR,       \* sizeof(block_header_t) (16)
          Sizes      \* the lengths callers ask for

ASSUME StartAssumption == Start \in Nat \ {0}
ASSUME HdrAssumption == HDR \in Nat \ {0}
ASSUME LengthAssumption == Length \in Nat /\ Length >= HDR
ASSUME SizesAssumption == Sizes \subseteq Nat

VARIABLES hdr,       \* the headers in the list, by address
          pc,        \* idle, or scan inside kmalloc
          current,   \* the header kmalloc looks at, or 0
          request,   \* the size it is asked for
          held       \* what callers hold: the size asked for, by pointer

vars == <<hdr, pc, current, request, held>>

End == Start + Length
Header == [size : Nat, is_free : BOOLEAN, next : Nat, prev : Nat]
EmptyMap == [p \in {} |-> 0]

kheap_init ==
  [h \in {Start} |->
     [size |-> Length - HDR, is_free |-> TRUE, next |-> 0, prev |-> 0]]

Init ==
  /\ hdr = kheap_init
  /\ pc = "idle" /\ current = 0 /\ request = 0
  /\ held = EmptyMap

-----------------------------------------------------------------------------
(* Mutant: is_free is not asked.                                            *)
Fits_InUse(h) == hdr[h].size >= request
Fits(h) == hdr[h].is_free /\ hdr[h].size >= request

(* The list after block h has been cut to n bytes.                          *)
Split(m, h, n) ==
  LET rest == h + HDR + n IN
    [a \in DOMAIN m \cup {rest} |->
       IF a = rest
         THEN [size |-> m[h].size - n - HDR, is_free |-> TRUE,
               next |-> m[h].next, prev |-> h]
       ELSE IF a = h
         THEN [size |-> n, is_free |-> m[h].is_free, next |-> rest,
               prev |-> m[h].prev]
       ELSE [size |-> m[a].size, is_free |-> m[a].is_free, next |-> m[a].next,
             prev |-> IF a = m[h].next THEN rest ELSE m[a].prev]]

(* Mutant: the block after the absorbed one keeps its link back.            *)
Join_StalePrev(m, h) ==
  LET gone == m[h].next IN
    [a \in DOMAIN m \ {gone} |->
       IF a = h
         THEN [size |-> m[h].size + HDR + m[gone].size,
               is_free |-> m[h].is_free, next |-> m[gone].next,
               prev |-> m[h].prev]
       ELSE m[a]]

(* The list after block h has absorbed the block that follows it: that      *)
(* header becomes bytes of h.                                               *)
Join(m, h) ==
  LET gone == m[h].next IN
    [a \in DOMAIN m \ {gone} |->
       IF a = h
         THEN [size |-> m[h].size + HDR + m[gone].size,
               is_free |-> m[h].is_free, next |-> m[gone].next,
               prev |-> m[h].prev]
       ELSE [size |-> m[a].size, is_free |-> m[a].is_free, next |-> m[a].next,
             prev |-> IF a = m[gone].next THEN h ELSE m[a].prev]]

(* The list with the is_free field of block h changed.                      *)
Mark(m, h, f) ==
  [a \in DOMAIN m |->
     [size |-> m[a].size, is_free |-> IF a = h THEN f ELSE m[a].is_free,
      next |-> m[a].next, prev |-> m[a].prev]]

Splits(h, n) == hdr[h].size >= n + HDR + 1

(* Mutant: the search starts after the first block.                         *)
KmallocCall_Second(n) ==
  /\ pc = "idle"
  /\ pc' = "scan" /\ current' = hdr[Start].next /\ request' = n
  /\ UNCHANGED <<hdr, held>>

(* kmalloc, one action per turn of its loop.                                *)
KmallocCall(n) ==
  /\ pc = "idle"
  /\ pc' = "scan" /\ current' = Start /\ request' = n
  /\ UNCHANGED <<hdr, held>>

KmallocSkip ==
  /\ pc = "scan" /\ current # 0 /\ ~Fits(current)
  /\ current' = hdr[current].next
  /\ UNCHANGED <<hdr, pc, request, held>>

KmallocTake ==
  /\ pc = "scan" /\ current # 0 /\ Fits(current)
  /\ hdr' = Mark(IF Splits(current, request)
                   THEN Split(hdr, current, request) ELSE hdr,
                 current, FALSE)
  /\ held' = [p \in DOMAIN held \cup {current + HDR} |->
                IF p = current + HDR THEN request ELSE held[p]]
  /\ pc' = "idle" /\ current' = 0 /\ request' = 0

KmallocNull ==
  /\ pc = "scan" /\ current = 0
  /\ pc' = "idle" /\ request' = 0
  /\ UNCHANGED <<hdr, current, held>>

(* Mutant: kfree does not join with the block before.                       *)
JoinPrev_Skipped(m, h) == m

JoinNext(m, h) ==
  IF m[h].next # 0 /\ m[m[h].next].is_free THEN Join(m, h) ELSE m

JoinPrev(m, h) ==
  IF m[h].prev # 0 /\ m[m[h].prev].is_free THEN Join(m, m[h].prev) ELSE m

Kfree(p) ==
  /\ pc = "idle"
  /\ LET h == p - HDR IN
       hdr' = JoinPrev(JoinNext(Mark(hdr, h, TRUE), h), h)
  /\ held' = [q \in DOMAIN held \ {p} |-> held[q]]
  /\ UNCHANGED <<pc, current, request>>

Next == \/ \E n \in Sizes : KmallocCall(n)
        \/ KmallocSkip \/ KmallocTake \/ KmallocNull
        \/ \E p \in DOMAIN held : Kfree(p)

Spec == Init /\ [][Next]_vars

-----------------------------------------------------------------------------
Past(m, h) == h + HDR + m[h].size      \* the first address after block h

TypeOK ==
  /\ DOMAIN hdr \subseteq Start .. End - HDR
  /\ hdr \in [DOMAIN hdr -> Header]
  /\ pc \in {"idle", "scan"}
  /\ current \in DOMAIN hdr \cup {0} /\ request \in Sizes \cup {0}
  /\ pc = "scan" => request \in Sizes
  /\ pc = "idle" => current = 0
  /\ DOMAIN held \subseteq Start .. End
  /\ held \in [DOMAIN held -> Sizes]

(* The blocks tile the heap, and the links of the list agree with the       *)
(* addresses in both directions: splitting and joining lose no byte and     *)
(* leave no link to a header that no longer exists.                         *)
TiledBy(m) ==
  /\ Start \in DOMAIN m /\ m[Start].prev = 0
  /\ \A h \in DOMAIN m :
       /\ m[h].next = 0 => Past(m, h) = End
       /\ m[h].next # 0 => /\ m[h].next = Past(m, h)
                           /\ m[h].next \in DOMAIN m
                           /\ m[m[h].next].prev = h
       /\ h # Start => m[h].prev \in DOMAIN m /\ m[m[h].prev].next = h
  /\ \A g, h \in DOMAIN m : g < h => Past(m, g) <= h
Tiled == TiledBy(hdr)

(* Two neighbours are never both free: the joins of kfree leave no          *)
(* fragmentation that a later kmalloc would fail on.                        *)
Coalesced ==
  \A h \in DOMAIN hdr :
    hdr[h].is_free /\ hdr[h].next # 0 => ~hdr[hdr[h].next].is_free

(* A caller's pointer names a block in use that is long enough, and every   *)
(* block in use is some caller's: nothing is handed out twice or leaked.    *)
HeldBlocks ==
  /\ \A p \in DOMAIN held :
       /\ p - HDR \in DOMAIN hdr /\ ~hdr[p - HDR].is_free
       /\ held[p] <= hdr[p - HDR].size
  /\ \A h \in DOMAIN hdr : ~hdr[h].is_free => h + HDR \in DOMAIN held

(* Once everything is freed the heap is again the one block of kheap_init,  *)
(* whatever the order of the calls before.                                  *)
EmptyIsWhole == held = EmptyMap => hdr = kheap_init

(* kmalloc answers NULL only when no free block is long enough.             *)
NullOnlyWhenFull ==
  [][pc = "scan" /\ pc' = "idle" /\ held' = held
       => \A h \in DOMAIN hdr : ~Fits(h)]_vars

(* kmalloc and kfree keep the promise of Allocator.tla.                     *)
Heap == INSTANCE Allocator
          WITH Arena <- Start .. End - 1, Pointers <- Start .. End,
               regions <- held
ImplementsAllocator == Heap!Spec

=============================================================================
