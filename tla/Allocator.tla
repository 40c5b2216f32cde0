----------------------------- MODULE Allocator ------------------------------
(* What kernel/kheap.c promises its callers: kmalloc hands out regions of   *)
(* the heap that are long enough and share no byte with a region that is    *)
(* still held, or nothing at all; kfree gives a held region back.           *)
EXTENDS Integers

CONSTANTS Arena,      \* the bytes the heap may hand out
          Pointers,   \* the addresses a region, which may be empty, can have
          Sizes       \* the lengths callers ask for

VARIABLE regions      \* the length of each held region, by its address

Bytes(p, n) == p .. p + n - 1

Init == regions = [p \in {} |-> 0]

Alloc(p, n) ==
  /\ p \notin DOMAIN regions
  /\ Bytes(p, n) \subseteq Arena
  /\ \A q \in DOMAIN regions : Bytes(p, n) \cap Bytes(q, regions[q]) = {}
  /\ regions' = [q \in DOMAIN regions \cup {p} |->
                   IF q = p THEN n ELSE regions[q]]

Free(p) ==
  /\ p \in DOMAIN regions
  /\ regions' = [q \in DOMAIN regions \ {p} |-> regions[q]]

Next == \/ \E p \in Pointers, n \in Sizes : Alloc(p, n)
        \/ \E p \in DOMAIN regions : Free(p)

Spec == Init /\ [][Next]_regions
=============================================================================
