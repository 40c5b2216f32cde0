---------------------------- MODULE MemoryProofs ----------------------------
(* Memory for every number of blocks, every layout of pages and tables and  *)
(* every sequence of programs, loads that fail half-way included.           *)
EXTENDS Memory, FiniteSetTheorems, TLAPS

(* The part of the invariant that does not depend on where the loader is.   *)
FramesTyped ==
  /\ used \subseteq Frames /\ kernel \subseteq used
  /\ used_blocks \in 0 .. Blocks
  /\ pde \in [Directory -> Frames \cup {None}]
  /\ pte \in [Pages -> Frames \cup {None}]
  /\ holds \in [Frames -> SUBSET Nat]

MemoryInv == FramesTyped /\ FramesOwnedOnce /\ CountExact

LoaderTyped ==
  /\ map \in Maps
  /\ pc \in {"regions", "paging", "heap", "shell", "load", "stack", "user",
             "free", "freed", "halted"}
  /\ file \in Programs \cup {<<>>} /\ seg \in Nat \ {0} /\ page \in Nat \ {0}
  /\ mapped_pages \in Seq(Pages) /\ Len(mapped_pages) <= MaxPages
  /\ runs \in 0 .. MaxRuns /\ spoiled \in BOOLEAN

(* The kernel takes nothing before the map has been read to its end, and no *)
(* page is mapped before there is a shell.                                  *)
Booting ==
  /\ pc = "regions" /\ seg <= Len(map) => kernel = {}
  /\ pc \in {"regions", "paging", "heap"} =>
       /\ \A p \in Pages : pte[p] = None
       /\ \A t \in Directory : pde[t] = None

IInv == MemoryInv /\ LoaderTyped /\ Booting

-----------------------------------------------------------------------------
(* The search returns a clear bit.                                          *)
LEMMA FirstFreeIsFree ==
  ASSUME NEW bits, NEW f \in mmap_first_free(bits)
  PROVE  f \in Frames \ bits
  BY DEF mmap_first_free, Available, Searched

(* There are Blocks frames.                                                 *)
LEMMA FramesFinite ==
  IsFiniteSet(Frames) /\ Cardinality(Frames) = Blocks
<1>1. Blocks - 1 \in Int /\ 0 \in Int
  BY BlocksAssumption
<1> QED BY <1>1, FS_Interval, BlocksAssumption DEF Frames

(* Setting a clear bit keeps count and bitmap in step.                      *)
LEMMA CountUp ==
  ASSUME NEW bits \in SUBSET Frames, NEW f \in Frames \ bits
  PROVE  /\ Cardinality(bits) \in Nat
         /\ Cardinality(bits \cup {f}) = Cardinality(bits) + 1
         /\ Cardinality(bits \cup {f}) <= Blocks
         /\ bits \cup {f} \in SUBSET Frames
<1>1. IsFiniteSet(bits)
  BY FramesFinite, FS_Subset
<1>2. bits \cup {f} \in SUBSET Frames
  OBVIOUS
<1> QED BY <1>1, <1>2, FramesFinite, FS_Subset, FS_AddElement, FS_CardinalityType

(* Taking a frame out of a set of frames counts one less.                   *)
LEMMA CountDown ==
  ASSUME NEW bits \in SUBSET Frames, NEW f \in bits
  PROVE  /\ Cardinality(bits) \in Nat /\ Cardinality(bits \ {f}) \in Nat
         /\ Cardinality(bits \ {f}) = Cardinality(bits) - 1
         /\ Cardinality(bits) <= Blocks
<1>1. IsFiniteSet(bits)
  BY FramesFinite, FS_Subset
<1>2. IsFiniteSet(bits \ {f})
  BY <1>1, FS_RemoveElement
<1> QED BY <1>1, <1>2, FramesFinite, FS_Subset, FS_RemoveElement, FS_CardinalityType

-----------------------------------------------------------------------------
(* vmm_alloc_page keeps the memory consistent on each of its three ways out.*)
LEMMA AllocKeeps ==
  ASSUME MemoryInv, NEW p \in Pages, ~OutOfMemory(used, used_blocks),
         vmm_alloc_page(p)
  PROVE  MemoryInv'
<1>0. PICK f \in mmap_first_free(used) :
        MapPage(p, f) \/ MapInNewTable(p, f) \/ MapNothing(p, f)
  BY DEF vmm_alloc_page
<1> DEFINE bits == used \cup {f}
<1>1. f \in Frames \ used
  BY FirstFreeIsFree
<1>2. /\ used \in SUBSET Frames
      /\ Table[p] \in Directory
      /\ None \notin Frames
  BY BlocksAssumption DEF MemoryInv, FramesTyped, Directory, None, Frames
<1>3. /\ Cardinality(bits) = used_blocks + 1 /\ bits \in SUBSET Frames
      /\ used_blocks \in Nat /\ used_blocks + 1 <= Blocks
  <2>1. /\ Cardinality(used) \in Nat
        /\ Cardinality(bits) = Cardinality(used) + 1
        /\ Cardinality(bits) <= Blocks
        /\ bits \in SUBSET Frames
    BY <1>1, <1>2, CountUp
  <2>2. used_blocks = Cardinality(used)
    BY DEF MemoryInv, CountExact
  <2> HIDE DEF bits
  <2> QED BY <2>1, <2>2
<1>4. CASE MapPage(p, f)
  <2> HIDE DEF bits
  <2>1. /\ used' = bits /\ used_blocks' = used_blocks + 1
        /\ pte' = [pte EXCEPT ![p] = f]
        /\ holds' = [holds EXCEPT ![f] = {}]
        /\ pde' = pde /\ kernel' = kernel
    BY <1>4 DEF MapPage, bits
  <2>2. FramesTyped'
    BY <1>1, <1>2, <1>3, <2>1, BlocksAssumption DEF MemoryInv, FramesTyped, bits
  <2>3. CountExact'
    BY <1>3, <2>1 DEF CountExact
  <2>4. FramesOwnedOnce'
    BY <1>1, <1>2, <2>1 DEF MemoryInv, FramesTyped, FramesOwnedOnce, bits
  <2> QED BY <2>2, <2>3, <2>4 DEF MemoryInv
<1>5. CASE MapInNewTable(p, f)
  <2>1. PICK t \in mmap_first_free(bits) :
          /\ used' = bits \cup {t} /\ used_blocks' = used_blocks + 2
          /\ pde' = [pde EXCEPT ![Table[p]] = t]
          /\ pte' = [q \in Pages |->
                       IF q = p THEN f
                       ELSE IF Table[q] = Table[p] THEN None ELSE pte[q]]
          /\ holds' = [holds EXCEPT ![f] = {}] /\ kernel' = kernel
    <3>1. \A t : used \cup {f, t} = bits \cup {t}
      OBVIOUS
    <3> QED BY <1>5, <3>1 DEF MapInNewTable
  <2>2. t \in Frames \ bits
    BY <2>1, FirstFreeIsFree
  <2>3. Cardinality(bits \cup {t}) = used_blocks + 2
        /\ used_blocks + 2 <= Blocks
    BY <1>3, <2>2, CountUp
  <2> HIDE DEF bits
  <2>4. FramesTyped'
    BY <1>1, <1>2, <1>3, <2>1, <2>2, <2>3, BlocksAssumption
       DEF MemoryInv, FramesTyped, bits
  <2>5. CountExact'
    BY <2>1, <2>3 DEF CountExact
  <2>6. FramesOwnedOnce'
    BY <1>1, <1>2, <2>1, <2>2 DEF MemoryInv, FramesTyped, FramesOwnedOnce, bits
  <2> QED BY <2>4, <2>5, <2>6 DEF MemoryInv
<1>6. CASE MapNothing(p, f)
  <2> HIDE DEF bits
  <2>1. /\ used' = bits /\ used_blocks' = used_blocks + 1
        /\ pde' = pde /\ pte' = pte /\ holds' = holds /\ kernel' = kernel
    BY <1>6 DEF MapNothing, space, bits
  <2>2. FramesTyped'
    BY <1>1, <1>2, <1>3, <2>1, BlocksAssumption DEF MemoryInv, FramesTyped, bits
  <2>3. CountExact'
    BY <1>3, <2>1 DEF CountExact
  <2>4. FramesOwnedOnce'
    BY <2>1 DEF MemoryInv, FramesOwnedOnce, bits
  <2> QED BY <2>2, <2>3, <2>4 DEF MemoryInv
<1> QED BY <1>0, <1>4, <1>5, <1>6

(* vmm_unmap_page frees a frame that its page alone was mapped to.          *)
LEMMA UnmapKeeps ==
  ASSUME MemoryInv, NEW p \in Pages, vmm_unmap_page(p)
  PROVE  MemoryInv'
<1>1. CASE Mapped(p)
  <2>1. /\ used' = used \ {pte[p]} /\ used_blocks' = used_blocks - 1
        /\ pte' = [pte EXCEPT ![p] = None] /\ pde' = pde /\ holds' = holds
        /\ kernel' = kernel
    BY <1>1 DEF vmm_unmap_page
  <2>2. /\ used \in SUBSET Frames /\ pte[p] \in used \ kernel
        /\ None \notin Frames
    BY <1>1, BlocksAssumption
       DEF MemoryInv, FramesTyped, FramesOwnedOnce, Mapped, None, Frames
  <2>3. /\ Cardinality(used \ {pte[p]}) = used_blocks - 1
        /\ Cardinality(used \ {pte[p]}) \in Nat
        /\ used_blocks <= Blocks /\ used_blocks \in Nat
    BY <2>2, CountDown DEF MemoryInv, CountExact
  <2>4. FramesTyped'
    BY <2>1, <2>2, <2>3, BlocksAssumption DEF MemoryInv, FramesTyped
  <2>5. CountExact'
    BY <2>1, <2>3 DEF CountExact
  <2>6. FramesOwnedOnce'
    BY <1>1, <2>1, <2>2 DEF MemoryInv, FramesTyped, FramesOwnedOnce, Mapped
  <2> QED BY <2>4, <2>5, <2>6 DEF MemoryInv
<1>2. CASE ~Mapped(p)
  <2>1. UNCHANGED <<kernel, used, used_blocks, pde, pte, holds>>
    BY <1>2 DEF vmm_unmap_page, frames, space
  <2> QED BY <2>1 DEF MemoryInv, FramesTyped, FramesOwnedOnce, CountExact
<1> QED BY <1>1, <1>2

(* A step that touches neither the bitmap nor the tables keeps what is said *)
(* of them.                                                                 *)
LEMMA SameMemory ==
  ASSUME MemoryInv, UNCHANGED <<kernel, used, used_blocks, pde, pte>>,
         holds' \in [Frames -> SUBSET Nat]
  PROVE  MemoryInv'
  BY DEF MemoryInv, FramesTyped, FramesOwnedOnce, CountExact

-----------------------------------------------------------------------------
(* The mapped_pages of a new process_t.                                     *)
LEMMA NoPagesTyped == <<>> \in Seq(Pages) /\ Len(<<>>) = 0
  OBVIOUS

(* With nothing mapped nothing is shared.                                   *)
LEMMA NothingShared ==
  ASSUME \A p \in Pages : pte[p] = None, \A t \in Directory : pde[t] = None
  PROVE  FramesOwnedOnce
  BY DEF FramesOwnedOnce

(* The invariant holds when pmmngr_init returns.                            *)
LEMMA InitInv == Init => IInv
<1> SUFFICES ASSUME Init PROVE IInv
  OBVIOUS
<1>1. /\ used = Frames /\ used_blocks = Blocks /\ kernel = {}
      /\ \A p \in Pages : pte[p] = None
      /\ \A t \in Directory : pde[t] = None
  BY DEF Init
<1>2. Blocks \in 0 .. Blocks
  BY BlocksAssumption
<1>3. FramesTyped
  BY <1>1, <1>2 DEF Init, FramesTyped
<1>4. CountExact
  BY <1>1, FramesFinite DEF CountExact
<1>6. FramesOwnedOnce
  BY <1>1, NothingShared
<1>7. Booting
  BY <1>1 DEF Booting
<1>5. LoaderTyped
  <2>1. /\ map \in Maps /\ pc = "regions" /\ file = <<>> /\ seg = 1 /\ page = 1
        /\ mapped_pages = <<>> /\ runs = 0 /\ spoiled = FALSE
    BY DEF Init
  <2>2. pc \in {"regions", "paging", "heap", "shell", "load", "stack", "user",
                "free", "freed", "halted"}
    BY <2>1
  <2>3. file \in Programs \cup {<<>>} /\ seg \in Nat \ {0} /\ page \in Nat \ {0}
    BY <2>1
  <2>4. mapped_pages \in Seq(Pages) /\ Len(mapped_pages) <= MaxPages
    <3>1. mapped_pages = <<>>
      BY <2>1
    <3>2. mapped_pages \in Seq(Pages) /\ Len(mapped_pages) = 0
      BY <3>1, NoPagesTyped
    <3>3. 0 <= MaxPages
      BY LimitsAssumption
    <3> QED BY <3>2, <3>3
  <2>5. runs \in 0 .. MaxRuns
    BY <2>1, LimitsAssumption
  <2>6. spoiled \in BOOLEAN
    BY <2>1
  <2> QED BY <2>1, <2>2, <2>3, <2>4, <2>5, <2>6 DEF LoaderTyped
<1> QED BY <1>3, <1>4, <1>5, <1>6, <1>7 DEF IInv, MemoryInv

-----------------------------------------------------------------------------
(* Clearing a bit, set or not, keeps the count if it is counted only when   *)
(* it was set (pmmngr_init_region); setting one likewise.                   *)
LEMMA ClearCounted ==
  ASSUME MemoryInv, NEW bit,
         used' = used \ {bit},
         used_blocks' = IF bit \in used THEN used_blocks - 1 ELSE used_blocks
  PROVE  /\ used' \subseteq Frames /\ used_blocks' \in 0 .. Blocks
         /\ CountExact'
<1>1. used \in SUBSET Frames /\ used_blocks = Cardinality(used)
      /\ used_blocks \in 0 .. Blocks
  BY DEF MemoryInv, FramesTyped, CountExact
<1>2. CASE bit \in used
  <2>1. /\ Cardinality(used \ {bit}) = Cardinality(used) - 1
        /\ Cardinality(used \ {bit}) \in Nat
    BY <1>1, <1>2, CountDown
  <2>2. used_blocks' = Cardinality(used') /\ used_blocks' \in 0 .. Blocks
    BY <1>1, <1>2, <2>1, BlocksAssumption
  <2> QED BY <1>1, <2>2 DEF CountExact
<1>3. CASE bit \notin used
  <2>1. used \ {bit} = used
    BY <1>3
  <2> QED BY <1>1, <1>3, <2>1 DEF CountExact
<1> QED BY <1>2, <1>3

LEMMA SetCounted ==
  ASSUME MemoryInv, NEW bit \in Frames,
         used' = used \cup {bit},
         used_blocks' = IF bit \in used THEN used_blocks ELSE used_blocks + 1
  PROVE  /\ used' \subseteq Frames /\ used_blocks' \in 0 .. Blocks
         /\ CountExact'
<1>1. used \in SUBSET Frames /\ used_blocks = Cardinality(used)
      /\ used_blocks \in 0 .. Blocks
  BY DEF MemoryInv, FramesTyped, CountExact
<1>2. CASE bit \notin used
  <2>1. /\ Cardinality(used \cup {bit}) = Cardinality(used) + 1
        /\ Cardinality(used \cup {bit}) <= Blocks
    BY <1>1, <1>2, CountUp
  <2>2. used_blocks' = Cardinality(used') /\ used_blocks' \in 0 .. Blocks
    BY <1>1, <1>2, <2>1, BlocksAssumption
  <2> QED BY <1>1, <2>2 DEF CountExact
<1>3. CASE bit \in used
  <2>1. used \cup {bit} = used
    BY <1>3
  <2> QED BY <1>1, <1>3, <2>1 DEF CountExact
<1> QED BY <1>2, <1>3

(* kmain's own frames: an unused one, marked and counted.                   *)
LEMMA TakeFrameKeeps ==
  ASSUME MemoryInv, TakeFrame
  PROVE  /\ used' \subseteq Frames /\ used_blocks' \in 0 .. Blocks
         /\ CountExact' /\ kernel' \subseteq used'
<1>1. PICK f \in mmap_first_free(used) :
        /\ used' = used \cup {f} /\ used_blocks' = used_blocks + 1
        /\ kernel' = kernel \cup {f}
  BY DEF TakeFrame
<1>2. f \in Frames \ used
  BY FirstFreeIsFree
<1>3. used_blocks' = IF f \in used THEN used_blocks ELSE used_blocks + 1
  BY <1>1, <1>2
<1>4. /\ used' \subseteq Frames /\ used_blocks' \in 0 .. Blocks /\ CountExact'
  BY <1>1, <1>2, <1>3, SetCounted
<1> QED BY <1>1, <1>4 DEF MemoryInv, FramesTyped

(* While nothing is mapped, the bitmap is all there is to the memory.       *)
LEMMA BootMemory ==
  ASSUME MemoryInv, Booting, pc \in {"regions", "paging", "heap"}, UNCHANGED space,
         used' \subseteq Frames, used_blocks' \in 0 .. Blocks, CountExact',
         kernel' \subseteq used'
  PROVE  MemoryInv' /\ (\A p \in Pages : pte'[p] = None)
                    /\ (\A t \in Directory : pde'[t] = None)
<1>1. /\ pde' = pde /\ pte' = pte /\ holds' = holds
      /\ \A p \in Pages : pte[p] = None
      /\ \A t \in Directory : pde[t] = None
  BY DEF space, Booting
<1>2. FramesTyped'
  BY <1>1 DEF MemoryInv, FramesTyped
<1>3. FramesOwnedOnce'
  BY <1>1 DEF FramesOwnedOnce
<1> QED BY <1>1, <1>2, <1>3 DEF MemoryInv

(* Every step of kmain keeps the invariant.                                 *)
LEMMA BootKeeps == ASSUME IInv, kmain PROVE IInv'
<1> USE DEF IInv
<1>0. MemoryInv /\ Booting /\ kernel \subseteq used /\ used \subseteq Frames
      /\ used_blocks \in 0 .. Blocks /\ CountExact
  BY DEF MemoryInv, FramesTyped
<1>1. CASE pmmngr_init_region
  <2>1. pc = "regions" /\ kernel = {} /\ kernel' = {} /\ UNCHANGED space
    BY <1>0, <1>1 DEF pmmngr_init_region, Booting
  <2>2. used' \subseteq Frames /\ used_blocks' \in 0 .. Blocks /\ CountExact'
    <3>1. CASE \E bit : /\ used' = used \ {bit}
                       /\ used_blocks' = IF bit \in used THEN used_blocks - 1
                                        ELSE used_blocks
      BY <1>0, <3>1, ClearCounted
    <3>2. CASE UNCHANGED <<used, used_blocks>>
      BY <1>0, <3>2 DEF CountExact
    <3> QED BY <1>1, <3>1, <3>2 DEF pmmngr_init_region
  <2>3. MemoryInv' /\ (\A p \in Pages : pte'[p] = None)
                   /\ (\A t \in Directory : pde'[t] = None)
    BY <1>0, <2>1, <2>2, BootMemory
  <2>4. LoaderTyped'
    BY <1>1 DEF pmmngr_init_region, LoaderTyped
  <2> QED BY <2>1, <2>3, <2>4 DEF Booting
<1>2. CASE pmmngr_deinit_region
  <2>1. pc = "regions" /\ UNCHANGED space /\ seg > Len(map)
        /\ UNCHANGED <<map, seg>>
    BY <1>2 DEF pmmngr_deinit_region
  <2>2. used' \subseteq Frames /\ used_blocks' \in 0 .. Blocks /\ CountExact'
        /\ kernel' \subseteq used'
    <3>1. CASE /\ page <= KernelBlocks
               /\ used' = used \cup {page - 1} /\ kernel' = kernel \cup {page - 1}
               /\ used_blocks' = IF page - 1 \in used THEN used_blocks
                                ELSE used_blocks + 1
      <4>1. page - 1 \in Frames
        BY <3>1, KernelAssumption, BlocksAssumption DEF LoaderTyped, Frames
      <4> HIDE DEF IInv
      <4>2. used' \subseteq Frames /\ used_blocks' \in 0 .. Blocks /\ CountExact'
        BY <1>0, <3>1, <4>1, SetCounted
      <4> QED BY <1>0, <3>1, <4>2
    <3>2. CASE UNCHANGED <<kernel, used, used_blocks>>
      BY <1>0, <3>2 DEF CountExact
    <3> QED BY <1>2, <3>1, <3>2 DEF pmmngr_deinit_region
  <2>3. MemoryInv' /\ (\A p \in Pages : pte'[p] = None)
                   /\ (\A t \in Directory : pde'[t] = None)
    BY <1>0, <2>1, <2>2, BootMemory
  <2>4. LoaderTyped'
    BY <1>2 DEF pmmngr_deinit_region, LoaderTyped
  <2>5. ~(seg' <= Len(map'))
    <3>1. seg \in Nat /\ map \in Maps
      BY DEF LoaderTyped
    <3>2. Len(map) \in Nat
      BY <3>1, MapsAssumption
    <3> QED BY <2>1, <3>1, <3>2
  <2> QED BY <2>3, <2>4, <2>5 DEF Booting
<1>3. CASE vmm_init
  <2>1. pc = "paging" /\ UNCHANGED space /\ pc' \in {"paging", "heap", "halted"}
    BY <1>3 DEF vmm_init
  <2>2. used' \subseteq Frames /\ used_blocks' \in 0 .. Blocks /\ CountExact'
        /\ kernel' \subseteq used'
    <3>1. CASE TakeFrame
      BY <1>0, <3>1, TakeFrameKeeps
    <3>2. CASE UNCHANGED <<kernel, used, used_blocks>>
      BY <1>0, <3>2 DEF CountExact
    <3> QED BY <1>3, <3>1, <3>2 DEF vmm_init
  <2>3. MemoryInv' /\ (\A p \in Pages : pte'[p] = None)
                   /\ (\A t \in Directory : pde'[t] = None)
    BY <1>0, <2>1, <2>2, BootMemory
  <2>4. LoaderTyped'
    BY <1>3 DEF vmm_init, LoaderTyped
  <2> QED BY <2>1, <2>3, <2>4 DEF Booting
<1>4. CASE kheap_init
  <2>1. pc = "heap" /\ UNCHANGED space /\ pc' \in {"heap", "shell"}
    BY <1>4 DEF kheap_init
  <2>2. used' \subseteq Frames /\ used_blocks' \in 0 .. Blocks /\ CountExact'
        /\ kernel' \subseteq used'
    <3>1. CASE TakeFrame
      BY <1>0, <3>1, TakeFrameKeeps
    <3>2. CASE UNCHANGED <<kernel, used, used_blocks>>
      BY <1>0, <3>2 DEF CountExact
    <3> QED BY <1>4, <3>1, <3>2 DEF kheap_init
  <2>3. MemoryInv' /\ (\A p \in Pages : pte'[p] = None)
                   /\ (\A t \in Directory : pde'[t] = None)
    BY <1>0, <2>1, <2>2, BootMemory
  <2>4. LoaderTyped'
    BY <1>4 DEF kheap_init, LoaderTyped
  <2> QED BY <2>1, <2>3, <2>4 DEF Booting
<1> QED BY <1>1, <1>2, <1>3, <1>4 DEF kmain

-----------------------------------------------------------------------------
(* What elf_load and the stack loop do with a page.                         *)
LEMMA AllocPageKeeps ==
  ASSUME IInv, NEW p \in Pages, AllocPage(p), pc \in {"load", "stack"}
  PROVE  IInv'
<1>1. MemoryInv'
  BY AllocKeeps DEF IInv, AllocPage
<1>2. /\ mapped_pages' \in Seq(Pages) /\ Len(mapped_pages') <= MaxPages
  BY LimitsAssumption DEF IInv, LoaderTyped, AllocPage, Record
<1>3. spoiled' \in BOOLEAN
  BY DEF IInv, LoaderTyped, AllocPage, Untidy
<1>4. map' = map
  BY DEF AllocPage, vmm_alloc_page, MapPage, MapInNewTable, MapNothing
<1>5. LoaderTyped'
  BY <1>2, <1>3, <1>4 DEF IInv, LoaderTyped, AllocPage
<1>6. Booting'
  BY DEF AllocPage, Booting
<1> QED BY <1>1, <1>5, <1>6 DEF IInv

(* A load that gives up keeps the invariant: what it leaves mapped stays    *)
(* marked as used.                                                          *)
LEMMA GiveUpKeeps == ASSUME IInv, GiveUp PROVE IInv'
<1>1. MemoryInv'
  BY SameMemory DEF IInv, MemoryInv, FramesTyped, GiveUp, frames, space
<1>2. LoaderTyped'
  BY LimitsAssumption DEF IInv, LoaderTyped, GiveUp, frames
<1>3. Booting'
  BY DEF GiveUp, Booting
<1> QED BY <1>1, <1>2, <1>3 DEF IInv

(* Every step keeps the invariant.                                          *)
LEMMA NextInv == IInv /\ [Next]_vars => IInv'
<1> SUFFICES ASSUME IInv, [Next]_vars PROVE IInv'
  OBVIOUS
<1> USE DEF IInv
<1>0. holds \in [Frames -> SUBSET Nat]
  BY DEF MemoryInv, FramesTyped
<1>1. CASE Exec
  <2>1. MemoryInv'
    BY <1>0, <1>1, SameMemory DEF Exec, frames, space
  <2>2. LoaderTyped'
    BY <1>1, LimitsAssumption DEF Exec, LoaderTyped, frames
  <2>3. Booting'
    BY <1>1 DEF Exec, Booting
  <2> QED BY <2>1, <2>2, <2>3
<1>2. CASE LoadPage
  <2>1. file \in Seq(Seq(Pages)) /\ seg \in 1 .. Len(file)
    BY <1>2, ProgramsAssumption DEF LoadPage, LoaderTyped
  <2>2. file[seg] \in Seq(Pages) /\ page \in 1 .. Len(file[seg])
    BY <1>2, <2>1 DEF LoadPage, LoaderTyped
  <2>3. file[seg][page] \in Pages
    BY <2>2
  <2>4. pc \in {"load", "stack"}
    BY <1>2 DEF LoadPage
  <2> QED BY <1>2, <2>3, <2>4, AllocPageKeeps, GiveUpKeeps DEF LoadPage
<1>3. CASE CopySegment
  <2>1. holds' \in [Frames -> SUBSET Nat]
    BY <1>0, <1>3 DEF CopySegment, LoaderTyped
  <2>2. MemoryInv'
    BY <1>3, <2>1, SameMemory DEF CopySegment, frames
  <2>3. LoaderTyped'
    BY <1>3 DEF CopySegment, LoaderTyped, frames
  <2>4. Booting'
    BY <1>3 DEF CopySegment, Booting
  <2> QED BY <2>2, <2>3, <2>4
<1>4. CASE BadFile
  BY <1>4, GiveUpKeeps DEF BadFile
<1>5. CASE StackPage
  <2>1. CASE AllocPage(StackPages[page])
    <3>1. StackPages[page] \in Pages
      BY <1>5, StackAssumption DEF StackPage, LoaderTyped
    <3>2. pc \in {"load", "stack"}
      BY <1>5 DEF StackPage
    <3> QED BY <2>1, <3>1, <3>2, AllocPageKeeps
  <2>2. CASE GiveUp
    BY <2>2, GiveUpKeeps
  <2> QED BY <1>5, <2>1, <2>2 DEF StackPage
<1>6. CASE Loaded \/ Run \/ PageFault \/ Exit \/ Freed \/ Prompt
  <2>1. MemoryInv'
    BY <1>0, <1>6, SameMemory
       DEF Loaded, Run, PageFault, Exit, Freed, Prompt, frames, space
  <2>2. CASE Loaded \/ Run \/ PageFault \/ Exit \/ Freed
    <3>1. LoaderTyped'
      BY <2>2 DEF Loaded, Run, PageFault, Exit, Freed, loader, LoaderTyped, frames
    <3>2. Booting'
      BY <2>2 DEF Loaded, Run, PageFault, Exit, Freed, Booting
    <3> QED BY <2>1, <3>1, <3>2
  <2>3. CASE Prompt
    <3>1. LoaderTyped'
      BY <2>3, NoPagesTyped, LimitsAssumption DEF Prompt, LoaderTyped, frames
    <3>2. Booting'
      BY <2>3 DEF Prompt, Booting
    <3> QED BY <2>1, <3>1, <3>2
  <2> QED BY <1>6, <2>2, <2>3
<1>7. CASE FreePage
  <2>1. mapped_pages[page] \in Pages
    BY <1>7 DEF FreePage, LoaderTyped
  <2>2. MemoryInv'
    BY <1>7, <2>1, UnmapKeeps DEF FreePage
  <2>3. LoaderTyped'
    BY <1>7 DEF FreePage, LoaderTyped, vmm_unmap_page, frames
  <2>4. Booting'
    BY <1>7 DEF FreePage, Booting
  <2> QED BY <2>2, <2>3, <2>4
<1>8. CASE UNCHANGED vars
  <2>1. MemoryInv'
    BY <1>0, <1>8, SameMemory DEF vars, frames, space
  <2>2. LoaderTyped'
    BY <1>8 DEF vars, loader, LoaderTyped, frames
  <2>3. Booting'
    BY <1>8 DEF vars, loader, frames, space, Booting
  <2> QED BY <2>1, <2>2, <2>3
<1>9. CASE kmain
  BY <1>9, BootKeeps
<1> QED BY <1>9, <1>1, <1>2, <1>3, <1>4, <1>5, <1>6, <1>7, <1>8 DEF Next

(* The invariant holds in every reachable state.                            *)
LEMMA Invariance == Spec => []IInv
  BY InitInv, NextInv, PTL DEF Spec

(* Every variable keeps its type: the count stays within the memory and the *)
(* page list of a process within its array.                                 *)
THEOREM TypeCorrect == Spec => []TypeOK
<1>1. IInv => TypeOK
  BY DEF IInv, MemoryInv, FramesTyped, LoaderTyped, TypeOK
<1> QED BY <1>1, Invariance, PTL

(* No frame is reached by two mappings, and none that is mapped is free,    *)
(* whatever failed on the way (vmm_map_page, vmm_unmap_page).               *)
THEOREM NoFrameShared == Spec => []FramesOwnedOnce
<1>1. IInv => FramesOwnedOnce
  BY DEF IInv, MemoryInv
<1> QED BY <1>1, Invariance, PTL

(* _mmngr_used_blocks never drifts from the bitmap.                         *)
THEOREM CountIsExact == Spec => []CountExact
<1>1. IInv => CountExact
  BY DEF IInv, MemoryInv
<1> QED BY <1>1, Invariance, PTL

-----------------------------------------------------------------------------
(* Only what the map offers is ever free, and the first 4 MB are never      *)
(* taken for anything else.                                                 *)
Given ==
  /\ \A f \in Frames \ used : f \in Offered
  /\ \A p \in Pages : pte[p] = None \/ pte[p] \in Offered
  /\ \A t \in Directory : pde[t] = None \/ pde[t] \in Offered
  /\ \A f \in kernel : f \in 0 .. KernelBlocks - 1 \/ f \in Offered
  /\ pc = "regions" /\ seg > Len(map) => 0 .. page - 2 \subseteq kernel
  /\ pc # "regions" => 0 .. KernelBlocks - 1 \subseteq kernel

(* a * c grows with a.                                                      *)
LEMMA TimesMonotone ==
  ASSUME NEW a \in Nat, NEW b \in Nat, NEW c \in Nat, a <= b
  PROVE  a * c <= b * c
<1>1. PICK d \in Nat : b = a + d
  <2>1. b - a \in Nat /\ b = a + (b - a)
    OBVIOUS
  <2> QED BY <2>1
<1>2. b * c = a * c + d * c /\ d * c >= 0 /\ a * c \in Nat
  BY <1>1
<1> QED BY <1>2

(* A block is where division says.                                          *)
LEMMA BlockOf ==
  ASSUME NEW x \in Nat
  PROVE  /\ x \div BlockSize \in Nat
         /\ (x \div BlockSize) * BlockSize <= x
         /\ x - (x % BlockSize) = (x \div BlockSize) * BlockSize
<1>1. BlockSize \in Nat /\ BlockSize > 0
  BY MapsAssumption
<1>2. /\ x = BlockSize * (x \div BlockSize) + (x % BlockSize)
      /\ x \div BlockSize \in Nat
      /\ x % BlockSize \in 0 .. BlockSize - 1
  BY <1>1
<1>3. BlockSize * (x \div BlockSize) = (x \div BlockSize) * BlockSize
  BY <1>1, <1>2
<1> QED BY <1>1, <1>2, <1>3

(* What a memory map says of each of its entries.                           *)
LEMMA MapEntry ==
  ASSUME map \in Maps
  PROVE  /\ Len(map) \in Nat /\ DOMAIN map = 1 .. Len(map)
         /\ \A i \in 1 .. Len(map) :
              map[i].base \in Nat /\ map[i].len \in Nat
<1> DEFINE R == [available : BOOLEAN, base : Nat, len : Nat]
<1>1. map \in Seq(R)
  BY MapsAssumption
<1>2. /\ Len(map) \in Nat /\ DOMAIN map = 1 .. Len(map)
      /\ \A i \in 1 .. Len(map) : map[i] \in R
  <2> HIDE DEF R
  <2> QED BY <1>1
<1>3. \A i \in 1 .. Len(map) : map[i].base \in Nat /\ map[i].len \in Nat
  BY <1>2
<1> QED BY <1>2, <1>3

(* A block that the map offers is memory to its last byte, up to what an    *)
(* entry that begins within it leaves out in front.                         *)
LEMMA OfferedIsMemory ==
  ASSUME map \in Maps, NEW f \in Offered
  PROVE  IsMemory(f)
<1>1. PICK i \in DOMAIN map :
        /\ map[i].available
        /\ f \in map[i].base \div BlockSize ..
                 map[i].base \div BlockSize + BlocksOf(map[i]) - 1
  BY DEF Offered
<1> DEFINE base == map[i].base
           len == map[i].len
           k == base \div BlockSize
           n == len \div BlockSize
<1>2. base \in Nat /\ len \in Nat
  BY <1>1, MapEntry
<1>3. BlockSize \in Nat /\ BlockSize > 0 /\ f \in Nat
  BY MapsAssumption, BlocksAssumption DEF Offered, Frames
<1>4. /\ k \in Nat /\ k * BlockSize <= base
      /\ base - (base % BlockSize) = k * BlockSize
      /\ n \in Nat /\ n * BlockSize <= len
  BY <1>2, BlockOf
<1>5. k <= f /\ f <= k + n - 1
  BY <1>1, <1>3, <1>4 DEF BlocksOf
<1> HIDE DEF base, len, k, n
<1>6. k * BlockSize <= f * BlockSize
  BY <1>3, <1>4, <1>5, TimesMonotone
<1>7. f * BlockSize + BlockSize <= base + len
  <2>1. (f + 1) * BlockSize <= (k + n) * BlockSize
    <3>1. f + 1 \in Nat /\ k + n \in Nat /\ f + 1 <= k + n
      BY <1>3, <1>4, <1>5
    <3> QED BY <1>3, <3>1, TimesMonotone
  <2>2. (f + 1) * BlockSize = f * BlockSize + BlockSize
    BY <1>3
  <2>3. (k + n) * BlockSize = k * BlockSize + n * BlockSize
    BY <1>3, <1>4
  <2>4. /\ k * BlockSize \in Nat /\ n * BlockSize \in Nat
        /\ f * BlockSize \in Nat
    BY <1>3, <1>4
  <2> QED BY <1>2, <1>3, <1>4, <2>1, <2>2, <2>3, <2>4
<1>8. ASSUME NEW unit \in f * BlockSize .. f * BlockSize + BlockSize - 1
      PROVE  unit \in base - (base % BlockSize) .. base + len - 1
  <2>1. f * BlockSize \in Nat /\ k * BlockSize \in Nat
    BY <1>3, <1>4
  <2> QED BY <1>2, <1>3, <1>4, <1>6, <1>7, <2>1
<1> QED BY <1>1, <1>8 DEF IsMemory, Begun, base, len

(* The map does not change.                                                 *)
LEMMA MapFixed == [Next]_vars => map' = map /\ Offered' = Offered
<1> SUFFICES ASSUME [Next]_vars PROVE map' = map /\ Offered' = Offered
  OBVIOUS
<1>1. map' = map
  <2>1. CASE kmain
    BY <2>1 DEF kmain, pmmngr_init_region, pmmngr_deinit_region, vmm_init, kheap_init
  <2>2. CASE Exec \/ CopySegment \/ BadFile \/ Loaded \/ Run \/ PageFault \/ Exit
             \/ Freed \/ Prompt \/ UNCHANGED vars
    BY <2>2 DEF Exec, CopySegment, BadFile, GiveUp, Loaded, Run, PageFault, Exit,
                Freed, Prompt, vars, frames
  <2>3. CASE LoadPage \/ StackPage
    BY <2>3 DEF LoadPage, StackPage, AllocPage, GiveUp, vmm_alloc_page, MapPage,
                MapInNewTable, MapNothing, frames
  <2>4. CASE FreePage
    BY <2>4 DEF FreePage, vmm_unmap_page, frames
  <2> QED BY <2>1, <2>2, <2>3, <2>4 DEF Next
<1> QED BY <1>1 DEF Offered

LEMMA GivenInit == Init => Given
<1> SUFFICES ASSUME Init PROVE Given
  OBVIOUS
<1>1. /\ used = Frames /\ kernel = {} /\ pc = "regions" /\ page = 1
      /\ \A p \in Pages : pte[p] = None
      /\ \A t \in Directory : pde[t] = None
  BY DEF Init
<1>2. 0 .. page - 2 = {}
  BY <1>1
<1> QED BY <1>1, <1>2 DEF Given

(* What kmain clears is offered, what it takes was free.                    *)
LEMMA BootGiven == ASSUME IInv, Given, kmain PROVE Given'
<1>1. Offered' = Offered /\ map' = map
  BY MapFixed DEF Next
<1>2. pte' = pte /\ pde' = pde
  BY DEF kmain, pmmngr_init_region, pmmngr_deinit_region, vmm_init, kheap_init, space
<1>3. page \in Nat \ {0} /\ seg \in Nat \ {0} /\ map \in Maps
  BY DEF IInv, LoaderTyped
<1>4. CASE pmmngr_init_region
  <2>1. pc = "regions" /\ pc' = "regions" /\ kernel' = kernel /\ seg <= Len(map)
    BY <1>4 DEF pmmngr_init_region
  <2>2. \A f \in Frames \ used' : f \in Offered
    <3>1. CASE map[seg].available /\ page <= BlocksOf(map[seg])
      <4>1. seg \in DOMAIN map
        BY <1>3, <2>1, MapEntry
      <4>2. used' = used \ {map[seg].base \div BlockSize + page - 1}
        <5>1. page \in Nat /\ BlocksOf(map[seg]) \in Nat
          BY <1>3, <4>1, BlockOf, MapEntry DEF BlocksOf
        <5>2. ~(page > BlocksOf(map[seg]))
          BY <3>1, <5>1
        <5> QED BY Zenon, <1>4, <3>1, <5>2 DEF pmmngr_init_region
      <4> DEFINE bit == map[seg].base \div BlockSize + page - 1
      <4>3. bit \in map[seg].base \div BlockSize ..
                      map[seg].base \div BlockSize + BlocksOf(map[seg]) - 1
        <5>1. map[seg].base \in Nat /\ map[seg].len \in Nat
          BY <1>3, <4>1, MapEntry
        <5>2. map[seg].base \div BlockSize \in Nat
          BY <5>1, BlockOf
        <5>3. BlocksOf(map[seg]) \in Nat
          BY <5>1, BlockOf DEF BlocksOf
        <5> QED BY <1>3, <3>1, <5>2, <5>3
      <4>4. bit \in Frames => bit \in Offered
        BY <3>1, <4>1, <4>3 DEF Offered
      <4> HIDE DEF bit
      <4>5. used' = used \ {bit}
        BY <4>2 DEF bit
      <4> QED BY <4>4, <4>5 DEF Given
    <3>2. CASE used' = used
      BY <3>2 DEF Given
    <3> QED BY <1>4, <3>1, <3>2 DEF pmmngr_init_region
  <2>3. pc' = "regions" /\ seg' > Len(map') => 0 .. page' - 2 \subseteq kernel'
    <3>1. seg' = seg \/ page' = 1
      BY <1>4 DEF pmmngr_init_region
    <3>2. CASE seg' = seg
      <4>1. Len(map) \in Nat
        BY <1>3, MapsAssumption
      <4> QED BY <1>1, <1>3, <2>1, <3>2, <4>1
    <3>3. CASE page' = 1
      <4>1. 0 .. page' - 2 = {}
        BY <3>3
      <4> QED BY <4>1
    <3> QED BY <3>1, <3>2, <3>3
  <2> QED BY <1>1, <1>2, <2>1, <2>2, <2>3 DEF Given
<1>5. CASE pmmngr_deinit_region
  <2>1. pc = "regions" /\ seg > Len(map) /\ 0 .. page - 2 \subseteq kernel
    BY <1>5 DEF pmmngr_deinit_region, Given
  <2>2. CASE /\ page <= KernelBlocks
             /\ used' = used \cup {page - 1} /\ kernel' = kernel \cup {page - 1}
             /\ page' = page + 1 /\ UNCHANGED pc
    <3>1. 0 .. page' - 2 \subseteq kernel'
      BY <1>3, <2>1, <2>2
    <3>2. page - 1 \in 0 .. KernelBlocks - 1
      BY <1>3, <2>2, KernelAssumption
    <3> QED BY <1>1, <1>2, <2>1, <2>2, <3>1, <3>2 DEF Given
  <2>3. CASE /\ page > KernelBlocks
             /\ pc' = "paging" /\ UNCHANGED <<kernel, used, used_blocks>>
    <3>1. 0 .. KernelBlocks - 1 \subseteq kernel
      BY <1>3, <2>1, <2>3, KernelAssumption
    <3> QED BY <1>1, <1>2, <2>3, <3>1 DEF Given
  <2> QED BY <1>5, <2>2, <2>3 DEF pmmngr_deinit_region
<1>6. CASE vmm_init \/ kheap_init
  <2>1. pc # "regions" /\ pc' # "regions"
    BY <1>6 DEF vmm_init, kheap_init
  <2>2. TakeFrame \/ UNCHANGED <<kernel, used>>
    BY <1>6 DEF vmm_init, kheap_init
  <2>3. CASE TakeFrame
    <3>1. PICK f \in mmap_first_free(used) :
            used' = used \cup {f} /\ kernel' = kernel \cup {f}
      BY <2>3 DEF TakeFrame
    <3>2. f \in Offered
      BY <3>1, FirstFreeIsFree DEF Given
    <3> QED BY <1>1, <1>2, <2>1, <3>1, <3>2 DEF Given
  <2>4. CASE UNCHANGED <<kernel, used>>
    BY <1>1, <1>2, <2>1, <2>4 DEF Given
  <2> QED BY <2>2, <2>3, <2>4
<1> QED BY <1>4, <1>5, <1>6 DEF kmain

(* A page gets frames that were free.                                       *)
LEMMA AllocGiven ==
  ASSUME IInv, Given, NEW p \in Pages, AllocPage(p), pc \in {"load", "stack"},
         Offered' = Offered
  PROVE  Given'
<1>1. PICK f \in mmap_first_free(used) :
        MapPage(p, f) \/ MapInNewTable(p, f) \/ MapNothing(p, f)
  BY DEF AllocPage, vmm_alloc_page
<1>2. f \in Offered
  BY <1>1, FirstFreeIsFree DEF Given
<1>3. pc' = pc /\ kernel' = kernel /\ used \subseteq used'
  BY <1>1 DEF AllocPage, MapPage, MapInNewTable, MapNothing
<1>4. pde \in [Directory -> Frames \cup {None}] /\ pte \in [Pages -> Frames \cup {None}]
  BY DEF IInv, MemoryInv, FramesTyped
<1>5. /\ \A q \in Pages : pte'[q] = None \/ pte'[q] \in Offered
      /\ \A t \in Directory : pde'[t] = None \/ pde'[t] \in Offered
  <2>1. CASE MapPage(p, f)
    BY <1>2, <1>4, <2>1 DEF MapPage, Given
  <2>2. CASE MapInNewTable(p, f)
    <3>1. PICK t \in mmap_first_free(used \cup {f}) :
            /\ pde' = [pde EXCEPT ![Table[p]] = t]
            /\ pte' = [q \in Pages |->
                         IF q = p THEN f
                         ELSE IF Table[q] = Table[p] THEN None ELSE pte[q]]
      BY <2>2 DEF MapInNewTable
    <3>2. t \in Offered
      BY <3>1, FirstFreeIsFree DEF Given
    <3> QED BY <1>2, <1>4, <3>1, <3>2 DEF Given
  <2>3. CASE MapNothing(p, f)
    BY <2>3 DEF MapNothing, space, Given
  <2> QED BY <1>1, <2>1, <2>2, <2>3
<1> QED BY <1>3, <1>5 DEF Given

LEMMA GivenNext == IInv /\ Given /\ [Next]_vars => Given'
<1> SUFFICES ASSUME IInv, Given, [Next]_vars PROVE Given'
  OBVIOUS
<1>1. Offered' = Offered /\ map' = map
  BY MapFixed
<1>2. CASE kmain
  BY <1>2, BootGiven
<1>3. CASE /\ UNCHANGED <<kernel, used, pde, pte>>
           /\ pc # "regions" /\ pc' # "regions"
  BY <1>1, <1>3 DEF Given
<1>4. CASE Exec \/ CopySegment \/ BadFile \/ Loaded \/ Run \/ PageFault \/ Exit
           \/ Freed \/ Prompt
  BY <1>3, <1>4 DEF Exec, CopySegment, BadFile, GiveUp, Loaded, Run, PageFault, Exit,
              Freed, Prompt, frames, space
<1>5. CASE GiveUp /\ pc \in {"load", "stack"}
  BY <1>3, <1>5 DEF GiveUp, frames, space
<1>6. CASE LoadPage \/ StackPage
  <2>1. pc \in {"load", "stack"}
    BY <1>6 DEF LoadPage, StackPage
  <2>2. GiveUp \/ (\E p \in Pages : AllocPage(p))
    <3>1. CASE LoadPage
      <4>1. file \in Seq(Seq(Pages)) /\ seg \in 1 .. Len(file)
        BY <3>1, ProgramsAssumption DEF LoadPage, LoaderTyped, IInv
      <4>2. file[seg] \in Seq(Pages) /\ page \in 1 .. Len(file[seg])
        BY <3>1, <4>1 DEF LoadPage, LoaderTyped, IInv
      <4>3. file[seg][page] \in Pages
        BY <4>2
      <4> QED BY <3>1, <4>3 DEF LoadPage
    <3>2. CASE StackPage
      BY <3>2, StackAssumption DEF StackPage, LoaderTyped, IInv
    <3> QED BY <1>6, <3>1, <3>2
  <2> QED BY <1>1, <1>5, <2>1, <2>2, AllocGiven
<1>7. CASE FreePage
  <2>1. pc = "free" /\ pc' = "free" /\ vmm_unmap_page(mapped_pages[page])
        /\ mapped_pages[page] \in Pages
    BY <1>7 DEF FreePage, LoaderTyped, IInv
  <2> DEFINE p == mapped_pages[page]
  <2>2. CASE Mapped(p)
    <3>1. /\ used' = used \ {pte[p]} /\ pte' = [pte EXCEPT ![p] = None]
          /\ pde' = pde /\ kernel' = kernel
      BY <2>1, <2>2 DEF vmm_unmap_page
    <3>2. pte[p] \in Offered /\ pte \in [Pages -> Frames \cup {None}]
      BY <2>1, <2>2 DEF Given, Mapped, IInv, MemoryInv, FramesTyped
    <3> QED BY <1>1, <2>1, <3>1, <3>2 DEF Given
  <2>3. CASE ~Mapped(p)
    BY <1>3, <2>1, <2>3 DEF vmm_unmap_page, frames, space
  <2> QED BY <2>2, <2>3
<1>8. CASE UNCHANGED vars
  BY <1>1, <1>8 DEF vars, frames, space, loader, Given
<1> QED BY <1>2, <1>4, <1>6, <1>7, <1>8 DEF Next

(* kmain and the programs only ever get frames that the boot loader calls   *)
(* available, to their last byte, save for what a base that is rounded down *)
(* (pmm.c:100) adds in front; for every map whose available entries lie     *)
(* within the memory that mem_upper counts.                                 *)
THEOREM MemoryIsGiven == Spec => []OnlyMemoryIsGiven
<1>1. Init => IInv /\ Given
  BY InitInv, GivenInit
<1>2. IInv /\ Given /\ [Next]_vars => IInv' /\ Given'
  BY NextInv, GivenNext
<1>3. IInv /\ Given => OnlyMemoryIsGiven
  <2> SUFFICES ASSUME IInv, Given, NEW f \in GivenOut PROVE IsMemory(f)
    BY DEF OnlyMemoryIsGiven
  <2>1. map \in Maps
    BY DEF IInv, LoaderTyped
  <2>2. f \in Offered /\ f \notin 0 .. KernelBlocks - 1
    <3>1. CASE f \in kernel \ (0 .. KernelBlocks - 1)
      BY <3>1 DEF Given
    <3>2. CASE \E p \in Pages : f = pte[p] /\ f # None
      <4>1. f \in Offered /\ f \notin kernel
        BY <3>2 DEF Given, IInv, MemoryInv, FramesOwnedOnce
      <4>2. pc # "regions"
        BY <3>2 DEF IInv, Booting
      <4> QED BY <4>1, <4>2 DEF Given
    <3>3. CASE \E t \in Directory : f = pde[t] /\ f # None
      <4>1. f \in Offered /\ f \notin kernel
        BY <3>3 DEF Given, IInv, MemoryInv, FramesOwnedOnce
      <4>2. pc # "regions"
        BY <3>3 DEF IInv, Booting
      <4> QED BY <4>1, <4>2 DEF Given
    <3> QED BY <3>1, <3>2, <3>3 DEF GivenOut
  <2> QED BY <2>1, <2>2, OfferedIsMemory
<1> QED BY <1>1, <1>2, <1>3, PTL DEF Spec
-----------------------------------------------------------------------------
(* A page that is mapped has its page table.                                *)
TablesFirst == \A p \in Pages : pte[p] # None => pde[Table[p]] # None

(* The blocks of the map's entries that pmmngr_init_region has cleared.     *)
Cleared ==
  {f \in Frames : \E i \in DOMAIN map :
     /\ map[i].available
     /\ f \in map[i].base \div BlockSize ..
              map[i].base \div BlockSize + BlocksOf(map[i]) - 1
     /\ i < seg \/ (i = seg /\ f < map[i].base \div BlockSize + page - 1)}

(* The frames of the programs' pages and page tables.                       *)
Owned == ({pte[p] : p \in Pages} \cup {pde[t] : t \in Directory}) \ {None}

(* Every bit that is set has a reason.                                      *)
Accounted ==
  /\ pc = "regions" => used = (Frames \ Cleared) \cup kernel
  /\ pc # "regions" /\ ~spoiled => used = (Frames \ Offered) \cup kernel \cup Owned

(* What of mapped_pages is still mapped, and that nothing else is.          *)
FirstLeft == IF pc = "free" THEN page ELSE 1
Recorded ==
  ~spoiled =>
    /\ pc \in {"load", "stack", "user", "free"} =>
         /\ \A i, j \in 1 .. Len(mapped_pages) :
              mapped_pages[i] = mapped_pages[j] => i = j
         /\ \A p \in Pages :
              pte[p] # None <=> \E i \in FirstLeft .. Len(mapped_pages) : mapped_pages[i] = p
    /\ pc \in {"shell", "freed"} => \A p \in Pages : pte[p] = None

(* What the program finds where it has been loaded so far.                  *)
InPlace(s) == \A p \in PagesOf(s) : pte[p] # None /\ s \in holds[pte[p]]
SegmentsIn ==
  ~spoiled =>
    /\ pc = "load" => \A s \in 1 .. Len(file) : s < seg => InPlace(s)
    /\ pc \in {"stack", "user"} => \A s \in 1 .. Len(file) : InPlace(s)
    /\ pc = "stack" => \A i \in 1 .. Len(StackPages) :
                         i < page => pte[StackPages[i]] # None
    /\ pc = "user" => \A i \in 1 .. Len(StackPages) : pte[StackPages[i]] # None

Tidy == TablesFirst /\ Accounted /\ Recorded /\ SegmentsIn

(* A file that is being loaded is a sequence of sequences of pages.         *)
LEMMA FileTyped ==
  ASSUME LoaderTyped
  PROVE  /\ file \in Seq(Seq(Pages)) /\ Len(file) \in Nat
         /\ \A s \in 1 .. Len(file) :
              /\ file[s] \in Seq(Pages) /\ Len(file[s]) \in Nat
              /\ PagesOf(s) \subseteq Pages
<1>1. file \in Seq(Seq(Pages))
  <2>1. \A S : <<>> \in Seq(S)
    OBVIOUS
  <2>2. <<>> \in Seq(Seq(Pages))
    BY <2>1
  <2>3. file \in Programs \/ file = <<>>
    BY DEF LoaderTyped
  <2> QED BY Zenon, <2>2, <2>3, ProgramsAssumption
<1>2. ASSUME NEW s \in 1 .. Len(file)
      PROVE  file[s] \in Seq(Pages) /\ Len(file[s]) \in Nat /\ PagesOf(s) \subseteq Pages
  <2>1. file[s] \in Seq(Pages)
    BY <1>1
  <2> QED BY <2>1 DEF PagesOf
<1> QED BY <1>1, <1>2

LEMMA TidyInit == Init => Tidy
<1> SUFFICES ASSUME Init PROVE Tidy
  OBVIOUS
<1>1. /\ map \in Maps /\ kernel = {} /\ used = Frames /\ pc = "regions"
      /\ seg = 1 /\ page = 1 /\ \A p \in Pages : pte[p] = None
  BY DEF Init
<1>2. Cleared = {}
  <2> SUFFICES ASSUME NEW f \in Cleared PROVE FALSE
    OBVIOUS
  <2>1. PICK i \in 1 .. Len(map) :
          /\ f \in map[i].base \div BlockSize ..
                   map[i].base \div BlockSize + BlocksOf(map[i]) - 1
          /\ i < 1 \/ (i = 1 /\ f < map[i].base \div BlockSize + 1 - 1)
    BY <1>1, MapEntry DEF Cleared
  <2>2. map[i].base \in Nat /\ map[i].base \div BlockSize \in Nat
    BY <1>1, MapEntry, BlockOf
  <2> QED BY <2>1, <2>2
<1> QED BY <1>1, <1>2 DEF Tidy, TablesFirst, Accounted, Recorded, SegmentsIn

(* What a page costs while nothing has gone wrong: frames that were free,   *)
(* for the page and perhaps its table; no other page is disturbed.          *)
LEMMA AllocEffect ==
  ASSUME IInv, TablesFirst, NEW p \in Pages, AllocPage(p), ~spoiled'
  PROVE  /\ ~spoiled /\ pte[p] = None /\ pte'[p] # None
         /\ \A q \in Pages : q # p => pte'[q] = pte[q]
         /\ \A q \in Pages : q # p /\ pte[q] # None => holds'[pte[q]] = holds[pte[q]]
         /\ \E new \in SUBSET (Frames \ used) :
              used' = used \cup new /\ Owned' = Owned \cup new
         /\ mapped_pages' = Append(mapped_pages, p)
<1>1. /\ ~spoiled /\ ~Mapped(p) /\ Len(mapped_pages) < MaxPages
      /\ pde'[Table[p]] # None
  <2>1. ~spoiled /\ ~Untidy(p)
    BY DEF AllocPage
  <2>2. Len(mapped_pages) \in Nat /\ MaxPages \in Nat
    BY LimitsAssumption DEF IInv, LoaderTyped
  <2> QED BY <2>1, <2>2 DEF Untidy
<1>2. pte[p] = None
  BY <1>1 DEF Mapped, TablesFirst
<1>3. PICK f \in mmap_first_free(used) :
        MapPage(p, f) \/ MapInNewTable(p, f) \/ MapNothing(p, f)
  BY DEF AllocPage, vmm_alloc_page
<1>4. f \in Frames \ used /\ None \notin Frames
  BY <1>3, FirstFreeIsFree, BlocksAssumption DEF None, Frames
<1>5. /\ pde \in [Directory -> Frames \cup {None}]
      /\ pte \in [Pages -> Frames \cup {None}]
      /\ holds \in [Frames -> SUBSET Nat] /\ Table[p] \in Directory
      /\ \A q \in Pages : pte[q] # None => pte[q] \in used /\ pte[q] # f
  BY <1>4 DEF IInv, MemoryInv, FramesTyped, FramesOwnedOnce, Directory
<1>6. mapped_pages' = Append(mapped_pages, p)
  BY <1>1 DEF AllocPage, Record
<1>7. CASE MapPage(p, f)
  <2>1. /\ used' = used \cup {f} /\ pte' = [pte EXCEPT ![p] = f] /\ pde' = pde
        /\ holds' = [holds EXCEPT ![f] = {}]
    BY <1>7 DEF MapPage
  <2>2. Owned' = Owned \cup {f}
    <3>1. {pte'[q] : q \in Pages} \ {None} = ({pte[q] : q \in Pages} \cup {f}) \ {None}
      BY <1>2, <1>4, <1>5, <2>1
    <3> QED BY <1>4, <2>1, <3>1 DEF Owned
  <2> QED BY <1>1, <1>2, <1>4, <1>5, <1>6, <2>1, <2>2
<1>8. CASE MapInNewTable(p, f)
  <2>1. PICK t \in mmap_first_free(used \cup {f}) :
          /\ pde[Table[p]] = None
          /\ used' = used \cup {f, t}
          /\ pde' = [pde EXCEPT ![Table[p]] = t]
          /\ pte' = [q \in Pages |->
                       IF q = p THEN f
                       ELSE IF Table[q] = Table[p] THEN None ELSE pte[q]]
          /\ holds' = [holds EXCEPT ![f] = {}]
    BY <1>8 DEF MapInNewTable
  <2>2. t \in Frames \ used /\ t # f
    BY <2>1, FirstFreeIsFree
  <2>3. \A q \in Pages : q # p => pte'[q] = pte[q]
    BY <2>1 DEF TablesFirst
  <2>4. pte'[p] = f
    BY <2>1
  <2>5. Owned' = Owned \cup {f, t}
    <3>1. {pte'[q] : q \in Pages} \ {None} = ({pte[q] : q \in Pages} \cup {f}) \ {None}
      BY <1>2, <1>4, <2>3, <2>4
    <3>2. {pde'[d] : d \in Directory} \ {None}
            = ({pde[d] : d \in Directory} \cup {t}) \ {None}
      <4>1. pde'[Table[p]] = t /\ \A d \in Directory : d # Table[p] => pde'[d] = pde[d]
        BY <1>5, <2>1
      <4> QED BY <1>4, <1>5, <2>1, <2>2, <4>1
    <3> QED BY <1>4, <2>2, <3>1, <3>2 DEF Owned
  <2>6. {f, t} \in SUBSET (Frames \ used)
    BY <1>4, <2>2
  <2>7. \A q \in Pages : q # p /\ pte[q] # None => holds'[pte[q]] = holds[pte[q]]
    BY <1>5, <2>1
  <2> QED BY <1>1, <1>2, <1>4, <1>6, <2>1, <2>3, <2>4, <2>5, <2>6, <2>7
<1>9. CASE MapNothing(p, f)
  BY <1>1, <1>9 DEF MapNothing, space
<1> QED BY <1>3, <1>7, <1>8, <1>9

(* A page table is there before any of its pages, whatever went wrong.      *)
LEMMA AllocTablesFirst ==
  ASSUME IInv, TablesFirst, NEW p \in Pages, AllocPage(p)
  PROVE  TablesFirst'
<1>1. PICK f \in mmap_first_free(used) :
        MapPage(p, f) \/ MapInNewTable(p, f) \/ MapNothing(p, f)
  BY DEF AllocPage, vmm_alloc_page
<1>2. /\ pde \in [Directory -> Frames \cup {None}]
      /\ pte \in [Pages -> Frames \cup {None}] /\ None \notin Frames
      /\ \A q \in Pages : Table[q] \in Directory
  BY BlocksAssumption DEF IInv, MemoryInv, FramesTyped, None, Frames, Directory
<1>3. CASE MapPage(p, f)
  BY <1>2, <1>3 DEF MapPage, TablesFirst
<1>4. CASE MapInNewTable(p, f)
  <2>1. PICK t \in mmap_first_free(used \cup {f}) :
          /\ pde' = [pde EXCEPT ![Table[p]] = t]
          /\ pte' = [q \in Pages |->
                       IF q = p THEN f
                       ELSE IF Table[q] = Table[p] THEN None ELSE pte[q]]
    BY <1>4 DEF MapInNewTable
  <2>2. t # None
    BY <1>2, <2>1, FirstFreeIsFree
  <2> QED BY <1>2, <2>1, <2>2 DEF TablesFirst
<1>5. CASE MapNothing(p, f)
  BY <1>5 DEF MapNothing, space, TablesFirst
<1> QED BY <1>1, <1>3, <1>4, <1>5

(* A page more, of a segment or of the stack: it is recorded, its frames    *)
(* are accounted for, and what was in place stays in place.                 *)
LEMMA AllocTidy ==
  ASSUME IInv, Tidy, NEW p \in Pages, AllocPage(p), pc \in {"load", "stack"},
         pc = "stack" => p = StackPages[page],
         Offered' = Offered
  PROVE  Tidy'
<1>0. TablesFirst'
  BY AllocTablesFirst DEF Tidy
<1> SUFFICES ASSUME ~spoiled' PROVE Accounted' /\ Recorded' /\ SegmentsIn'
  <2>1. pc' = pc
    BY DEF AllocPage
  <2> QED BY <1>0, <2>1 DEF Tidy, Accounted, Recorded, SegmentsIn
<1>1. /\ ~spoiled /\ pte[p] = None /\ pte'[p] # None
      /\ \A q \in Pages : q # p => pte'[q] = pte[q]
      /\ \A q \in Pages : q # p /\ pte[q] # None => holds'[pte[q]] = holds[pte[q]]
      /\ \E new \in SUBSET (Frames \ used) :
           used' = used \cup new /\ Owned' = Owned \cup new
      /\ mapped_pages' = Append(mapped_pages, p)
  BY AllocEffect DEF Tidy
<1>2. /\ pc' = pc /\ file' = file /\ seg' = seg /\ page' = page + 1
      /\ kernel' = kernel
  BY DEF AllocPage, vmm_alloc_page, MapPage, MapInNewTable, MapNothing
<1>3. Accounted'
  BY <1>1, <1>2 DEF Tidy, Accounted
<1>4. Recorded'
  <2> DEFINE n == Len(mapped_pages)
  <2>1. /\ mapped_pages \in Seq(Pages) /\ n \in Nat
        /\ \A i, j \in 1 .. n : mapped_pages[i] = mapped_pages[j] => i = j
        /\ \A q \in Pages : pte[q] # None <=> \E i \in 1 .. n : mapped_pages[i] = q
    BY <1>1 DEF Tidy, Recorded, FirstLeft, IInv, LoaderTyped
  <2>2. /\ Len(mapped_pages') = n + 1 /\ mapped_pages'[n + 1] = p
        /\ \A i \in 1 .. n : mapped_pages'[i] = mapped_pages[i]
    BY <1>1, <2>1
  <2>3. \A i \in 1 .. n : mapped_pages[i] # p
    BY <1>1, <2>1
  <2> HIDE DEF n
  <2>4. \A i, j \in 1 .. n + 1 : mapped_pages'[i] = mapped_pages'[j] => i = j
    <3>1. \A i \in 1 .. n + 1 : i \in 1 .. n \/ i = n + 1
      BY <2>1
    <3> QED BY <2>1, <2>2, <2>3, <3>1
  <2>5. ASSUME NEW q \in Pages
        PROVE  pte'[q] # None <=> \E i \in 1 .. n + 1 : mapped_pages'[i] = q
    <3>1. CASE q = p
      BY <1>1, <2>1, <2>2, <3>1
    <3>2. CASE q # p
      <4>1. \A i \in 1 .. n + 1 : i \in 1 .. n \/ i = n + 1
        BY <2>1
      <4>2. \A i \in 1 .. n : i \in 1 .. n + 1
        BY <2>1
      <4> QED BY <1>1, <2>1, <2>2, <3>2, <4>1, <4>2
    <3> QED BY <3>1, <3>2
  <2> QED BY <1>2, <2>2, <2>4, <2>5 DEF Recorded, FirstLeft
<1>5. SegmentsIn'
  <2>1. \A s \in 1 .. Len(file) : InPlace(s) => InPlace(s)'
    <3> SUFFICES ASSUME NEW s \in 1 .. Len(file), InPlace(s), NEW q \in PagesOf(s)
                 PROVE  pte'[q] # None /\ s \in holds'[pte'[q]]
      BY <1>2 DEF InPlace, PagesOf
    <3>1. q \in Pages /\ pte[q] # None /\ s \in holds[pte[q]]
      BY FileTyped DEF InPlace, IInv
    <3> QED BY <1>1, <3>1
  <2>2. pc = "stack" => \A i \in 1 .. Len(StackPages) : i < page + 1 =>
          pte'[StackPages[i]] # None
    <3> SUFFICES ASSUME pc = "stack", NEW i \in 1 .. Len(StackPages), i < page + 1
                 PROVE  pte'[StackPages[i]] # None
      OBVIOUS
    <3>1. StackPages[i] \in Pages /\ page \in Nat
      BY StackAssumption DEF IInv, LoaderTyped
    <3>2. CASE i < page
      BY <1>1, <3>1, <3>2 DEF Tidy, SegmentsIn
    <3>3. CASE i = page
      BY <1>1, <3>3
    <3> QED BY <3>1, <3>2, <3>3
  <2> QED BY <1>1, <1>2, <2>1, <2>2 DEF Tidy, SegmentsIn
<1> QED BY <1>0, <1>3, <1>4, <1>5 DEF Tidy

(* kmain clears what the map offers, entry by entry, and what it then sets  *)
(* it takes for the kernel.                                                 *)
LEMMA BootTidy ==
  ASSUME IInv, Given, Tidy, kmain
  PROVE  Tidy'
<1>1. Offered' = Offered /\ map' = map
  BY MapFixed DEF Next
<1>2. pte' = pte /\ pde' = pde /\ spoiled' = spoiled
  BY DEF kmain, pmmngr_init_region, pmmngr_deinit_region, vmm_init, kheap_init, space
<1>3. page \in Nat \ {0} /\ seg \in Nat \ {0} /\ map \in Maps
  BY DEF IInv, LoaderTyped
<1>4. pc \in {"regions", "paging", "heap"} /\ pc' \in {"regions", "paging", "heap", "shell", "halted"}
  BY DEF kmain, pmmngr_init_region, pmmngr_deinit_region, vmm_init, kheap_init
<1>5. \A p \in Pages : pte[p] = None
  BY <1>4 DEF IInv, Booting
<1>6. Owned' = Owned /\ Owned = {}
  <2>1. \A t \in Directory : pde[t] = None
    BY <1>4 DEF IInv, Booting
  <2> QED BY <1>2, <1>5, <2>1 DEF Owned
<1>7. TablesFirst' /\ Recorded' /\ SegmentsIn'
  BY <1>2, <1>4, <1>5 DEF TablesFirst, Recorded, SegmentsIn
<1>8. CASE pmmngr_init_region
  <2>1. pc = "regions" /\ pc' = "regions" /\ kernel' = kernel /\ kernel = {} /\ seg <= Len(map)
    BY <1>8 DEF pmmngr_init_region, IInv, Booting
  <2>2. seg \in DOMAIN map /\ DOMAIN map = 1 .. Len(map) /\ Len(map) \in Nat
    BY <1>3, <2>1, MapEntry
  <2> DEFINE first(i) == map[i].base \div BlockSize
             n(i) == BlocksOf(map[i])
  <2>3. \A i \in DOMAIN map : first(i) \in Nat /\ n(i) \in Nat
    BY <1>3, BlockOf, MapEntry DEF BlocksOf
  <2>4. used = Frames \ Cleared
    BY <2>1 DEF Tidy, Accounted
  <2>5. Cleared = {f \in Frames : \E i \in DOMAIN map :
                     /\ map[i].available /\ f \in first(i) .. first(i) + n(i) - 1
                     /\ i < seg \/ (i = seg /\ f < first(i) + page - 1)}
        /\ Cleared' = {f \in Frames : \E i \in DOMAIN map :
                     /\ map[i].available /\ f \in first(i) .. first(i) + n(i) - 1
                     /\ i < seg' \/ (i = seg' /\ f < first(i) + page' - 1)}
    BY <1>1 DEF Cleared, BlocksOf
  <2>6. CASE map[seg].available /\ page <= n(seg)
    <3>1. used' = used \ {first(seg) + page - 1} /\ page' = page + 1 /\ seg' = seg
      <4>1. ~(page > n(seg))
        BY <1>3, <2>2, <2>3, <2>6
      <4> QED BY Zenon, <1>8, <2>6, <4>1 DEF pmmngr_init_region
    <3> HIDE DEF first, n
    <3>2. Cleared' = Cleared \cup ({first(seg) + page - 1} \cap Frames)
      <4>1. ASSUME NEW f \in Frames
            PROVE  f \in Cleared' <=> f \in Cleared \/ f = first(seg) + page - 1
        <5>1. f \in Nat
          BY BlocksAssumption DEF Frames
        <5>2. f = first(seg) + page - 1 =>
                /\ f \in first(seg) .. first(seg) + n(seg) - 1
                /\ f < first(seg) + (page + 1) - 1
          BY <1>3, <2>2, <2>3, <2>6, <5>1
        <5>3. f < first(seg) + (page + 1) - 1 <=>
                f < first(seg) + page - 1 \/ f = first(seg) + page - 1
          BY <1>3, <2>2, <2>3, <5>1
        <5> QED BY <2>2, <2>5, <2>6, <3>1, <5>2, <5>3
      <4>2. Cleared \subseteq Frames /\ Cleared' \subseteq Frames
        BY <2>5
      <4> QED BY <4>1, <4>2
    <3> QED BY <1>7, <2>1, <2>4, <3>1, <3>2 DEF Tidy, Accounted
  <2>7. CASE map[seg].available => page > n(seg)
    <3>1. used' = used /\ page' = 1 /\ seg' = seg + 1
      <4>1. ~(map[seg].available /\ page <= n(seg))
        BY <1>3, <2>2, <2>3, <2>7
      <4> QED BY Zenon, <1>8, <2>7, <4>1 DEF pmmngr_init_region
    <3> HIDE DEF first, n
    <3>2. Cleared' = Cleared
      <4>1. ASSUME NEW f \in Frames, NEW i \in DOMAIN map,
                   map[i].available, f \in first(i) .. first(i) + n(i) - 1
            PROVE  (i < seg \/ (i = seg /\ f < first(i) + page - 1))
                   <=> (i < seg + 1 \/ (i = seg + 1 /\ f < first(i) + 1 - 1))
        <5>1. f \in Nat /\ i \in Nat /\ first(i) \in Nat /\ n(i) \in Nat
          BY <2>2, <2>3, <4>1, BlocksAssumption DEF Frames
        <5>2. ~(f < first(i) + 1 - 1)
          BY <4>1, <5>1
        <5>3. i = seg => f < first(i) + page - 1
          BY <1>3, <2>7, <4>1, <5>1
        <5> QED BY <1>3, <5>1, <5>2, <5>3
      <4> QED BY <2>5, <3>1, <4>1
    <3> QED BY <1>7, <2>1, <2>4, <3>1, <3>2 DEF Tidy, Accounted
  <2> QED BY <1>3, <2>2, <2>3, <2>6, <2>7
<1>9. ASSUME pc = "regions", seg > Len(map) PROVE Cleared = Offered
  <2>1. \A i \in DOMAIN map : i < seg
    BY <1>3, <1>9, MapEntry
  <2> QED BY <2>1 DEF Cleared, Offered
<1>10. CASE pmmngr_deinit_region
  <2>1. pc = "regions" /\ seg > Len(map) /\ seg' = seg
    BY <1>10 DEF pmmngr_deinit_region
  <2>2. used = (Frames \ Offered) \cup kernel
    BY <1>9, <2>1 DEF Tidy, Accounted
  <2>3. used' = (Frames \ Offered) \cup kernel'
    BY <1>10, <2>2 DEF pmmngr_deinit_region
  <2>4. pc' = "regions" => Cleared' = Offered
    <3>1. \A i \in DOMAIN map : i < seg'
      BY <1>3, <2>1, MapEntry
    <3> QED BY <1>1, <3>1 DEF Cleared, Offered
  <2> QED BY <1>1, <1>6, <1>7, <2>3, <2>4 DEF Tidy, Accounted
<1>11. CASE vmm_init \/ kheap_init
  <2>1. pc # "regions" /\ pc' # "regions"
    BY <1>11 DEF vmm_init, kheap_init
  <2>2. \E new : used' = used \cup new /\ kernel' = kernel \cup new
    <3>1. TakeFrame \/ (used' = used \cup {} /\ kernel' = kernel \cup {})
      BY <1>11 DEF vmm_init, kheap_init
    <3> QED BY <3>1 DEF TakeFrame
  <2> QED BY <1>1, <1>2, <1>6, <1>7, <2>1, <2>2 DEF Tidy, Accounted
<1> QED BY <1>8, <1>10, <1>11 DEF kmain

(* A page that goes leaves the record and gives its frame back.             *)
LEMMA FreeTidy ==
  ASSUME IInv, Given, Tidy, FreePage
  PROVE  Tidy'
<1> DEFINE p == mapped_pages[page]
           n == Len(mapped_pages)
<1>1. /\ pc = "free" /\ pc' = "free" /\ page \in 1 .. n /\ page' = page + 1
      /\ mapped_pages \in Seq(Pages) /\ n \in Nat /\ p \in Pages
      /\ mapped_pages' = mapped_pages /\ spoiled' = spoiled
      /\ vmm_unmap_page(p)
  BY DEF FreePage, IInv, LoaderTyped
<1>2. map' = map /\ Offered' = Offered /\ kernel' = kernel /\ pde' = pde
  <2>1. map' = map /\ kernel' = kernel /\ pde' = pde
    BY <1>1 DEF vmm_unmap_page, frames, space
  <2> QED BY <2>1 DEF Offered
<1>3. SegmentsIn'
  BY <1>1 DEF SegmentsIn
<1> HIDE DEF p, n
<1>4. CASE ~Mapped(p)
  <2>1. used' = used /\ pte' = pte
    BY <1>1, <1>4 DEF vmm_unmap_page, frames, space
  <2>2. pte[p] = None
    BY <1>1, <1>4 DEF Mapped, Tidy, TablesFirst
  <2>3. ~spoiled => FALSE
    BY <1>1, <2>2 DEF Tidy, Recorded, FirstLeft, p, n
  <2> QED BY <1>1, <1>2, <1>3, <2>1, <2>3 DEF Tidy, TablesFirst, Accounted, Recorded
<1>5. CASE Mapped(p)
  <2>1. used' = used \ {pte[p]} /\ pte' = [pte EXCEPT ![p] = None]
    BY <1>1, <1>5 DEF vmm_unmap_page
  <2>2. /\ pte \in [Pages -> Frames \cup {None}] /\ pte[p] # None
        /\ pte[p] \notin kernel /\ pte[p] \in Offered
        /\ \A q \in Pages : q # p => pte[q] # pte[p]
        /\ \A t \in Directory : pde[t] # pte[p]
    BY <1>1, <1>5 DEF Mapped, IInv, MemoryInv, FramesTyped, FramesOwnedOnce, Given
  <2>3. TablesFirst'
    BY <1>1, <1>2, <2>1, <2>2 DEF Tidy, TablesFirst
  <2>4. Owned' = Owned \ {pte[p]}
    <3>1. {pte'[q] : q \in Pages} \ {None} = {pte[q] : q \in Pages} \ {None, pte[p]}
      BY <1>1, <2>1, <2>2
    <3> QED BY <1>2, <2>2, <3>1 DEF Owned
  <2>5. Accounted'
    BY <1>1, <1>2, <2>1, <2>2, <2>4 DEF Tidy, Accounted
  <2>6. Recorded'
    <3> SUFFICES ASSUME ~spoiled PROVE Recorded'
      BY <1>1 DEF Recorded
    <3>1. /\ \A i, j \in 1 .. n : mapped_pages[i] = mapped_pages[j] => i = j
          /\ \A q \in Pages : pte[q] # None <=> \E i \in page .. n : mapped_pages[i] = q
      BY <1>1 DEF Tidy, Recorded, FirstLeft, n
    <3>2. ASSUME NEW q \in Pages
          PROVE  pte'[q] # None <=> \E i \in page + 1 .. n : mapped_pages[i] = q
      <4>1. \A i \in page .. n : i = page \/ i \in page + 1 .. n
        BY <1>1
      <4>2. \A i \in page + 1 .. n : i \in page .. n /\ i # page /\ i \in 1 .. n
        BY <1>1
      <4>3. CASE q = p
        BY <1>1, <2>1, <2>2, <3>1, <4>2, <4>3 DEF p
      <4>4. CASE q # p
        BY <1>1, <2>1, <2>2, <3>1, <4>1, <4>2, <4>4 DEF p
      <4> QED BY <4>3, <4>4
    <3> QED BY <1>1, <3>1, <3>2 DEF Recorded, FirstLeft, n
  <2> QED BY <1>3, <2>3, <2>5, <2>6 DEF Tidy
<1> QED BY <1>4, <1>5

(* A load given up with nothing mapped leaves nothing mapped; any other is  *)
(* remembered in spoiled.                                                   *)
LEMMA GiveUpTidy ==
  ASSUME IInv, Tidy, GiveUp, pc \in {"load", "stack"}
  PROVE  Tidy'
<1>1. /\ pc' = "shell" /\ spoiled' = (spoiled \/ mapped_pages # <<>>)
      /\ UNCHANGED <<map, kernel, used, pde, pte>>
  BY DEF GiveUp, frames, space
<1>2. ~spoiled' => \A p \in Pages : pte'[p] = None
  <2> SUFFICES ASSUME ~spoiled' PROVE \A p \in Pages : pte[p] = None
    BY <1>1
  <2>1. ~spoiled /\ mapped_pages = <<>>
    BY <1>1
  <2>2. 1 .. Len(mapped_pages) = {}
    BY <2>1
  <2> QED BY <2>1, <2>2 DEF Tidy, Recorded, FirstLeft
<1>3. spoiled => spoiled'
  BY <1>1
<1>4. Owned' = Owned /\ Offered' = Offered
  BY <1>1 DEF Owned, Offered
<1> QED BY <1>1, <1>2, <1>3, <1>4 DEF Tidy, TablesFirst, Accounted, Recorded, SegmentsIn

(* A segment's bytes reach every page of it.                                *)
LEMMA CopyTidy ==
  ASSUME IInv, Tidy, CopySegment
  PROVE  Tidy'
<1>1. /\ pc = "load" /\ seg \in 1 .. Len(file) /\ pc' \in {"load", "halted"}
      /\ UNCHANGED <<map, kernel, used, pde, pte, file, mapped_pages, spoiled>>
  BY DEF CopySegment, frames, IInv, LoaderTyped
<1>2. Owned' = Owned /\ Offered' = Offered
  BY <1>1 DEF Owned, Offered
<1>3. SegmentsIn'
  <2> SUFFICES ASSUME ~spoiled, pc' = "load" PROVE SegmentsIn'
    BY <1>1 DEF SegmentsIn
  <2>1. /\ \A p \in PagesOf(seg) : Mapped(p)
        /\ holds' = [f \in Frames |->
             IF \E p \in PagesOf(seg) : pte[p] = f THEN holds[f] \cup {seg}
             ELSE holds[f]]
        /\ seg' = seg + 1
    BY DEF CopySegment
  <2>2. ASSUME NEW s \in 1 .. Len(file), s < seg + 1, NEW p \in PagesOf(s)
        PROVE  pte[p] # None /\ s \in holds'[pte[p]]
    <3>1. p \in Pages
      BY FileTyped DEF IInv
    <3>2. pte[p] \in Frames \cup {None}
      BY <3>1 DEF IInv, MemoryInv, FramesTyped
    <3>3. CASE s = seg
      BY <2>1, <2>2, <3>2, <3>3 DEF Mapped
    <3>4. CASE s < seg
      <4>1. pte[p] # None /\ s \in holds[pte[p]]
        BY <1>1, <2>2, <3>4 DEF Tidy, SegmentsIn, InPlace
      <4> QED BY <2>1, <3>2, <4>1
    <3>5. seg \in Nat /\ s \in Nat
      BY <1>1
    <3> QED BY <2>2, <3>3, <3>4, <3>5
  <2> QED BY <1>1, <2>1, <2>2 DEF SegmentsIn, InPlace, PagesOf
<1> QED BY <1>1, <1>2, <1>3 DEF Tidy, TablesFirst, Accounted, Recorded, FirstLeft

(* A step that leaves memory, tables and frames alone leaves them accounted *)
(* for.                                                                     *)
LEMMA SameTidy ==
  ASSUME Tidy, UNCHANGED <<map, kernel, used, pde, pte, holds, spoiled>>,
         pc # "regions", pc' # "regions", Recorded', SegmentsIn'
  PROVE  Tidy'
<1>1. Owned' = Owned /\ Offered' = Offered
  BY DEF Owned, Offered
<1> QED BY <1>1 DEF Tidy, TablesFirst, Accounted

(* Every step keeps the memory accounted for.                               *)
LEMMA TidyNext == IInv /\ Given /\ Tidy /\ [Next]_vars => Tidy'
<1> SUFFICES ASSUME IInv, Given, Tidy, [Next]_vars PROVE Tidy'
  OBVIOUS
<1>0. Offered' = Offered /\ map' = map
  BY MapFixed
<1>1. CASE kmain
  BY <1>1, BootTidy
<1>2. CASE Exec
  <2>1. /\ UNCHANGED <<map, kernel, used, pde, pte, holds, spoiled>>
        /\ pc = "shell" /\ pc' = "load" /\ seg' = 1 /\ mapped_pages' = <<>>
    BY <1>2 DEF Exec, frames, space
  <2>2. Recorded'
    <3>1. 1 .. Len(mapped_pages') = {}
      BY <2>1
    <3> QED BY <2>1, <3>1 DEF Tidy, Recorded, FirstLeft
  <2>3. SegmentsIn'
    <3>1. \A s \in Nat \ {0} : ~(s < 1)
      OBVIOUS
    <3>2. \A s \in 1 .. Len(file') : ~(s < 1)
      OBVIOUS
    <3> QED BY <2>1, <3>2 DEF SegmentsIn
  <2> QED BY <2>1, <2>2, <2>3, SameTidy
<1>3. CASE LoadPage
  <2>1. CASE AllocPage(file[seg][page])
    <3>1. seg \in 1 .. Len(file) /\ page \in 1 .. Len(file[seg]) /\ pc = "load"
      BY <1>3 DEF LoadPage, IInv, LoaderTyped
    <3>2. file[seg] \in Seq(Pages)
      BY <3>1, FileTyped DEF IInv
    <3>3. file[seg][page] \in Pages
      BY <3>1, <3>2
    <3> QED BY <1>0, <2>1, <3>1, <3>3, AllocTidy
  <2>2. CASE GiveUp
    BY <1>3, <2>2, GiveUpTidy DEF LoadPage
  <2> QED BY <1>3, <2>1, <2>2 DEF LoadPage
<1>4. CASE CopySegment
  BY <1>4, CopyTidy
<1>5. CASE BadFile
  BY <1>5, GiveUpTidy DEF BadFile
<1>6. CASE StackPage
  <2>1. CASE AllocPage(StackPages[page])
    <3>1. StackPages[page] \in Pages /\ pc = "stack"
      BY <1>6, StackAssumption DEF StackPage, IInv, LoaderTyped
    <3> QED BY <1>0, <2>1, <3>1, AllocTidy
  <2>2. CASE GiveUp
    BY <1>6, <2>2, GiveUpTidy DEF StackPage
  <2> QED BY <1>6, <2>1, <2>2 DEF StackPage
<1>7. CASE Loaded
  <2>1. /\ UNCHANGED <<map, kernel, used, pde, pte, holds, spoiled, file, mapped_pages>>
        /\ pc = "load" /\ pc' = "stack" /\ seg > Len(file) /\ page' = 1
    BY <1>7 DEF Loaded, frames, space
  <2>2. Recorded'
    BY <2>1 DEF Tidy, Recorded, FirstLeft
  <2>3. SegmentsIn'
    <3>1. seg \in Nat /\ Len(file) \in Nat
      BY FileTyped DEF IInv, LoaderTyped
    <3>2. \A s \in 1 .. Len(file) : s < seg
      BY <2>1, <3>1
    <3>3. \A i \in 1 .. Len(StackPages) : ~(i < 1)
      OBVIOUS
    <3>4. \A s : InPlace(s)' <=> InPlace(s)
      BY <2>1 DEF InPlace, PagesOf
    <3> QED BY <2>1, <3>2, <3>3, <3>4 DEF Tidy, SegmentsIn
  <2> QED BY <2>1, <2>2, <2>3, SameTidy
<1>8. CASE Run
  <2>1. /\ UNCHANGED <<map, kernel, used, pde, pte, holds, spoiled, file, mapped_pages>>
        /\ pc = "stack" /\ pc' = "user" /\ page > Len(StackPages)
    BY <1>8 DEF Run, frames, space, loader
  <2>2. Recorded'
    BY <2>1 DEF Tidy, Recorded, FirstLeft
  <2>3. SegmentsIn'
    <3>1. \A i \in 1 .. Len(StackPages) : i < page
      BY <2>1, StackAssumption DEF IInv, LoaderTyped
    <3>2. \A s : InPlace(s)' <=> InPlace(s)
      BY <2>1 DEF InPlace, PagesOf
    <3> QED BY <2>1, <3>1, <3>2 DEF Tidy, SegmentsIn
  <2> QED BY <2>1, <2>2, <2>3, SameTidy
<1>9. CASE PageFault \/ Exit \/ Freed \/ Prompt
  <2>1. /\ UNCHANGED <<map, kernel, used, pde, pte, holds, spoiled>>
        /\ pc # "regions" /\ pc' # "regions"
        /\ pc' \in {"halted", "free", "freed", "shell"}
    BY <1>9 DEF PageFault, Exit, Freed, Prompt, frames, space
  <2>2. SegmentsIn'
    BY <2>1 DEF SegmentsIn
  <2>3. Recorded'
    <3>1. CASE PageFault
      BY <3>1 DEF PageFault, Recorded
    <3>2. CASE Exit
      BY <3>2 DEF Exit, space, Tidy, Recorded, FirstLeft
    <3>3. CASE Freed
      <4>1. page \in Nat /\ Len(mapped_pages) \in Nat /\ page > Len(mapped_pages)
        BY <3>3 DEF Freed, IInv, LoaderTyped
      <4>2. page .. Len(mapped_pages) = {}
        BY <4>1
      <4> QED BY <3>3, <4>2 DEF Freed, space, Tidy, Recorded, FirstLeft
    <3>4. CASE Prompt
      BY <3>4 DEF Prompt, space, Tidy, Recorded
    <3> QED BY <1>9, <3>1, <3>2, <3>3, <3>4
  <2> QED BY <2>1, <2>2, <2>3, SameTidy
<1>10. CASE FreePage
  BY <1>10, FreeTidy
<1>11. CASE UNCHANGED vars
  <2>1. UNCHANGED <<map, kernel, used, pde, pte, holds, pc, file, seg, page,
                    mapped_pages, spoiled>>
    BY <1>11 DEF vars, frames, space, loader
  <2>2. Owned' = Owned /\ Cleared' = Cleared
    BY <2>1 DEF Owned, Cleared
  <2>3. \A s : InPlace(s)' <=> InPlace(s)
    BY <2>1 DEF InPlace, PagesOf
  <2>4. TablesFirst' /\ Accounted'
    BY <1>0, <2>1, <2>2 DEF Tidy, TablesFirst, Accounted
  <2>5. Recorded'
    BY <2>1 DEF Tidy, Recorded, FirstLeft
  <2>6. SegmentsIn'
    BY <2>1, <2>3 DEF Tidy, SegmentsIn
  <2> QED BY <2>4, <2>5, <2>6 DEF Tidy
<1> QED BY <1>1, <1>2, <1>3, <1>4, <1>5, <1>6, <1>7, <1>8, <1>9, <1>10, <1>11 DEF Next

LEMMA TidyInvariance == Spec => [](IInv /\ Given /\ Tidy)
<1>1. Init => IInv /\ Given /\ Tidy
  BY InitInv, GivenInit, TidyInit
<1>2. IInv /\ Given /\ Tidy /\ [Next]_vars => IInv' /\ Given' /\ Tidy'
  BY NextInv, GivenNext, TidyNext
<1> QED BY <1>1, <1>2, PTL DEF Spec

(* While every load succeeded in full, a program's frames are all back when *)
(* it is gone (process_free), and every bit that is still set is one that   *)
(* the map withholds, the kernel's or a page table's.                       *)
THEOREM EverythingComesBack == Spec => []AllReturned
<1>1. IInv /\ Given /\ Tidy => AllReturned
  <2> SUFFICES ASSUME Tidy, pc = "shell", ~spoiled PROVE AllReturned
    BY DEF AllReturned
  <2>1. \A p \in Pages : pte[p] = None
    BY DEF Tidy, Recorded
  <2>2. Owned = {pde[t] : t \in Directory} \ {None}
    BY <2>1 DEF Owned
  <2> QED BY <2>1, <2>2 DEF Tidy, Accounted, AllReturned
<1> QED BY <1>1, TidyInvariance, PTL

(* A program that elf_load and process_create loaded without a failure has  *)
(* every page it will touch, and in each the bytes of every segment that    *)
(* lies there: no page's frame was cleared again or handed to another.      *)
THEOREM LoadedIsSound == Spec => []SoundIfUnspoiled
<1>1. IInv /\ Given /\ Tidy => SoundIfUnspoiled
  <2> SUFFICES ASSUME IInv, Tidy, pc = "user", ~spoiled PROVE SoundIfUnspoiled
    BY DEF SoundIfUnspoiled
  <2>1. \A s \in 1 .. Len(file) : InPlace(s) /\ PagesOf(s) \subseteq Pages
    BY FileTyped DEF Tidy, SegmentsIn, IInv
  <2>2. \A i \in 1 .. Len(StackPages) :
          pte[StackPages[i]] # None /\ StackPages[i] \in Pages
    BY StackAssumption DEF Tidy, SegmentsIn
  <2>3. ASSUME NEW p \in UserPages PROVE p \in Pages /\ pte[p] # None
    <3>1. CASE \E s \in 1 .. Len(file) : p \in PagesOf(s)
      BY <2>1, <3>1 DEF InPlace
    <3>2. CASE \E i \in 1 .. Len(StackPages) : p = StackPages[i]
      BY <2>2, <3>2
    <3> QED BY <3>1, <3>2 DEF UserPages
  <2>4. \A p \in UserPages : Mapped(p)
    BY <2>3 DEF Mapped, Tidy, TablesFirst
  <2> QED BY <2>1, <2>4 DEF SoundIfUnspoiled, Intact, InPlace
<1> QED BY <1>1, TidyInvariance, PTL
=============================================================================
