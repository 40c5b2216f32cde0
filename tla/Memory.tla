------------------------------- MODULE Memory -------------------------------
(* Physical frames, the page tables, and the programs that come and go over *)
(* them: pmm.c, vmm.c, elf_load, process_create and process_free.  There is *)
(* one address space and frames are handed out by a bitmap searched a word  *)
(* at a time.  kmain builds the bitmap from the boot loader's memory map and *)
(* takes its own frames from it.  What makes it hard is not concurrency but *)
(* the failures half way through a load, and what they leave mapped for the *)
(* next program.                                                            *)
EXTENDS Naturals, Sequences, FiniteSets

CONSTANTS
  Blocks,        \* _mmngr_max_blocks
  WordBits,      \* bits in a word of the bitmap (32)
  BlockSize,     \* units in a block (4096 bytes)
  Maps,          \* memory maps: what of memory is available, entry by entry
  KernelBlocks,  \* blocks of the first 4 MB, the kernel's
  HeapPages,     \* pages of the kernel heap
  Pages,         \* pages of the user address space
  Table,         \* the page-directory index of each
  StackPages,    \* the pages of the user stack, as process_create maps them
  Programs,      \* files: the pages of each PT_LOAD segment, in order
  MaxPages,      \* PROCESS_MAX_PAGES
  MaxRuns        \* bound: exec commands in a behaviour

ASSUME BlocksAssumption == Blocks \in Nat /\ WordBits \in Nat \ {0}
(* What is available lies within the memory that mem_upper counts: pmm.c    *)
(* does not compare it with _mmngr_max_blocks.  memset sets whole bytes of  *)
(* the bitmap, so mem_upper must make a whole number of them.               *)
ASSUME MapsAssumption ==
  /\ BlockSize \in Nat \ {0}
  /\ Maps \subseteq Seq([available : BOOLEAN, base : Nat, len : Nat])
  /\ \A m \in Maps : \A i \in 1 .. Len(m) :
       m[i].available =>
         m[i].base \div BlockSize + m[i].len \div BlockSize <= Blocks
ASSUME WholeBytes == Blocks % 8 = 0
ASSUME KernelAssumption == KernelBlocks \in 0 .. Blocks /\ HeapPages \in Nat
ASSUME StackAssumption == StackPages \in Seq(Pages)
ASSUME ProgramsAssumption == \A p \in Programs : p \in Seq(Seq(Pages))
ASSUME LimitsAssumption == MaxPages \in Nat /\ MaxRuns \in Nat

VARIABLES
  map,           \* the memory map of this boot
  kernel,        \* history: blocks that kmain has taken for the kernel
  used,          \* the bits of the bitmap that are set
  used_blocks,   \* _mmngr_used_blocks
  pde,           \* the frame of each page table, or None
  pte,           \* the frame of each page, or None
  holds,         \* the segments of the program copied into each frame
  pc,            \* what cmd_exec does next
  file,          \* the program being loaded or run
  seg, page,     \* where elf_load or the stack loop is
  mapped_pages,  \* of the process_t
  runs,
  spoiled        \* history: a load has failed half-way, mapped a page twice,
                 \* found no page table or more than MaxPages pages

frames == <<map, kernel, used, used_blocks>>
space == <<pde, pte, holds>>
loader == <<file, seg, page, mapped_pages>>
vars == <<frames, space, pc, loader, runs, spoiled>>

Frames == 0 .. Blocks - 1
Directory == {Table[p] : p \in Pages}
None == Blocks          \* no frame: not a number of a block

Init ==
  /\ map \in Maps /\ kernel = {}
  /\ used = Frames /\ used_blocks = Blocks
  /\ pde = [t \in Directory |-> None] /\ pte = [p \in Pages |-> None]
  /\ holds = [f \in Frames |-> {}]
  /\ pc = "regions" /\ file = <<>> /\ seg = 1 /\ page = 1 /\ mapped_pages = <<>>
  /\ runs = 0 /\ spoiled = FALSE

-----------------------------------------------------------------------------
(* mmap_first_free looks at whole words only.                               *)
Searched == {f \in Frames : f \div WordBits < Blocks \div WordBits}
Available(bits) == Searched \ bits
mmap_first_free(bits) ==
  {f \in Available(bits) : \A g \in Available(bits) : f <= g}

(* pmmngr_alloc_block fails on the count or on the search.                  *)
OutOfMemory(bits, count) == Blocks - count = 0 \/ Available(bits) = {}

-----------------------------------------------------------------------------
(* kmain: pmmngr_init has marked all of memory used; every available entry  *)
(* is marked free block by block, and counted only if it was used.          *)

(* Mutant: a block that is begun is taken whole.                            *)
BlocksOf_RoundedUp(e) == (e.len + BlockSize - 1) \div BlockSize

BlocksOf(e) == e.len \div BlockSize

pmmngr_init_region ==
  /\ pc = "regions" /\ seg <= Len(map)
  /\ \/ /\ map[seg].available /\ page <= BlocksOf(map[seg])
        /\ LET bit == map[seg].base \div BlockSize + page - 1
           IN /\ used' = used \ {bit}
              /\ used_blocks' = IF bit \in used THEN used_blocks - 1 ELSE used_blocks
        /\ page' = page + 1 /\ UNCHANGED seg
     \/ /\ map[seg].available => page > BlocksOf(map[seg])
        /\ seg' = seg + 1 /\ page' = 1
        /\ UNCHANGED <<used, used_blocks>>
  /\ UNCHANGED <<map, kernel, space, pc, file, mapped_pages, runs, spoiled>>

(* The first 4 MB are the kernel's, whatever the map says.                  *)
pmmngr_deinit_region ==
  /\ pc = "regions" /\ seg > Len(map)
  /\ \/ /\ page <= KernelBlocks
        /\ used' = used \cup {page - 1} /\ kernel' = kernel \cup {page - 1}
        /\ used_blocks' = IF page - 1 \in used THEN used_blocks ELSE used_blocks + 1
        /\ page' = page + 1 /\ UNCHANGED pc
     \/ /\ page > KernelBlocks
        /\ pc' = "paging" /\ page' = 1
        /\ UNCHANGED <<kernel, used, used_blocks>>
  /\ UNCHANGED <<map, space, file, seg, mapped_pages, runs, spoiled>>

TakeFrame ==
  \E f \in mmap_first_free(used) :
    /\ used' = used \cup {f} /\ used_blocks' = used_blocks + 1
    /\ kernel' = kernel \cup {f}

(* A page directory and the page table that maps those 4 MB; without them   *)
(* nothing runs.                                                            *)
vmm_init ==
  /\ pc = "paging"
  /\ \/ /\ ~OutOfMemory(used, used_blocks)
        /\ TakeFrame
        /\ IF page = 1 THEN page' = 2 /\ UNCHANGED pc ELSE page' = 1 /\ pc' = "heap"
     \/ /\ OutOfMemory(used, used_blocks)
        /\ pc' = "halted"
        /\ UNCHANGED <<kernel, used, used_blocks, page>>
  /\ UNCHANGED <<map, space, file, seg, mapped_pages, runs, spoiled>>

(* The heap's pages, through that table; one that cannot be had stays       *)
(* mapped to the block of the kernel that is there.                         *)
kheap_init ==
  /\ pc = "heap"
  /\ \/ /\ page <= HeapPages /\ page' = page + 1
        /\ \/ ~OutOfMemory(used, used_blocks) /\ TakeFrame
           \/ /\ OutOfMemory(used, used_blocks)
              /\ UNCHANGED <<kernel, used, used_blocks>>
        /\ UNCHANGED <<pc, seg>>
     \/ /\ page > HeapPages
        /\ pc' = "shell" /\ seg' = 1 /\ page' = 1
        /\ UNCHANGED <<kernel, used, used_blocks>>
  /\ UNCHANGED <<map, space, file, mapped_pages, runs, spoiled>>

kmain == pmmngr_init_region \/ pmmngr_deinit_region \/ vmm_init \/ kheap_init

-----------------------------------------------------------------------------
Mapped(p) == pde[Table[p]] # None /\ pte[p] # None

(* The frame f is mapped through the page table that is there,              *)
MapPage(p, f) ==
  /\ pde[Table[p]] # None
  /\ used' = used \cup {f} /\ used_blocks' = used_blocks + 1
  /\ pte' = [pte EXCEPT ![p] = f]
  /\ holds' = [holds EXCEPT ![f] = {}]
  /\ UNCHANGED <<map, kernel, pde>>

(* Mutant: whether there is a page table is not looked at.                  *)
MapInNewTable_Always(p, f) ==
  \E t \in mmap_first_free(used \cup {f}) :
    /\ used' = used \cup {f, t} /\ used_blocks' = used_blocks + 2
    /\ pde' = [pde EXCEPT ![Table[p]] = t]
    /\ pte' = [q \in Pages |-> IF q = p THEN f
                               ELSE IF Table[q] = Table[p] THEN None ELSE pte[q]]
    /\ holds' = [holds EXCEPT ![f] = {}]
    /\ UNCHANGED <<map, kernel>>

(* or through one made for it, cleared first,                               *)
MapInNewTable(p, f) ==
  /\ pde[Table[p]] = None
  /\ ~OutOfMemory(used \cup {f}, used_blocks + 1)
  /\ \E t \in mmap_first_free(used \cup {f}) :
       /\ used' = used \cup {f, t} /\ used_blocks' = used_blocks + 2
       /\ pde' = [pde EXCEPT ![Table[p]] = t]
       /\ pte' = [q \in Pages |->
                    IF q = p THEN f
                    ELSE IF Table[q] = Table[p] THEN None ELSE pte[q]]
       /\ holds' = [holds EXCEPT ![f] = {}]
       /\ UNCHANGED <<map, kernel>>

(* or, with no frame left for the table, not at all: it is used, mapped     *)
(* nowhere, and vmm_alloc_page returns as if nothing had happened.          *)
MapNothing(p, f) ==
  /\ pde[Table[p]] = None
  /\ OutOfMemory(used \cup {f}, used_blocks + 1)
  /\ used' = used \cup {f} /\ used_blocks' = used_blocks + 1
  /\ UNCHANGED <<map, kernel, space>>

vmm_alloc_page(p) ==
  \E f \in mmap_first_free(used) :
    MapPage(p, f) \/ MapInNewTable(p, f) \/ MapNothing(p, f)

(* Mutant: the entry is not cleared.                                        *)
vmm_unmap_page_EntryKept(p) ==
  \/ /\ Mapped(p)
     /\ used' = used \ {pte[p]} /\ used_blocks' = used_blocks - 1
     /\ UNCHANGED <<map, kernel, space>>
  \/ ~Mapped(p) /\ UNCHANGED <<frames, space>>

(* Mutant: whether the page is mapped is not looked at.                     *)
vmm_unmap_page_Unchecked(p) ==
  /\ used' = used \ {pte[p]} /\ used_blocks' = used_blocks - 1
  /\ pte' = [pte EXCEPT ![p] = None]
  /\ UNCHANGED <<map, kernel, pde, holds>>

(* vmm_unmap_page frees the frame with the page; page tables stay.          *)
vmm_unmap_page(p) ==
  \/ /\ Mapped(p)
     /\ used' = used \ {pte[p]} /\ used_blocks' = used_blocks - 1
     /\ pte' = [pte EXCEPT ![p] = None]
     /\ UNCHANGED <<map, kernel, pde, holds>>
  \/ ~Mapped(p) /\ UNCHANGED <<frames, space>>

Record(p) ==
  mapped_pages' = IF Len(mapped_pages) < MaxPages THEN Append(mapped_pages, p)
                  ELSE mapped_pages

(* What no page of a clean load is: mapped already, past the end of         *)
(* mapped_pages, or without a page table in the end.                        *)
Untidy(p) == Mapped(p) \/ Len(mapped_pages) >= MaxPages
             \/ pde'[Table[p]] = None

-----------------------------------------------------------------------------
(* cmd_exec opens a file; its header and its kernel stack are in order.     *)
Exec ==
  /\ pc = "shell" /\ runs < MaxRuns
  /\ file' \in Programs
  /\ runs' = runs + 1
  /\ pc' = "load" /\ seg' = 1 /\ page' = 1 /\ mapped_pages' = <<>>
  /\ UNCHANGED <<frames, space, spoiled>>

(* The process_t is freed; what it had mapped is not unmapped.              *)
GiveUp ==
  /\ pc' = "shell"
  /\ file' = <<>> /\ seg' = 1 /\ page' = 1 /\ mapped_pages' = <<>>
  /\ spoiled' = (spoiled \/ mapped_pages # <<>>)
  /\ UNCHANGED <<frames, space, runs>>

AllocPage(p) ==
  /\ ~OutOfMemory(used, used_blocks)
  /\ vmm_alloc_page(p)
  /\ Record(p)
  /\ spoiled' = (spoiled \/ Untidy(p))
  /\ page' = page + 1
  /\ UNCHANGED <<pc, file, seg, runs>>

LoadPage ==
  /\ pc = "load" /\ seg <= Len(file) /\ page <= Len(file[seg])
  /\ \/ AllocPage(file[seg][page])
     \/ OutOfMemory(used, used_blocks) /\ GiveUp

(* The file's bytes and zeros, written to the pages through their virtual   *)
(* addresses: a page that is not mapped is a fault in the kernel.           *)
PagesOf(s) == {file[s][i] : i \in 1 .. Len(file[s])}

CopySegment ==
  /\ pc = "load" /\ seg <= Len(file) /\ page > Len(file[seg])
  /\ \/ /\ \A p \in PagesOf(seg) : Mapped(p)
        /\ holds' = [f \in Frames |->
             IF \E p \in PagesOf(seg) : pte[p] = f THEN holds[f] \cup {seg}
             ELSE holds[f]]
        /\ seg' = seg + 1 /\ page' = 1
        /\ UNCHANGED pc
     \/ /\ \E p \in PagesOf(seg) : ~Mapped(p)
        /\ pc' = "halted"
        /\ UNCHANGED <<holds, seg, page>>
  /\ UNCHANGED <<frames, pde, pte, file, mapped_pages, runs, spoiled>>

(* vfs_read comes short, at a program header or in a segment, or the entry  *)
(* point is 0.                                                              *)
BadFile ==
  /\ pc = "load"
  /\ page # 1 => page > Len(file[seg])
  /\ GiveUp

Loaded ==
  /\ pc = "load" /\ seg > Len(file)
  /\ pc' = "stack" /\ page' = 1
  /\ UNCHANGED <<frames, space, file, seg, mapped_pages, runs, spoiled>>

StackPage ==
  /\ pc = "stack" /\ page <= Len(StackPages)
  /\ \/ AllocPage(StackPages[page])
     \/ OutOfMemory(used, used_blocks) /\ GiveUp

Run ==
  /\ pc = "stack" /\ page > Len(StackPages)
  /\ pc' = "user"
  /\ UNCHANGED <<frames, space, loader, runs, spoiled>>

UserPages == (UNION {PagesOf(s) : s \in 1 .. Len(file)})
             \cup {StackPages[i] : i \in 1 .. Len(StackPages)}

(* A touch of a page that is not there stops the machine (isr_handler).     *)
PageFault ==
  /\ pc = "user" /\ \E p \in UserPages : ~Mapped(p)
  /\ pc' = "halted"
  /\ UNCHANGED <<frames, space, loader, runs, spoiled>>

(* Mutant: process_free begins with the second page.                        *)
Exit_SkipsFirst ==
  /\ pc = "user"
  /\ pc' = "free" /\ page' = 2
  /\ UNCHANGED <<frames, space, file, seg, mapped_pages, runs, spoiled>>

Exit ==
  /\ pc = "user"
  /\ pc' = "free" /\ page' = 1
  /\ UNCHANGED <<frames, space, file, seg, mapped_pages, runs, spoiled>>

(* process_free, a page at a time, and back to the shell.                   *)
FreePage ==
  /\ pc = "free" /\ page <= Len(mapped_pages)
  /\ vmm_unmap_page(mapped_pages[page])
  /\ page' = page + 1
  /\ UNCHANGED <<pc, file, seg, mapped_pages, runs, spoiled>>

Freed ==
  /\ pc = "free" /\ page > Len(mapped_pages)
  /\ pc' = "freed"
  /\ UNCHANGED <<frames, space, loader, runs, spoiled>>

Prompt ==
  /\ pc = "freed"
  /\ pc' = "shell"
  /\ file' = <<>> /\ seg' = 1 /\ page' = 1 /\ mapped_pages' = <<>>
  /\ UNCHANGED <<frames, space, runs, spoiled>>

Next == \/ kmain
        \/ Exec \/ LoadPage \/ CopySegment \/ BadFile \/ Loaded \/ StackPage
        \/ Run \/ PageFault \/ Exit \/ FreePage \/ Freed \/ Prompt

Spec == Init /\ [][Next]_vars

-----------------------------------------------------------------------------
TypeOK ==
  /\ used \subseteq Frames /\ used_blocks \in 0 .. Blocks
  /\ pde \in [Directory -> Frames \cup {None}]
  /\ pte \in [Pages -> Frames \cup {None}]
  /\ holds \in [Frames -> SUBSET Nat]
  /\ kernel \subseteq used
  /\ pc \in {"regions", "paging", "heap", "shell", "load", "stack", "user", "free", "freed",
             "halted"}
  /\ file \in Programs \cup {<<>>} /\ seg \in Nat /\ page \in Nat
  /\ mapped_pages \in Seq(Pages) /\ Len(mapped_pages) <= MaxPages
  /\ runs \in 0 .. MaxRuns /\ spoiled \in BOOLEAN

(* A frame serves one page or one page table, and is marked used while it   *)
(* does, whatever failed before: no program is given a frame that another   *)
(* mapping still reaches.                                                   *)
FramesOwnedOnce ==
  /\ \A p, q \in Pages : pte[p] # None /\ pte[p] = pte[q] => p = q
  /\ \A t, u \in Directory : pde[t] # None /\ pde[t] = pde[u] => t = u
  /\ \A p \in Pages, t \in Directory : pte[p] # None => pte[p] # pde[t]
  /\ \A p \in Pages : pte[p] # None => pte[p] \in used \ kernel
  /\ \A t \in Directory : pde[t] # None => pde[t] \in used \ kernel

(* pmm.c:12: the count is the number of bits set.                           *)
CountExact == used_blocks = Cardinality(used)

(* The frames that kmain takes for tables and heap, and those of programs   *)
(* and their tables, are memory to their last byte, as the boot loader      *)
(* describes it, its entries overlapping, out of order or ending in the     *)
(* middle of a block; but pmmngr_init_region rounds a base down, so what    *)
(* precedes an available entry in the block that it begins in is given out  *)
(* with it, whatever it is.                                                 *)
Begun(e) == e.base - (e.base % BlockSize)
IsMemory(f) ==
  \A unit \in f * BlockSize .. f * BlockSize + BlockSize - 1 :
    \E i \in DOMAIN map : /\ map[i].available
                          /\ unit \in Begun(map[i]) .. map[i].base + map[i].len - 1
GivenOut == (kernel \ (0 .. KernelBlocks - 1))
            \cup (({pte[p] : p \in Pages} \cup {pde[t] : t \in Directory}) \ {None})
OnlyMemoryIsGiven == \A f \in GivenOut : IsMemory(f)

(* While every load succeeded in full, the memory a program took is back    *)
(* when it is gone, down to the page tables made for it: only what the map  *)
(* does not offer, what the kernel took and those tables are in use.        *)
Offered == {f \in Frames : \E i \in DOMAIN map :
              /\ map[i].available
              /\ f \in map[i].base \div BlockSize ..
                       map[i].base \div BlockSize + BlocksOf(map[i]) - 1}
AllReturned ==
  pc = "shell" /\ ~spoiled =>
    /\ \A p \in Pages : pte[p] = None
    /\ used = (Frames \ Offered) \cup kernel
              \cup ({pde[t] : t \in Directory} \ {None})

(* A program that was loaded without any of that finds every page of its    *)
(* own, with what each of its segments has there.                           *)
Intact == \A s \in 1 .. Len(file) : \A p \in PagesOf(s) : s \in holds[pte[p]]
SoundIfUnspoiled ==
  pc = "user" /\ ~spoiled =>
    (\A p \in UserPages : Mapped(p)) /\ Intact

=============================================================================
