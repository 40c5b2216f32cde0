----------------------------- MODULE FAT16Proofs -----------------------------
(* Proofs about the volume, for every number of clusters, slots, names and  *)
(* commands and any number of crashes: what an entry or a link refers to is *)
(* its own, is marked as used, and if it is a directory it was written by   *)
(* this code; how far the copies of the table differ; how many clusters can *)
(* be lost; that entries stay, and other files than the open one with them; *)
(* that chains are as long as sizes say until the disk is full; that what   *)
(* echo wrote is what its file's chain leads to; and that those who read    *)
(* show what is there.                                                      *)
EXTENDS FAT16, FiniteSetTheorems, WellFoundedInduction, TLAPS

-----------------------------------------------------------------------------
(* Table entries, and the choices the code makes among them and the slots.  *)

LEMMA Numbers ==
  /\ EOC \notin Entries /\ Free \notin Entries /\ Entries \subseteq Nat
  /\ Free # EOC /\ Free = 0
BY EntriesAssumption DEF EOC, Free

(* A set of numbers has a least one: of the intervals up to its members one *)
(* contains no other.                                                       *)
LEMMA Smallest ==
  ASSUME NEW S, S \subseteq Nat, S # {}
  PROVE  \E n \in S : \A m \in S : n <= m
<1> DEFINE R == StrictSubsetOrdering(Nat)
           T == {0 .. n : n \in S}
<1>1. IsWellFoundedOn(R, FiniteSubsetsOf(Nat))
  BY FS_StrictSubsetOrderingWellFounded
<1>2. T \subseteq FiniteSubsetsOf(Nat) /\ T # {}
  <2>1. \A n \in S : IsFiniteSet(0 .. n) /\ 0 .. n \subseteq Nat
    BY FS_Interval
  <2> QED  BY <2>1 DEF FiniteSubsetsOf
<1>3. \E x \in T : \A y \in T : ~(<<y, x>> \in R)
  BY <1>1, <1>2, WFMin
<1>4. PICK n \in S : \A m \in S : ~(<<0 .. m, 0 .. n>> \in R)
  BY <1>3
<1>5. ASSUME NEW m \in S, m < n
      PROVE  FALSE
  <2>1. 0 .. m \subseteq 0 .. n /\ 0 .. m # 0 .. n
    <3>1. n \in 0 .. n /\ n \notin 0 .. m
      BY <1>5
    <3> QED  BY <1>5, <3>1
  <2>2. (0 .. m) \in SUBSET Nat /\ (0 .. n) \in SUBSET Nat
    OBVIOUS
  <2>3. <<0 .. m, 0 .. n>> \in R
    BY <2>1, <2>2 DEF StrictSubsetOrdering
  <2> QED  BY <1>4, <2>3
<1> QED  BY <1>5

LEMMA FirstFreeIs ==
  ASSUME FreeEntries # {}
  PROVE  FirstFree \in Entries /\ fat1[FirstFree] = Free
<1>1. FreeEntries \subseteq Nat
  BY Numbers DEF FreeEntries
<1>2. \E n \in FreeEntries : \A m \in FreeEntries : n <= m
  BY <1>1, Smallest
<1>3. FirstFree \in FreeEntries
  BY <1>2 DEF FirstFree
<1> QED  BY <1>3 DEF FreeEntries

LEMMA SlotsAre ==
  /\ \A d \in Directories : SlotsOf(d) \subseteq Slots
  /\ \A s \in Slots : \E d \in Directories : s \in SlotsOf(d)
  /\ \A d, s : s \in SlotsOf(d) => s = <<s[1], s[2]>> /\ s[1] = d /\ s[2] \in Nat \ {0}
  /\ NoSlot \notin Slots
<1>1. \A d \in Directories : SlotsOf(d) \subseteq Slots
  BY DEF Slots
<1>2. \A s \in Slots : \E d \in Directories : s \in SlotsOf(d)
  BY DEF Slots
<1>3. \A d, s : s \in SlotsOf(d) => s = <<s[1], s[2]>> /\ s[1] = d /\ s[2] \in Nat \ {0}
  BY SlotsAssumption DEF SlotsOf
<1>4. NoSlot \notin Slots
  BY <1>2, <1>3 DEF NoSlot
<1> QED  BY <1>1, <1>2, <1>3, <1>4

LEMMA FirstIs ==
  ASSUME NEW d, NEW S \in SUBSET SlotsOf(d), First(S) # NoSlot
  PROVE  First(S) \in S
<1> DEFINE N == {s[2] : s \in S}
<1>1. S # {}
  BY DEF First
<1>2. N \subseteq Nat /\ N # {}
  BY <1>1, SlotsAre
<1>3. \E n \in N : \A m \in N : n <= m
  BY <1>2, Smallest
<1>4. \E s \in S : \A t \in S : s[2] <= t[2]
  BY <1>3
<1> QED  BY <1>1, <1>4 DEF First

-----------------------------------------------------------------------------
(* Clusters that are referred to, and clusters that are marked but not yet. *)

Table == [Entries -> {Free, EOC} \cup Entries]
Catalogue == [Slots -> {Unused, Deleted} \cup Entry]

Linked(c) == \E d \in Entries : fat1[d] = c
Entered(c) == \E s \in Slots : IsEntry(s) /\ dirent[s].first = c
Loose(c) == c \in Entries /\ fat1[c] # Free /\ ~Linked(c) /\ ~Entered(c)
Live ==
  /\ \A c \in Entries : fat1[c] \in Entries => fat1[fat1[c]] # Free
  /\ \A s \in Slots :
       IsEntry(s) /\ dirent[s].first # 0 => fat1[dirent[s].first] # Free
Sound == /\ fat1 \in Table /\ dirent \in Catalogue
         /\ OwnedOnce /\ Live

LEMMA EntryIs ==
  ASSUME dirent \in Catalogue, NEW s \in Slots, IsEntry(s)
  PROVE  dirent[s] \in Entry
BY DEF Catalogue, IsEntry, Unused, Deleted

(* Marking a free entry.                                                    *)
LEMMA Marked ==
  ASSUME Sound, NEW c \in Entries, fat1[c] = Free,
         fat1' = [fat1 EXCEPT ![c] = EOC], dirent' = dirent
  PROVE  /\ Sound' /\ Loose(c)' /\ fat1'[c] = EOC
         /\ \A x : Loose(x) => Loose(x)' /\ x # c
<1>1. \A d \in Entries : fat1'[d] = IF d = c THEN EOC ELSE fat1[d]
  BY DEF Sound, Table
<1>2. fat1' \in Table
  BY DEF Sound, Table
<1>3. \A s \in Slots : IsEntry(s)' <=> IsEntry(s)
  BY DEF IsEntry
<1>4. \A d \in Entries : fat1[d] # c
  BY Numbers DEF Sound, Live
<1>5. \A s \in Slots : IsEntry(s) => dirent[s].first # c
  BY Numbers DEF Sound, Live
<1>6. OwnedOnce'
  BY <1>1, <1>3, Numbers DEF Sound, OwnedOnce
<1>7. Live'
  BY <1>1, <1>3, <1>4, Numbers, EntryIs DEF Sound, Live, Entry
<1>8. Loose(c)' /\ fat1'[c] = EOC
  BY <1>1, <1>3, <1>4, <1>5, Numbers DEF Loose, Linked, Entered
<1>9. ASSUME NEW x, Loose(x)
      PROVE  Loose(x)' /\ x # c
  BY <1>1, <1>3, <1>9, Numbers DEF Loose, Linked, Entered
<1> QED  BY <1>2, <1>6, <1>7, <1>8, <1>9 DEF Sound

(* Linking a marked cluster to the end of a chain.                          *)
LEMMA LinkedTo ==
  ASSUME Sound, NEW a \in Entries, NEW c, Loose(c), a # c,
         fat1[a] \notin Entries, fat1[a] # Free,
         fat1' = [fat1 EXCEPT ![a] = c], dirent' = dirent
  PROVE  /\ Sound' /\ fat1'[a] = c
         /\ \A x : Loose(x) /\ x # c => Loose(x)'
<1>1. \A d \in Entries : fat1'[d] = IF d = a THEN c ELSE fat1[d]
  BY DEF Sound, Table
<1>2. fat1' \in Table /\ c \in Entries
  BY DEF Sound, Table, Loose
<1>3. \A s \in Slots : IsEntry(s)' <=> IsEntry(s)
  BY DEF IsEntry
<1>4. \A d \in Entries : fat1[d] # c
  BY DEF Loose, Linked
<1>5. \A s \in Slots : IsEntry(s) => dirent[s].first # c
  BY DEF Loose, Entered
<1>6. OwnedOnce'
  BY <1>1, <1>3, <1>4, <1>5 DEF Sound, OwnedOnce
<1>7. Live'
  <2>1. \A d \in Entries : fat1'[d] \in Entries => fat1'[fat1'[d]] # Free
    BY <1>1, <1>2, Numbers DEF Sound, Live, Loose
  <2>2. \A s \in Slots : IsEntry(s) /\ dirent[s].first # 0 =>
          dirent[s].first \in Entries /\ fat1'[dirent[s].first] # Free
    BY <1>1, <1>2, Numbers, EntryIs DEF Sound, Live, Entry
  <2> QED  BY <1>3, <2>1, <2>2 DEF Live
<1>8. ASSUME NEW x, Loose(x), x # c
      PROVE  Loose(x)'
  BY <1>1, <1>2, <1>3, <1>8, Numbers DEF Loose, Linked, Entered
<1> QED  BY <1>1, <1>2, <1>6, <1>7, <1>8 DEF Sound

(* Freeing a marked cluster nothing refers to.                              *)
LEMMA Freed ==
  ASSUME Sound, NEW c, Loose(c), fat1[c] = EOC,
         fat1' = [fat1 EXCEPT ![c] = Free], dirent' = dirent
  PROVE  Sound' /\ \A x : Loose(x) /\ x # c => Loose(x)'
<1>1. c \in Entries /\ \A d \in Entries : fat1'[d] = IF d = c THEN Free ELSE fat1[d]
  BY DEF Sound, Table, Loose
<1>2. fat1' \in Table
  BY <1>1 DEF Sound, Table
<1>3. \A s \in Slots : IsEntry(s)' <=> IsEntry(s)
  BY DEF IsEntry
<1>4. OwnedOnce'
  BY <1>1, <1>3, Numbers DEF Sound, OwnedOnce
<1>5. Live'
  BY <1>1, <1>3, Numbers, EntryIs DEF Sound, Live, Loose, Linked, Entered, Entry
<1>6. ASSUME NEW x, Loose(x), x # c
      PROVE  Loose(x)'
  BY <1>1, <1>3, <1>6, Numbers DEF Loose, Linked, Entered
<1> QED  BY <1>2, <1>4, <1>5, <1>6 DEF Sound

(* Slots change: each stays what it is as far as clusters go, becomes       *)
(* unused, or refers to a cluster that nothing else refers to.              *)
LEMMA SlotWritten ==
  ASSUME Sound, NEW s \in Slots, NEW e \in Entry, UNCHANGED fat1,
         dirent' = [dirent EXCEPT ![s] = e],
         IsEntry(s) => dirent[s].first \in {0, e.first},
         e.first = 0 \/ Loose(e.first) \/ (IsEntry(s) /\ dirent[s].first = e.first)
  PROVE  Sound' /\ \A x : Loose(x) /\ x # e.first => Loose(x)'
<1>1. \A t \in Slots : dirent'[t] = IF t = s THEN e ELSE dirent[t]
  BY DEF Sound, Catalogue
<1>2. dirent' \in Catalogue
  BY DEF Sound, Catalogue
<1>3. \A t \in Slots : IsEntry(t)' <=> t = s \/ IsEntry(t)
  BY <1>1 DEF IsEntry, Entry
<1>4. e.first # 0 => /\ \A d \in Entries : fat1[d] # e.first
                     /\ \A t \in Slots : IsEntry(t) /\ dirent[t].first = e.first => t = s
                     /\ fat1[e.first] # Free
  BY EntryIs DEF Loose, Linked, Entered, Sound, OwnedOnce, Live, Entry
<1>5. OwnedOnce'
  BY <1>1, <1>3, <1>4, Numbers DEF Sound, OwnedOnce
<1>6. Live'
  BY <1>1, <1>3, <1>4 DEF Sound, Live
<1>7. ASSUME NEW x, Loose(x), x # e.first
      PROVE  Loose(x)'
  BY <1>1, <1>3, <1>7 DEF Loose, Linked, Entered
<1> QED  BY <1>2, <1>5, <1>6, <1>7 DEF Sound

LEMMA SlotsCleared ==
  ASSUME Sound, NEW a, UNCHANGED fat1,
         dirent' = [s \in Slots |-> IF s[1] = a THEN Unused ELSE dirent[s]]
  PROVE  Sound' /\ \A x : Loose(x) => Loose(x)'
<1>1. dirent' \in Catalogue
  BY DEF Sound, Catalogue
<1>2. \A s \in Slots : IsEntry(s)' => IsEntry(s) /\ dirent'[s] = dirent[s]
  BY DEF IsEntry, Unused
<1>3. OwnedOnce' /\ Live'
  BY <1>2 DEF Sound, OwnedOnce, Live
<1>4. ASSUME NEW x, Loose(x)
      PROVE  Loose(x)'
  BY <1>2, <1>4 DEF Loose, Linked, Entered
<1> QED  BY <1>1, <1>3, <1>4 DEF Sound

-----------------------------------------------------------------------------
(* The inductive invariant.  On the disk: chains and entries are sound, the *)
(* cluster of every directory was written by mkdir, entries stand only in   *)
(* directories.  In memory: which cluster a command has marked and nobody   *)
(* refers to yet, and that the file it writes is its own.                   *)

Making == {"zero", "dots", "entry", "free"}
Writing == {"write", "buffer", "walk", "chain", "update", "return"}
Looking == {"lookup", "create", "mkdir", "find", "zero", "dots", "entry"}
Labels == {"idle", "close"} \cup Looking \cup Making \cup Writing

DirCluster(c) == data[c] \in {Filled(Dots), Filled(Zero)}
Place(d) == d = Root \/ \E t \in Slots : dirent[t].kind = "dir" /\ dirent[t].first = d

DirsOK == \A s \in Slots : dirent[s].kind = "dir" =>
            dirent[s].first \in Entries /\ DirCluster(dirent[s].first)
BeyondOK == \A c \in Entries : c \notin DataClusters => data[c] = Filled(Zero)
PlacesOK == \A s \in Slots : IsEntry(s) => Place(s[1])
DiskOK == /\ Sound /\ fat2 \in Table /\ data \in [Entries -> Contents]
          /\ DirsOK /\ BeyondOK /\ PlacesOK

Commands == [op : {"touch", "mkdir", "echo"}, dir : Directories, name : Names,
             text : Texts \cup {Zero}, len : Nat, heap : {"enough", "nodes", "none"}]
Calls == [offset : Nat, size : Nat, done : Nat, nc : {0} \cup Entries, phase : {0, 1, 2}]
Nodes == [slot : Slots \cup {NoSlot}, inode : {0} \cup Entries, size : Nat]

MemoryTyped ==
  /\ pc \in Labels /\ node \in Nodes /\ call \in Calls
  /\ call.done <= call.size
  /\ at \in {0} \cup Entries /\ hop \in Nat
  /\ mirror \subseteq Entries \X ({Free, EOC} \cup Entries)
CommandOK == pc # "idle" => /\ cmd \in Commands
                            /\ cmd.op = "echo" => cmd.text \in Texts
                            /\ pc \in Looking => Place(cmd.dir)
CallOK == pc \in Writing => cmd.op = "echo" /\ call.phase \in {1, 2}
MakeOK == pc \in Making => Loose(at) /\ fat1[at] = EOC
ZeroedOK == pc \in {"dots", "entry"} => DirCluster(at)
OpenOK ==
  pc \in Writing =>
    /\ node.slot \in Slots /\ dirent[node.slot].kind = "file"
    /\ dirent[node.slot].first \in {0, node.inode}
    /\ node.inode # 0 /\ dirent[node.slot].first = 0 => Loose(node.inode)
    /\ pc \in {"buffer", "walk", "chain", "update"} => node.inode # 0
WalkOK == pc \in {"walk", "chain"} =>
            at \in Entries /\ fat1[at] # Free /\ (at = node.inode \/ Linked(at))
ChainOK == pc = "chain" => /\ fat1[at] \notin Entries /\ Loose(call.nc)
                           /\ call.nc # node.inode /\ call.nc # at
MemoryOK == /\ MemoryTyped /\ CommandOK /\ CallOK /\ MakeOK /\ ZeroedOK
            /\ OpenOK /\ WalkOK /\ ChainOK
IInv == DiskOK /\ MemoryOK

LEMMA InitInv == Init => IInv
<1> SUFFICES ASSUME Init PROVE IInv
  OBVIOUS
<1>1. \A s \in Slots : ~IsEntry(s) /\ dirent[s].kind # "dir"
  BY DEF Init, IsEntry, Unused, Deleted
<1>2. \A c \in Entries : fat1[c] = Free
  BY DEF Init
<1>3. fat1 \in Table /\ dirent \in Catalogue /\ fat2 \in Table
  BY DEF Init, Table, Catalogue
<1>4. data \in [Entries -> Contents] /\ BeyondOK
  BY DEF Init, Contents, Filled, BeyondOK
<1>5. OwnedOnce /\ Live
  BY <1>1, <1>2, Numbers DEF OwnedOnce, Live
<1>6. MemoryTyped
  BY DEF Init, MemoryTyped, Calls, NoNode, NoCall, Nodes, Labels
<1>7. MemoryOK
  BY <1>6 DEF Init, MemoryOK, CommandOK, CallOK, MakeOK, ZeroedOK, OpenOK, WalkOK, ChainOK,
     Making, Writing
<1> QED  BY <1>1, <1>3, <1>4, <1>5, <1>7 DEF IInv, DiskOK, Sound, DirsOK, PlacesOK

LEMMA IInvImplies == IInv => /\ TypeOK /\ OwnedOnce /\ LinksLive /\ DirectoriesInitialised
<1> SUFFICES ASSUME IInv
             PROVE  TypeOK /\ OwnedOnce /\ LinksLive /\ DirectoriesInitialised
  OBVIOUS
<1>1. TypeOK
  <2>1. /\ fat1 \in Table /\ fat2 \in Table /\ dirent \in Catalogue
        /\ data \in [Entries -> Contents] /\ MemoryTyped
    BY DEF IInv, DiskOK, Sound, MemoryOK
  <2>2. node.slot \in Slots \cup {NoSlot} /\ node.inode \in {0} \cup Entries /\ node.size \in Nat
    BY <2>1 DEF MemoryTyped, Nodes
  <2>3. call.done \in 0 .. call.size
    BY <2>1 DEF MemoryTyped, Calls
  <2> QED  BY <2>1, <2>2, <2>3
           DEF TypeOK, Table, Catalogue, MemoryTyped, Labels, Looking, Making, Writing
<1> QED  BY <1>1 DEF IInv, DiskOK, Sound, Live, LinksLive, DirsOK, DirCluster,
                     DirectoriesInitialised

-----------------------------------------------------------------------------
(* Steps that leave the disk alone, and the end of a command.               *)

LEMMA DiskSame ==
  ASSUME DiskOK, UNCHANGED disk
  PROVE  /\ DiskOK'
         /\ \A x : Loose(x)' <=> Loose(x)
         /\ \A x : Linked(x)' <=> Linked(x)
         /\ \A x : Place(x)' <=> Place(x)
         /\ \A x : DirCluster(x)' <=> DirCluster(x)
<1>1. /\ fat1' = fat1 /\ fat2' = fat2 /\ dirent' = dirent /\ data' = data
  BY DEF disk
<1>2. \A s : IsEntry(s)' <=> IsEntry(s)
  BY <1>1 DEF IsEntry
<1>3. /\ \A x : Loose(x)' <=> Loose(x)
      /\ \A x : Linked(x)' <=> Linked(x)
      /\ \A x : Place(x)' <=> Place(x)
      /\ \A x : DirCluster(x)' <=> DirCluster(x)
  BY <1>1, <1>2 DEF Loose, Linked, Entered, Place, DirCluster
<1>4. Sound'
  BY <1>1, <1>2 DEF DiskOK, Sound, OwnedOnce, Live
<1> QED  BY <1>1, <1>2, <1>3, <1>4 DEF DiskOK, DirsOK, BeyondOK, PlacesOK

LEMMA Returned ==
  ASSUME DiskOK', Return, mirror' \subseteq Entries \X ({Free, EOC} \cup Entries)
  PROVE  IInv'
<1>1. MemoryTyped'
  BY DEF Return, MemoryTyped, Calls, Labels, Nodes, NoNode, NoCall
<1>2. pc' = "idle"
  BY DEF Return
<1> QED  BY <1>1, <1>2 DEF IInv, MemoryOK, CommandOK, CallOK, MakeOK, ZeroedOK, OpenOK,
                           WalkOK, ChainOK, Making, Writing

LEMMA OpenDirectory ==
  ASSUME DiskOK, NEW d \in OpenDirectories
  PROVE  d \in Directories /\ Place(d)
<1> DEFINE P(x) == x \in Directories /\ Place(x)
<1>1. Root \in Directories /\ Place(Root)
  BY DEF Directories, Place
<1>2. ASSUME NEW D, \A x \in D : x \in Directories
      PROVE  \A x \in Subdirectories(D) : x \in Directories /\ Place(x)
  <2> SUFFICES ASSUME NEW x \in D, NEW n \in Names, fat16_vfs_finddir(x, n) # NoSlot,
                      dirent[fat16_vfs_finddir(x, n)].kind = "dir"
               PROVE  /\ dirent[fat16_vfs_finddir(x, n)].first \in Directories
                      /\ Place(dirent[fat16_vfs_finddir(x, n)].first)
    BY DEF Subdirectories
  <2>1. fat16_vfs_finddir(x, n) \in SlotsOf(x)
    BY FirstIs DEF fat16_vfs_finddir, Listed
  <2>2. fat16_vfs_finddir(x, n) \in Slots
    BY <1>2, <2>1, SlotsAre
  <2> QED  BY <2>2 DEF DiskOK, DirsOK, Place, Directories
<1>3. \A x \in Subdirectories({Root}) : x \in Directories /\ Place(x)
  BY <1>1, <1>2
<1>4. \A x \in Subdirectories(Subdirectories({Root})) : x \in Directories /\ Place(x)
  BY <1>2, <1>3
<1> QED  BY <1>1, <1>3, <1>4 DEF OpenDirectories

LEMMA IssueInv ==
  ASSUME IInv, NEW op \in DOMAIN Start, NEW d \in OpenDirectories, NEW n \in Names,
         NEW heap \in {"enough", "nodes", "none"}, Issue(op, d, n, heap)
  PROVE  IInv'
<1>1. /\ DiskOK' /\ Place(d)' /\ d \in Directories
  BY OpenDirectory, DiskSame DEF IInv, Issue
<1>2. op \in {"touch", "mkdir", "echo"} /\ Start[op] \in {"create", "mkdir", "lookup"}
  BY DEF Start
<1>3. cmd' \in Commands /\ cmd'.dir = d /\ (cmd'.op = "echo" => cmd'.text \in Texts)
  <2>1. CASE op # "echo"
    <3>1. cmd' = [op |-> op, dir |-> d, name |-> n, text |-> Zero, len |-> 0, heap |-> heap]
      BY <2>1 DEF Issue, NoCommand
    <3> QED  BY <1>1, <1>2, <2>1, <3>1 DEF Commands
  <2>2. CASE op = "echo"
    <3>1. PICK e \in Echoes : cmd' = [op |-> op, dir |-> d, name |-> n, text |-> e.text,
                                      len |-> e.len, heap |-> heap]
      BY <2>2 DEF Issue
    <3>2. e.text \in Texts /\ e.len \in Nat
      BY EchoesAssumption
    <3> QED  BY <1>1, <1>2, <3>1, <3>2 DEF Commands
  <2> QED  BY <2>1, <2>2
<1>4. MemoryTyped' /\ pc' \in {"create", "mkdir", "lookup"}
  BY <1>2 DEF IInv, MemoryOK, MemoryTyped, Issue, Labels, Looking
<1> QED  BY <1>1, <1>3, <1>4 DEF IInv, MemoryOK, CommandOK, CallOK, MakeOK, ZeroedOK, OpenOK,
                                 WalkOK, ChainOK, Making, Writing, Looking

-----------------------------------------------------------------------------
(* What the writes of a command do to the disk.                             *)

LEMMA TableChanged ==
  ASSUME DiskOK, Sound', UNCHANGED <<fat2, dirent, data>>
  PROVE  /\ DiskOK'
         /\ \A x : Place(x)' <=> Place(x)
         /\ \A x : DirCluster(x)' <=> DirCluster(x)
<1>1. \A s : IsEntry(s)' <=> IsEntry(s)
  BY DEF IsEntry
<1>2. /\ \A x : Place(x)' <=> Place(x)
      /\ \A x : DirCluster(x)' <=> DirCluster(x)
  BY DEF Place, DirCluster
<1> QED  BY <1>1, <1>2 DEF DiskOK, DirsOK, BeyondOK, PlacesOK

(* The cluster of a directory only gets what mkdir writes.                  *)
LEMMA ClusterWritten ==
  ASSUME DiskOK, NEW c \in Entries, NEW contents \in Contents,
         WriteCluster(c, contents), UNCHANGED <<fat1, fat2, dirent>>,
         \/ contents \in {Filled(Dots), Filled(Zero)}
         \/ \A s \in Slots : dirent[s].kind = "dir" => dirent[s].first # c
  PROVE  /\ DiskOK'
         /\ \A x : Loose(x)' <=> Loose(x)
         /\ \A x : Linked(x)' <=> Linked(x)
         /\ \A x : Place(x)' <=> Place(x)
         /\ contents \in {Filled(Dots), Filled(Zero)} => DirCluster(c)'
<1>1. \A s : IsEntry(s)' <=> IsEntry(s)
  BY DEF IsEntry
<1>2. /\ \A x : Loose(x)' <=> Loose(x)
      /\ \A x : Linked(x)' <=> Linked(x)
      /\ \A x : Place(x)' <=> Place(x)
  BY <1>1 DEF Loose, Linked, Entered, Place
<1>3. Sound'
  BY <1>1 DEF DiskOK, Sound, OwnedOnce, Live
<1>4. /\ data' \in [Entries -> Contents]
      /\ \A d \in Entries : data'[d] = IF d = c /\ c \in DataClusters THEN contents
                                       ELSE data[d]
  BY DEF WriteCluster, DiskOK
<1>5. BeyondOK'
  BY <1>4 DEF BeyondOK, DiskOK
<1>6. contents \in {Filled(Dots), Filled(Zero)} => DirCluster(c)'
  BY <1>4, <1>5 DEF BeyondOK, DirCluster, Filled, Units
<1>7. DirsOK'
  BY <1>4, <1>6 DEF DirsOK, DirCluster, DiskOK, Filled, Units
<1>8. PlacesOK'
  BY <1>1, <1>2 DEF PlacesOK, DiskOK
<1> QED  BY <1>2, <1>3, <1>4, <1>5, <1>6, <1>7, <1>8 DEF DiskOK

LEMMA FreeSlotIs ==
  ASSUME NEW d \in Directories, FreeSlot(d) # NoSlot
  PROVE  FreeSlot(d) \in Slots /\ FreeSlot(d)[1] = d /\ ~IsEntry(FreeSlot(d))
<1> DEFINE S == {s \in SlotsOf(d) : ~IsEntry(s)}
<1>1. FreeSlot(d) = First(S)
  BY DEF FreeSlot
<1> HIDE DEF S
<1>2. S \in SUBSET SlotsOf(d)
  BY DEF S
<1>3. First(S) \in S
  BY <1>1, <1>2, FirstIs
<1> QED  BY <1>1, <1>3, SlotsAre DEF S

LEMMA EntryWritten ==
  ASSUME DiskOK, cmd \in Commands, Place(cmd.dir), CanWriteEntry,
         NEW kind \in {"file", "dir"}, NEW c,
         kind = "file" => c = 0,
         kind = "dir" => Loose(c) /\ DirCluster(c),
         fat16_write_dir_entry(kind, c), UNCHANGED <<fat1, fat2, data>>
  PROVE  DiskOK' /\ \A x : Place(x) => Place(x)'
<1> DEFINE e == [kind |-> kind, name |-> Stored[cmd.name], first |-> c, size |-> 0]
           f == FreeSlot(cmd.dir)
<1>1. CASE cmd.dir \notin DataClusters \cup {Root}
  BY <1>1, DiskSame DEF fat16_write_dir_entry, disk
<1>2. CASE cmd.dir \in DataClusters \cup {Root}
  <2>1. f \in Slots /\ f[1] = cmd.dir /\ ~IsEntry(f)
    BY FreeSlotIs DEF CanWriteEntry, Commands
  <2>2. e \in Entry /\ (e.first = 0 \/ Loose(e.first))
    BY NamesAssumption DEF CanWriteEntry, Commands, Entry, Loose
  <2>3. dirent' = [dirent EXCEPT ![f] = e]
    BY <1>2 DEF fat16_write_dir_entry
  <2> HIDE DEF e, f
  <2>4. Sound'
    BY <2>1, <2>2, <2>3, SlotWritten DEF DiskOK
  <2>5. \A t \in Slots : dirent'[t] = IF t = f THEN e ELSE dirent[t]
    BY <2>3 DEF DiskOK, Sound, Catalogue
  <2>6. \A x : Place(x) => Place(x)'
    BY <2>1, <2>5 DEF Place, IsEntry
  <2>7. DirsOK'
    <3>1. SUFFICES ASSUME NEW s \in Slots, dirent'[s].kind = "dir"
                   PROVE  /\ dirent'[s].first \in Entries
                          /\ data'[dirent'[s].first] \in {Filled(Dots), Filled(Zero)}
      BY DEF DirsOK, DirCluster, Filled, Units
    <3>2. CASE s = f
      BY <2>5, <3>1, <3>2 DEF e, Loose, DirCluster
    <3>3. CASE s # f
      BY <2>5, <3>1, <3>3 DEF DirCluster, DiskOK, DirsOK
    <3> QED  BY <3>2, <3>3
  <2>8. PlacesOK'
    <3>1. \A s \in Slots : IsEntry(s)' => s = f \/ IsEntry(s)
      BY <2>5 DEF IsEntry
    <3> QED  BY <2>1, <2>6, <3>1 DEF PlacesOK, DiskOK
  <2> QED  BY <2>4, <2>6, <2>7, <2>8 DEF DiskOK, BeyondOK
<1> QED  BY <1>1, <1>2

(* The sectors of a marked cluster hold nobody's entries.                   *)
LEMMA ClusterCleared ==
  ASSUME DiskOK, NEW a, Loose(a), WriteCluster(a, Filled(Zero)),
         dirent' = [s \in Slots |-> IF s[1] = a THEN Unused ELSE dirent[s]],
         UNCHANGED <<fat1, fat2>>
  PROVE  /\ DiskOK' /\ DirCluster(a)'
         /\ \A x : Loose(x) => Loose(x)'
         /\ \A x : Place(x) => Place(x)'
<1>1. \A s \in Slots : IsEntry(s) => s[1] # a
  BY Numbers DEF DiskOK, PlacesOK, Place, Loose, Entered, IsEntry, Root, Free
<1>2. \A s \in Slots : IsEntry(s) => dirent'[s] = dirent[s] /\ IsEntry(s)'
  BY <1>1 DEF IsEntry
<1>3. \A s \in Slots : IsEntry(s)' => IsEntry(s) /\ dirent'[s] = dirent[s]
  BY DEF IsEntry, Unused
<1>4. \A x : Place(x) => Place(x)'
  BY <1>2 DEF Place, IsEntry
<1>5. Sound' /\ \A x : Loose(x) => Loose(x)'
  BY SlotsCleared DEF DiskOK
<1>6. PlacesOK'
  BY <1>3, <1>4 DEF PlacesOK, DiskOK
<1>7. Filled(Zero) \in Contents
  BY DEF Filled, Contents
<1>8. /\ data' \in [Entries -> Contents] /\ a \in Entries
      /\ \A d \in Entries : data'[d] = IF d = a /\ a \in DataClusters THEN Filled(Zero)
                                       ELSE data[d]
  BY <1>7 DEF WriteCluster, DiskOK, Loose
<1>9. BeyondOK' /\ DirCluster(a)'
  BY <1>8 DEF BeyondOK, DiskOK, DirCluster, Filled, Units
<1>10. DirsOK'
  BY <1>3, <1>8, <1>9 DEF DirsOK, DirCluster, DiskOK, IsEntry, Filled, Units
<1> QED  BY <1>4, <1>5, <1>6, <1>8, <1>9, <1>10 DEF DiskOK

-----------------------------------------------------------------------------
(* One lemma for each step of a command.                                    *)

LEMMA FoundIs ==
  ASSUME cmd \in Commands, Found # NoSlot
  PROVE  Found \in Slots /\ IsEntry(Found)
<1> DEFINE S == {s \in Listed(cmd.dir) : IsEntry(s) /\ dirent[s].name = cmd.name}
<1>1. Found = First(S) /\ cmd.dir \in Directories
  BY DEF Found, fat16_vfs_finddir, Commands
<1> HIDE DEF S
<1>2. S \in SUBSET SlotsOf(cmd.dir)
  BY DEF S, Listed
<1>3. First(S) \in S
  BY <1>1, <1>2, FirstIs
<1> QED  BY <1>1, <1>2, <1>3, SlotsAre DEF S

LEMMA OpenInv ==
  ASSUME IInv, mirror = {}, pc \in Looking, NEW s \in Slots, IsEntry(s), Open(s)
  PROVE  IInv'
<1>1. DiskOK' /\ dirent' = dirent
  BY DiskSame DEF IInv, Open, disk
<1>2. cmd' = cmd /\ cmd \in Commands
  BY DEF IInv, MemoryOK, CommandOK, Looking, Open
<1>3. /\ node' = NodeAt(s) /\ node' \in Nodes
      /\ dirent[s].kind = "file" => dirent[s].first = node'.inode
  <2>1. dirent[s] \in Entry
    BY EntryIs DEF IInv, DiskOK, Sound
  <2> QED  BY <2>1 DEF Open, NodeAt, Nodes, Entry
<1>4. mirror' = {} /\ at' = at /\ hop' = hop
  BY DEF Open
<1>5. CASE cmd.op = "echo" /\ dirent[s].kind = "file"
  <2>1. pc' = "write" /\ call' = FirstWrite
    BY <1>5 DEF Open
  <2>2. MemoryTyped' /\ call'.phase = 1
    BY <1>2, <1>3, <1>4, <2>1
       DEF IInv, MemoryOK, MemoryTyped, Calls, FirstWrite, Commands, Labels, Writing
  <2>3. OpenOK'
    <3>1. node'.slot = s
      BY <1>3 DEF NodeAt
    <3>2. /\ dirent'[node'.slot].kind = "file"
          /\ dirent'[node'.slot].first = node'.inode
      BY <1>1, <1>3, <1>5, <3>1
    <3> QED  BY <2>1, <3>1, <3>2 DEF OpenOK
  <2> QED  BY <1>1, <1>2, <1>5, <2>1, <2>2, <2>3
           DEF IInv, MemoryOK, CommandOK, CallOK, MakeOK, ZeroedOK, WalkOK, ChainOK,
               Looking, Making
<1>6. CASE ~(cmd.op = "echo" /\ dirent[s].kind = "file")
  <2>1. pc' = "close" /\ call' = call
    BY <1>6 DEF Open
  <2>2. MemoryTyped'
    BY <1>3, <1>4, <2>1 DEF IInv, MemoryOK, MemoryTyped, Labels
  <2> QED  BY <1>1, <1>2, <2>1, <2>2
           DEF IInv, MemoryOK, CommandOK, CallOK, MakeOK, ZeroedOK, OpenOK, WalkOK, ChainOK,
               Looking, Making, Writing
<1> QED  BY <1>5, <1>6

LEMMA LookupInv == IInv /\ Lookup => IInv'
<1> SUFFICES ASSUME IInv, Lookup PROVE IInv'
  OBVIOUS
<1>1. pc = "lookup" /\ mirror = {} /\ cmd \in Commands /\ Place(cmd.dir)
  BY DEF Lookup, At, IInv, MemoryOK, CommandOK, Looking
<1>2. CASE Found # NoSlot /\ Open(Found)
  BY <1>1, <1>2, FoundIs, OpenInv DEF Looking
<1>3. CASE pc' = "create" /\ UNCHANGED <<disk, memory, mirror, history>>
  <2>1. DiskOK' /\ Place(cmd.dir)' /\ cmd' = cmd
    BY <1>1, <1>3, DiskSame DEF IInv, memory
  <2> QED  BY <1>1, <1>3, <2>1
           DEF memory, IInv, MemoryOK, MemoryTyped, CommandOK, CallOK, MakeOK, ZeroedOK,
               OpenOK, WalkOK, ChainOK, Looking, Making, Writing, Labels
<1> QED  BY <1>2, <1>3 DEF Lookup

LEMMA CreateFileInv == IInv /\ CreateFile => IInv'
<1> SUFFICES ASSUME IInv, CreateFile PROVE IInv'
  OBVIOUS
<1>1. /\ pc = "create" /\ mirror = {} /\ mirror' = {}
      /\ cmd \in Commands /\ Place(cmd.dir)
  BY DEF CreateFile, At, IInv, MemoryOK, CommandOK, Looking
<1>2. CASE /\ CanWriteEntry /\ fat16_write_dir_entry("file", 0)
           /\ pc' = "find" /\ UNCHANGED memory
  <2>1. DiskOK' /\ (\A x : Place(x) => Place(x)') /\ cmd' = cmd
    BY <1>1, <1>2, EntryWritten DEF IInv, memory, CreateFile
  <2> QED  BY <1>1, <1>2, <2>1
           DEF memory, IInv, MemoryOK, MemoryTyped, CommandOK, CallOK, MakeOK, ZeroedOK,
               OpenOK, WalkOK, ChainOK, Looking, Making, Writing, Labels
<1>3. CASE Return /\ UNCHANGED dirent
  BY <1>1, <1>3, DiskSame, Returned DEF IInv, CreateFile, disk
<1> QED  BY <1>2, <1>3 DEF CreateFile

LEMMA FindInv == IInv /\ Find => IInv'
<1> SUFFICES ASSUME IInv, Find PROVE IInv'
  OBVIOUS
<1>1. pc = "find" /\ mirror = {} /\ cmd \in Commands
  BY DEF Find, At, IInv, MemoryOK, CommandOK
<1>2. CASE Found # NoSlot /\ Open(Found)
  BY <1>1, <1>2, FoundIs, OpenInv DEF Looking
<1>3. CASE Return /\ UNCHANGED <<disk, mirror, history>>
  BY <1>1, <1>3, DiskSame, Returned DEF IInv
<1> QED  BY <1>2, <1>3 DEF Find

LEMMA CloseInv == IInv /\ Close => IInv'
<1> SUFFICES ASSUME IInv, Close PROVE IInv'
  OBVIOUS
<1> QED  BY DiskSame, Returned DEF IInv, Close, At

LEMMA MkdirAllocInv == IInv /\ MkdirAlloc => IInv'
<1> SUFFICES ASSUME IInv, MkdirAlloc PROVE IInv'
  OBVIOUS
<1>1. /\ pc = "mkdir" /\ mirror = {} /\ cmd \in Commands /\ Place(cmd.dir)
      /\ UNCHANGED <<fat2, dirent, data>>
  BY DEF MkdirAlloc, At, IInv, MemoryOK, CommandOK, Looking
<1>2. CASE /\ fat_alloc_cluster /\ at' = FirstFree /\ pc' = "zero"
           /\ UNCHANGED <<full, cmd, node, call, hop>>
  <2>1. PICK c \in Entries : c = FirstFree /\ fat1[c] = Free
    BY <1>2, FirstFreeIs DEF fat_alloc_cluster
  <2>2. fat1' = [fat1 EXCEPT ![c] = EOC] /\ mirror' = {<<c, EOC>>} /\ at' = c
    BY <1>2, <2>1 DEF fat_alloc_cluster, fat_set_entry
  <2>3. Sound' /\ Loose(c)' /\ fat1'[c] = EOC
    BY <1>1, <2>1, <2>2, Marked DEF IInv, DiskOK
  <2>4. Loose(at)' /\ fat1'[at'] = EOC
    BY <2>2, <2>3 DEF Loose, Linked, Entered, IsEntry
  <2>5. DiskOK' /\ Place(cmd.dir)'
    BY <1>1, <1>2, <2>3, TableChanged DEF IInv
  <2>6. MemoryTyped'
    BY <1>2, <2>1, <2>2 DEF IInv, MemoryOK, MemoryTyped, Labels, Looking
  <2> QED  BY <1>1, <1>2, <2>4, <2>5, <2>6
           DEF IInv, MemoryOK, CommandOK, CallOK, MakeOK, ZeroedOK,
               OpenOK, WalkOK, ChainOK, Looking, Making, Writing
<1>3. CASE Return /\ UNCHANGED <<fat1, mirror>>
  BY <1>1, <1>3, DiskSame, Returned DEF IInv, disk
<1> QED  BY <1>2, <1>3 DEF MkdirAlloc

LEMMA MkdirZeroInv == IInv /\ MkdirZero => IInv'
<1> SUFFICES ASSUME IInv, MkdirZero PROVE IInv'
  OBVIOUS
<1>1. /\ pc = "zero" /\ Loose(at) /\ fat1[at] = EOC /\ Place(cmd.dir) /\ pc' = "dots"
      /\ UNCHANGED <<fat1, cmd, node, call, at, hop, mirror>>
  BY DEF MkdirZero, At, IInv, MemoryOK, CommandOK, MakeOK, Looking, Making, memory
<1>2. DiskOK' /\ DirCluster(at)' /\ Loose(at)' /\ Place(cmd.dir)'
  BY <1>1, ClusterCleared DEF MkdirZero, IInv
<1> QED  BY <1>1, <1>2
         DEF IInv, MemoryOK, MemoryTyped, CommandOK, CallOK, MakeOK, ZeroedOK,
             OpenOK, WalkOK, ChainOK, Looking, Making, Writing, Labels

LEMMA MkdirDotsInv == IInv /\ MkdirDots => IInv'
<1> SUFFICES ASSUME IInv, MkdirDots PROVE IInv'
  OBVIOUS
<1>1. /\ pc = "dots" /\ Loose(at) /\ fat1[at] = EOC /\ Place(cmd.dir) /\ pc' = "entry"
      /\ UNCHANGED <<fat1, fat2, dirent, cmd, node, call, at, hop, mirror>>
  BY DEF MkdirDots, At, IInv, MemoryOK, CommandOK, MakeOK, Looking, Making, memory
<1>2. Filled(Dots) \in Contents /\ at \in Entries
  BY <1>1 DEF Filled, Contents, Loose
<1>3. DiskOK' /\ DirCluster(at)' /\ Loose(at)' /\ Place(cmd.dir)'
  BY <1>1, <1>2, ClusterWritten DEF MkdirDots, IInv
<1> QED  BY <1>1, <1>3
         DEF IInv, MemoryOK, MemoryTyped, CommandOK, CallOK, MakeOK, ZeroedOK,
             OpenOK, WalkOK, ChainOK, Looking, Making, Writing, Labels

LEMMA MkdirEntryInv == IInv /\ MkdirEntry => IInv'
<1> SUFFICES ASSUME IInv, MkdirEntry PROVE IInv'
  OBVIOUS
<1>1. /\ pc = "entry" /\ Loose(at) /\ fat1[at] = EOC /\ DirCluster(at)
      /\ cmd \in Commands /\ Place(cmd.dir)
      /\ UNCHANGED <<fat1, fat2, data, cmd, node, call, at, hop, mirror>>
  BY DEF MkdirEntry, At, IInv, MemoryOK, CommandOK, MakeOK, ZeroedOK, Looking, Making, memory
<1>2. CASE CanWriteEntry /\ fat16_write_dir_entry("dir", at) /\ pc' = "find"
  <2>1. DiskOK' /\ \A x : Place(x) => Place(x)'
    BY <1>1, <1>2, EntryWritten DEF IInv
  <2> QED  BY <1>1, <1>2, <2>1
           DEF IInv, MemoryOK, MemoryTyped, CommandOK, CallOK, MakeOK, ZeroedOK,
               OpenOK, WalkOK, ChainOK, Looking, Making, Writing, Labels
<1>3. CASE pc' = "free" /\ UNCHANGED dirent
  <2>1. DiskOK' /\ Loose(at)'
    BY <1>1, <1>3, DiskSame DEF IInv, disk
  <2> QED  BY <1>1, <1>3, <2>1
           DEF IInv, MemoryOK, MemoryTyped, CommandOK, CallOK, MakeOK, ZeroedOK,
               OpenOK, WalkOK, ChainOK, Looking, Making, Writing, Labels
<1> QED  BY <1>2, <1>3 DEF MkdirEntry

LEMMA FreeChainInv == IInv /\ fat_free_chain => IInv'
<1> SUFFICES ASSUME IInv, fat_free_chain PROVE IInv'
  OBVIOUS
<1>1. Loose(at) /\ fat1[at] = EOC /\ UNCHANGED <<fat2, dirent, data>>
  BY DEF fat_free_chain, At, IInv, MemoryOK, MakeOK, Making
<1>2. Return
  BY <1>1, Numbers DEF fat_free_chain
<1>3. fat1' = [fat1 EXCEPT ![at] = Free] /\ mirror' = {<<at, Free>>} /\ at \in Entries
  BY <1>1 DEF fat_free_chain, fat_set_entry, Loose
<1>4. Sound'
  BY <1>1, <1>3, Freed DEF IInv, DiskOK
<1>5. DiskOK'
  BY <1>1, <1>4, TableChanged DEF IInv
<1> QED  BY <1>2, <1>3, <1>5, Returned

(* The first cluster of the open file is in use.                            *)
LEMMA HeadLive ==
  ASSUME IInv, pc \in Writing, node.inode # 0
  PROVE  node.inode \in Entries /\ fat1[node.inode] # Free
<1>1. node.inode \in Entries
  BY DEF IInv, MemoryOK, MemoryTyped, Nodes
<1>2. node.slot \in Slots /\ dirent[node.slot].kind = "file"
  BY DEF IInv, MemoryOK, OpenOK
<1>3. CASE dirent[node.slot].first = 0
  BY <1>3 DEF IInv, MemoryOK, OpenOK, Loose
<1>4. CASE dirent[node.slot].first = node.inode
  <2>1. IsEntry(node.slot) /\ dirent[node.slot].first # 0
    BY <1>2, <1>4 DEF IsEntry
  <2>2. fat1[dirent[node.slot].first] # Free
    BY <1>2, <2>1 DEF IInv, DiskOK, Sound, Live
  <2> QED  BY <1>1, <1>4, <2>2
<1> QED  BY <1>1, <1>3, <1>4 DEF IInv, MemoryOK, OpenOK

(* The clusters of the open file are no directory's.                        *)
LEMMA NoDirectory ==
  ASSUME IInv, pc \in Writing, NEW c \in Entries, c = node.inode \/ Linked(c)
  PROVE  \A s \in Slots : dirent[s].kind = "dir" => dirent[s].first # c
<1>1. node.slot \in Slots /\ dirent[node.slot].kind = "file"
  BY DEF IInv, MemoryOK, OpenOK
<1>2. CASE Linked(c)
  BY <1>2 DEF Linked, IInv, DiskOK, Sound, OwnedOnce, IsEntry
<1>3. CASE c = node.inode /\ dirent[node.slot].first = node.inode
  BY <1>1, <1>3, Numbers DEF IInv, DiskOK, Sound, OwnedOnce, IsEntry
<1>4. CASE c = node.inode /\ Loose(c)
  BY <1>4 DEF Loose, Entered, IsEntry
<1> QED  BY <1>2, <1>3, <1>4, Numbers DEF IInv, MemoryOK, OpenOK

LEMMA WriteAllocInv == IInv /\ WriteAlloc => IInv'
<1> SUFFICES ASSUME IInv, WriteAlloc PROVE IInv'
  OBVIOUS
<1>1. /\ pc = "write" /\ mirror = {} /\ cmd \in Commands
      /\ UNCHANGED <<fat2, dirent, data, cmd, call, at, hop>>
  BY DEF WriteAlloc, At, IInv, MemoryOK, CommandOK
<1>2. ASSUME UNCHANGED <<fat1, mirror, node>>, pc' = "return" \/ (pc' = "buffer" /\ node.inode # 0)
      PROVE  IInv'
  <2>1. DiskOK' /\ (Loose(node.inode)' <=> Loose(node.inode))
    <3>1. DiskOK' /\ \A x : Loose(x)' <=> Loose(x)
      BY <1>1, <1>2, DiskSame DEF IInv, disk
    <3> QED  BY <1>2, <3>1 DEF Loose, Linked, Entered, IsEntry
  <2> QED  BY <1>1, <1>2, <2>1
           DEF IInv, MemoryOK, MemoryTyped, CommandOK, CallOK, MakeOK, ZeroedOK,
               OpenOK, WalkOK, ChainOK, Looking, Making, Writing, Labels
<1>3. CASE /\ node.inode = 0 /\ fat_alloc_cluster
           /\ node' = [node EXCEPT !.inode = FirstFree] /\ pc' = "buffer"
  <2>1. PICK c \in Entries : c = FirstFree /\ fat1[c] = Free
    BY <1>3, FirstFreeIs DEF fat_alloc_cluster
  <2>2. fat1' = [fat1 EXCEPT ![c] = EOC] /\ mirror' = {<<c, EOC>>}
    BY <1>3, <2>1 DEF fat_alloc_cluster, fat_set_entry
  <2>3. Sound' /\ Loose(c)'
    BY <1>1, <2>1, <2>2, Marked DEF IInv, DiskOK
  <2>4. DiskOK'
    BY <1>1, <2>3, TableChanged DEF IInv
  <2>5. node' \in Nodes /\ node'.inode = c /\ node'.slot = node.slot
    BY <1>3, <2>1 DEF IInv, MemoryOK, MemoryTyped, Nodes
  <2>6. Loose(node.inode)' /\ c # 0
    BY <2>1, <2>3, <2>5, Numbers DEF Loose, Linked, Entered, IsEntry
  <2>7. MemoryTyped'
    BY <1>1, <1>3, <2>1, <2>2, <2>5 DEF IInv, MemoryOK, MemoryTyped, Labels, Writing
  <2> QED  BY <1>1, <1>3, <2>4, <2>5, <2>6, <2>7
           DEF IInv, MemoryOK, CommandOK, CallOK, MakeOK, ZeroedOK,
               OpenOK, WalkOK, ChainOK, Looking, Making, Writing
<1> QED  BY <1>2, <1>3 DEF WriteAlloc

LEMMA WriteBufferInv == IInv /\ WriteBuffer => IInv'
<1> SUFFICES ASSUME IInv, WriteBuffer PROVE IInv'
  OBVIOUS
<1>1. /\ pc = "buffer" /\ mirror = {} /\ cmd \in Commands /\ node.inode # 0
      /\ UNCHANGED <<disk, cmd, node, call, mirror>>
  BY DEF WriteBuffer, At, IInv, MemoryOK, CommandOK, OpenOK, Writing
<1>2. /\ DiskOK' /\ dirent' = dirent /\ fat1' = fat1
      /\ (Loose(node.inode)' <=> Loose(node.inode))
  <2>1. DiskOK' /\ \A x : Loose(x)' <=> Loose(x)
    BY <1>1, DiskSame DEF IInv
  <2> QED  BY <1>1, <2>1 DEF disk, Loose, Linked, Entered, IsEntry
<1>3. node.inode \in Entries /\ fat1[node.inode] # Free
  BY <1>1, HeadLive DEF Writing
<1>4. CASE pc' = "walk" /\ at' = node.inode /\ hop' = 0
  BY <1>1, <1>2, <1>3, <1>4
     DEF IInv, MemoryOK, MemoryTyped, CommandOK, CallOK, MakeOK, ZeroedOK,
         OpenOK, WalkOK, ChainOK, Looking, Making, Writing, Labels
<1>5. CASE pc' = "return" /\ UNCHANGED <<at, hop>>
  BY <1>1, <1>2, <1>3, <1>5
     DEF IInv, MemoryOK, MemoryTyped, CommandOK, CallOK, MakeOK, ZeroedOK,
         OpenOK, WalkOK, ChainOK, Looking, Making, Writing, Labels
<1> QED  BY <1>4, <1>5 DEF WriteBuffer

LEMMA FollowInv == IInv /\ Follow => IInv'
<1> SUFFICES ASSUME IInv, Follow PROVE IInv'
  OBVIOUS
<1>1. /\ pc = "walk" /\ pc' = "walk" /\ mirror = {} /\ cmd \in Commands /\ at \in Entries
      /\ UNCHANGED <<disk, cmd, node, call, mirror>>
      /\ fat1[at] \in Entries /\ at' = fat1[at] /\ hop' = hop + 1
  BY DEF Follow, At, IInv, MemoryOK, CommandOK, WalkOK, Writing
<1>2. /\ DiskOK' /\ dirent' = dirent /\ fat1' = fat1
      /\ (Loose(node.inode)' <=> Loose(node.inode))
  <2>1. DiskOK' /\ \A x : Loose(x)' <=> Loose(x)
    BY <1>1, DiskSame DEF IInv
  <2> QED  BY <1>1, <2>1 DEF disk, Loose, Linked, Entered, IsEntry
<1>3. WalkOK'
  <2>1. Linked(at)' /\ fat1[at'] # Free
    BY <1>1, <1>2 DEF Linked, IInv, DiskOK, Sound, Live
  <2> QED  BY <1>1, <1>2, <2>1 DEF WalkOK
<1> QED  BY <1>1, <1>2, <1>3
         DEF IInv, MemoryOK, MemoryTyped, CommandOK, CallOK, MakeOK, ZeroedOK,
             OpenOK, ChainOK, Looking, Making, Writing, Labels

LEMMA ExtendInv == IInv /\ Extend => IInv'
<1> SUFFICES ASSUME IInv, Extend PROVE IInv'
  OBVIOUS
<1>1. /\ pc = "walk" /\ mirror = {} /\ cmd \in Commands /\ at \in Entries
      /\ fat1[at] \notin Entries /\ fat1[at] # Free /\ (at = node.inode \/ Linked(at))
      /\ UNCHANGED <<fat2, dirent, data, cmd, node, at, hop>>
  BY DEF Extend, At, IInv, MemoryOK, CommandOK, WalkOK
<1>2. node.inode \in Entries /\ fat1[node.inode] # Free
  <2>1. node.inode # 0
    BY <1>1 DEF IInv, MemoryOK, OpenOK, Writing
  <2> QED  BY <1>1, <2>1, HeadLive DEF Writing
<1>3. CASE /\ fat_alloc_cluster /\ call' = [call EXCEPT !.nc = FirstFree]
           /\ pc' = "chain"
  <2>1. PICK c \in Entries : c = FirstFree /\ fat1[c] = Free
    BY <1>3, FirstFreeIs DEF fat_alloc_cluster
  <2>2. fat1' = [fat1 EXCEPT ![c] = EOC] /\ mirror' = {<<c, EOC>>}
    BY <1>3, <2>1 DEF fat_alloc_cluster, fat_set_entry
  <2>3. Sound' /\ Loose(c)' /\ \A x : Loose(x) => Loose(x)'
    BY <1>1, <2>1, <2>2, Marked DEF IInv, DiskOK
  <2>4. DiskOK'
    BY <1>1, <2>3, TableChanged DEF IInv
  <2>5. /\ call' \in Calls
        /\ call'.nc = c /\ call'.phase = call.phase
        /\ call'.done = call.done /\ call'.size = call.size
    BY <1>3, <2>1 DEF IInv, MemoryOK, MemoryTyped, Calls
  <2>6. ChainOK'
    <3>1. fat1'[at] = fat1[at] /\ c # at /\ c # node.inode
      BY <1>1, <1>2, <2>1, <2>2 DEF IInv, DiskOK, Sound, Table
    <3>2. Loose(call.nc)'
      BY <2>3, <2>5 DEF Loose, Linked, Entered, IsEntry
    <3> QED  BY <1>1, <2>5, <3>1, <3>2 DEF ChainOK
  <2>7. WalkOK'
    <3>1. fat1'[at] = fat1[at]
      BY <1>1, <2>1, <2>2 DEF IInv, DiskOK, Sound, Table
    <3>2. Linked(at) => Linked(at)'
      BY <1>1, <2>1, <2>2, Numbers DEF Linked, IInv, DiskOK, Sound, Table
    <3> QED  BY <1>1, <3>1, <3>2 DEF WalkOK
  <2>8. MemoryTyped'
    BY <1>1, <1>3, <2>1, <2>2, <2>5 DEF IInv, MemoryOK, MemoryTyped, Labels, Writing
  <2>9. OpenOK'
    <3>1. Loose(node.inode) => Loose(node.inode)'
      BY <1>1, <2>3 DEF Loose, Linked, Entered, IsEntry
    <3> QED  BY <1>1, <3>1 DEF IInv, MemoryOK, OpenOK, Writing
  <2> QED  BY <1>1, <1>3, <2>4, <2>5, <2>6, <2>7, <2>8, <2>9
           DEF IInv, MemoryOK, CommandOK, CallOK, MakeOK, ZeroedOK,
               Looking, Making, Writing
<1>4. CASE pc' = "update" /\ UNCHANGED <<fat1, mirror, call>>
  <2>1. DiskOK' /\ (Loose(node.inode)' <=> Loose(node.inode))
    <3>1. DiskOK' /\ \A x : Loose(x)' <=> Loose(x)
      BY <1>1, <1>4, DiskSame DEF IInv, disk
    <3> QED  BY <1>1, <1>4, <3>1 DEF Loose, Linked, Entered, IsEntry
  <2> QED  BY <1>1, <1>4, <2>1
           DEF IInv, MemoryOK, MemoryTyped, CommandOK, CallOK, MakeOK, ZeroedOK,
               OpenOK, WalkOK, ChainOK, Looking, Making, Writing, Labels
<1> QED  BY <1>3, <1>4 DEF Extend

LEMMA ChainInv == IInv /\ Chain => IInv'
<1> SUFFICES ASSUME IInv, Chain PROVE IInv'
  OBVIOUS
<1>1. /\ pc = "chain" /\ mirror = {} /\ cmd \in Commands /\ at \in Entries
      /\ fat1[at] \notin Entries /\ fat1[at] # Free
      /\ UNCHANGED <<fat2, dirent, data, cmd, node, call>>
      /\ pc' = "walk" /\ hop' = hop + 1
  BY DEF Chain, At, IInv, MemoryOK, CommandOK, WalkOK, ChainOK
<1>2. PICK c \in Entries : c = call.nc /\ Loose(c) /\ c # at /\ c # node.inode
  BY <1>1 DEF IInv, MemoryOK, ChainOK, Loose
<1>3. fat1' = [fat1 EXCEPT ![at] = c] /\ mirror' = {<<at, c>>} /\ at' = c
  BY <1>2 DEF Chain, fat_set_entry
<1>4. Sound' /\ fat1'[at] = c /\ \A x : Loose(x) /\ x # c => Loose(x)'
  BY <1>1, <1>2, <1>3, LinkedTo DEF IInv, DiskOK
<1>5. DiskOK'
  BY <1>1, <1>4, TableChanged DEF IInv
<1>6. WalkOK'
  <2>1. fat1'[c] = fat1[c] /\ fat1[c] # Free
    BY <1>1, <1>2, <1>3 DEF Loose, IInv, DiskOK, Sound, Table
  <2>2. Linked(at)'
    BY <1>1, <1>3, <1>4 DEF Linked
  <2> QED  BY <1>2, <1>3, <2>1, <2>2 DEF WalkOK
<1>7. OpenOK'
  <2>1. Loose(node.inode) => Loose(node.inode)'
    BY <1>1, <1>2, <1>4 DEF Loose, Linked, Entered, IsEntry
  <2> QED  BY <1>1, <2>1 DEF IInv, MemoryOK, OpenOK, Writing
<1>8. MemoryTyped'
  BY <1>1, <1>2, <1>3 DEF IInv, MemoryOK, MemoryTyped, Labels, Writing
<1> QED  BY <1>1, <1>5, <1>6, <1>7, <1>8
         DEF IInv, MemoryOK, CommandOK, CallOK, MakeOK, ZeroedOK, ChainOK,
             Looking, Making, Writing

LEMMA CopyIs ==
  ASSUME MemoryTyped
  PROVE  Copy \in Nat /\ call.done + Copy \in Nat /\ call.done + Copy <= call.size
<1> DEFINE rest == call.size - call.done
           avail == ClusterSize - inner_off
<1>1. rest \in Nat /\ call.done \in Nat /\ call.size \in Nat
  BY DEF MemoryTyped, Calls
<1>2. inner_off \in Nat /\ inner_off < ClusterSize
  BY SizeAssumption DEF inner_off, cur_off, MemoryTyped, Calls
<1>3. avail \in Nat
  BY <1>2, SizeAssumption
<1>4. Copy = IF rest > avail THEN avail ELSE rest
  BY DEF Copy
<1> HIDE DEF avail
<1> QED  BY <1>1, <1>3, <1>4

LEMMA PatchInv == IInv /\ Patch => IInv'
<1> SUFFICES ASSUME IInv, Patch PROVE IInv'
  OBVIOUS
<1>1. /\ pc = "walk" /\ mirror = {} /\ cmd \in Commands /\ cmd.text \in Texts
      /\ at \in Entries /\ (at = node.inode \/ Linked(at))
      /\ UNCHANGED <<fat1, fat2, dirent, cmd, node, mirror>>
  BY DEF Patch, At, IInv, MemoryOK, CommandOK, CallOK, WalkOK, Writing
<1>2. node.inode \in Entries /\ fat1[node.inode] # Free
  <2>1. node.inode # 0
    BY <1>1 DEF IInv, MemoryOK, OpenOK, Writing
  <2> QED  BY <1>1, <2>1, HeadLive DEF Writing
<1> DEFINE contents == [u \in Units |->
             IF u \in inner_off .. inner_off + Copy - 1
             THEN IF call.phase = 1 THEN cmd.text ELSE Newline
             ELSE data[at][u]]
<1>3. PICK c \in Entries, x \in Contents : c = at /\ WriteCluster(c, x)
  <2>1. data[at] \in Contents
    BY <1>1 DEF IInv, DiskOK
  <2>2. contents \in Contents
    BY <1>1, <2>1 DEF Contents
  <2>3. WriteCluster(at, contents)
    BY DEF Patch
  <2> HIDE DEF contents
  <2> QED  BY <1>1, <2>2, <2>3
<1>4. \A s \in Slots : dirent[s].kind = "dir" => dirent[s].first # c
  BY <1>1, <1>3, NoDirectory DEF Writing
<1>5. DiskOK' /\ \A y : Loose(y)' <=> Loose(y)
  BY <1>1, <1>3, <1>4, ClusterWritten DEF IInv
<1>6. Loose(node.inode)' <=> Loose(node.inode)
  BY <1>1, <1>5 DEF Loose, Linked, Entered, IsEntry
<1>7. /\ call' \in Calls
      /\ call'.done <= call'.size /\ call'.phase = call.phase
  BY CopyIs DEF Patch, IInv, MemoryOK, MemoryTyped, Calls
<1>8. \/ pc' = "update" /\ at' = 0 /\ hop' = 0
      \/ pc' = "walk" /\ at' = node.inode /\ hop' = 0
  BY <1>1 DEF Patch
<1>9. MemoryTyped'
  BY <1>1, <1>2, <1>7, <1>8 DEF IInv, MemoryOK, MemoryTyped, Labels, Writing
<1> QED  BY <1>1, <1>2, <1>5, <1>6, <1>7, <1>8, <1>9
         DEF IInv, MemoryOK, CommandOK, CallOK, MakeOK, ZeroedOK, OpenOK, WalkOK, ChainOK,
             Looking, Making, Writing

LEMMA UpdateEntryInv == IInv /\ UpdateEntry => IInv'
<1> SUFFICES ASSUME IInv, UpdateEntry PROVE IInv'
  OBVIOUS
<1> DEFINE e == [dirent[node.slot] EXCEPT !.first = node.inode, !.size = NewSize]
<1>1. /\ pc = "update" /\ mirror = {} /\ cmd \in Commands /\ pc' = "return"
      /\ UNCHANGED <<fat1, fat2, data, cmd, call, at, hop, mirror>>
      /\ node' = [node EXCEPT !.size = NewSize]
  BY DEF UpdateEntry, At, IInv, MemoryOK, CommandOK
<1>2. /\ node.slot \in Slots /\ dirent[node.slot].kind = "file" /\ IsEntry(node.slot)
      /\ dirent[node.slot].first \in {0, node.inode} /\ node.inode # 0
      /\ dirent[node.slot].first = 0 => Loose(node.inode)
  BY <1>1 DEF IInv, MemoryOK, OpenOK, Writing, IsEntry
<1>3. dirent[node.slot] \in Entry
  BY <1>2, EntryIs DEF IInv, DiskOK, Sound
<1>4. NewSize \in Nat /\ node \in Nodes
  BY DEF IInv, MemoryOK, MemoryTyped, Calls, NewSize, cur_off, Nodes
<1>5. e \in Entry /\ e.first = node.inode /\ e.kind = "file"
  BY <1>2, <1>3, <1>4 DEF Entry, Nodes
<1>6. PICK s \in Slots, f \in Entry : s = node.slot /\ f = e
  BY <1>2, <1>5
<1>7. dirent' = [dirent EXCEPT ![s] = f]
  BY <1>2, <1>6 DEF UpdateEntry, IInv, DiskOK, Sound, Catalogue
<1> HIDE DEF e
<1>8. \A t \in Slots : dirent'[t] = IF t = s THEN f ELSE dirent[t]
  BY <1>7 DEF IInv, DiskOK, Sound, Catalogue
<1>9. Sound'
  BY <1>1, <1>2, <1>5, <1>6, <1>7, SlotWritten DEF IInv, DiskOK
<1>10. \A x : Place(x) => Place(x)'
  BY <1>2, <1>6, <1>8 DEF Place
<1>11. DirsOK' /\ BeyondOK'
  BY <1>1, <1>5, <1>6, <1>8 DEF DirsOK, BeyondOK, DirCluster, IInv, DiskOK, Filled, Units
<1>12. PlacesOK'
  <2>1. \A t \in Slots : IsEntry(t)' => IsEntry(t)
    BY <1>2, <1>6, <1>8 DEF IsEntry
  <2> QED  BY <1>10, <2>1 DEF PlacesOK, IInv, DiskOK
<1>13. DiskOK'
  BY <1>1, <1>9, <1>11, <1>12 DEF IInv, DiskOK
<1>14. /\ node' \in Nodes /\ node'.slot = s /\ node'.inode = node.inode
       /\ dirent'[s].kind = "file" /\ dirent'[s].first = node.inode
  BY <1>1, <1>4, <1>5, <1>6, <1>8 DEF Nodes
<1>15. MemoryTyped'
  BY <1>1, <1>14 DEF IInv, MemoryOK, MemoryTyped, Labels, Writing
<1> QED  BY <1>1, <1>2, <1>13, <1>14, <1>15
         DEF IInv, MemoryOK, CommandOK, CallOK, MakeOK, ZeroedOK, OpenOK, WalkOK, ChainOK,
             Looking, Making, Writing

LEMMA WriteReturnsInv == IInv /\ WriteReturns => IInv'
<1> SUFFICES ASSUME IInv, WriteReturns PROVE IInv'
  OBVIOUS
<1>1. pc = "return" /\ cmd \in Commands /\ UNCHANGED <<disk, mirror>>
  BY DEF WriteReturns, At, IInv, MemoryOK, CommandOK
<1>2. CASE /\ call' = SecondWrite /\ pc' = "write" /\ at' = 0 /\ hop' = 0
           /\ UNCHANGED <<cmd, node>>
  <2>1. /\ DiskOK' /\ dirent' = dirent
        /\ (Loose(node.inode)' <=> Loose(node.inode))
    <3>1. DiskOK' /\ \A x : Loose(x)' <=> Loose(x)
      BY <1>1, DiskSame DEF IInv
    <3> QED  BY <1>1, <1>2, <3>1 DEF disk, Loose, Linked, Entered, IsEntry
  <2>2. MemoryTyped' /\ call'.phase = 2
    BY <1>1, <1>2 DEF IInv, MemoryOK, MemoryTyped, Calls, SecondWrite, Commands, Labels, Writing
  <2> QED  BY <1>1, <1>2, <2>1, <2>2
           DEF IInv, MemoryOK, CommandOK, CallOK, MakeOK, ZeroedOK, OpenOK, WalkOK, ChainOK,
               Looking, Making, Writing
<1>3. CASE Return
  BY <1>1, <1>3, DiskSame, Returned DEF IInv, MemoryOK, MemoryTyped
<1> QED  BY <1>2, <1>3 DEF WriteReturns

LEMMA MirrorInv == IInv /\ Mirror => IInv'
<1> SUFFICES ASSUME IInv, NEW m \in mirror, fat2' = [fat2 EXCEPT ![m[1]] = m[2]],
                    mirror' = {}, UNCHANGED <<fat1, dirent, data, pc, memory>>
             PROVE  IInv'
  BY DEF Mirror
<1>1. fat2' \in Table
  BY DEF IInv, DiskOK, MemoryOK, MemoryTyped, Table
<1>2. /\ fat1' = fat1 /\ dirent' = dirent /\ data' = data /\ pc' = pc
      /\ cmd' = cmd /\ node' = node /\ call' = call /\ at' = at /\ hop' = hop
  BY DEF memory
<1>3. \A s : IsEntry(s)' <=> IsEntry(s)
  BY <1>2 DEF IsEntry
<1>4. /\ \A x : Loose(x)' <=> Loose(x)
      /\ \A x : Linked(x)' <=> Linked(x)
      /\ \A x : Place(x)' <=> Place(x)
      /\ \A x : DirCluster(x)' <=> DirCluster(x)
  BY <1>2, <1>3 DEF Loose, Linked, Entered, Place, DirCluster
<1>5. DiskOK'
  BY <1>1, <1>2, <1>3, <1>4
     DEF IInv, DiskOK, Sound, OwnedOnce, Live, DirsOK, BeyondOK, PlacesOK
<1> QED  BY <1>2, <1>3, <1>5
         DEF IInv, MemoryOK, MemoryTyped, CommandOK, CallOK, MakeOK, ZeroedOK, OpenOK, WalkOK,
             ChainOK, Loose, Linked, Entered, Place, DirCluster

LEMMA CrashInv == IInv /\ Crash => IInv'
<1> SUFFICES ASSUME IInv, Crash PROVE IInv'
  OBVIOUS
<1> QED  BY DiskSame, Returned DEF IInv, Crash

LEMMA StutterInv == IInv /\ UNCHANGED vars => IInv'
<1> SUFFICES ASSUME IInv, UNCHANGED vars PROVE IInv'
  OBVIOUS
<1>1. /\ UNCHANGED disk /\ pc' = pc /\ mirror' = mirror /\ dirent' = dirent /\ fat1' = fat1
      /\ cmd' = cmd /\ node' = node /\ call' = call /\ at' = at /\ hop' = hop /\ data' = data
  BY DEF vars, memory, disk
<1>2. DiskOK'
  BY <1>1, DiskSame DEF IInv
<1> QED  BY <1>1, <1>2
         DEF IInv, MemoryOK, MemoryTyped, CommandOK, CallOK, MakeOK, ZeroedOK, OpenOK, WalkOK,
             ChainOK, Loose, Linked, Entered, IsEntry, Place, DirCluster

LEMMA StepInv == IInv /\ [Next]_vars => IInv'
<1> SUFFICES ASSUME IInv, [Next]_vars PROVE IInv'
  OBVIOUS
<1>1. CASE Command
  BY <1>1, IssueInv DEF Command
<1>2. CASE Step
  BY <1>2, LookupInv, CreateFileInv, FindInv, CloseInv, MkdirAllocInv, MkdirZeroInv,
     MkdirDotsInv, MkdirEntryInv, FreeChainInv, WriteAllocInv, WriteBufferInv, FollowInv,
     ExtendInv, ChainInv, PatchInv, UpdateEntryInv, WriteReturnsInv DEF Step
<1>3. CASE Mirror \/ Crash \/ UNCHANGED vars
  BY <1>3, MirrorInv, CrashInv, StutterInv
<1> QED  BY <1>1, <1>2, <1>3 DEF Next

-----------------------------------------------------------------------------
(* What a step may change in the directories, and in the two copies.        *)

LEMMA DirentStep ==
  ASSUME IInv, [Next]_vars
  PROVE  \/ dirent' = dirent
         \/ /\ CanWriteEntry /\ cmd \in Commands
            /\ \E kind \in {"file", "dir"} : \E c : fat16_write_dir_entry(kind, c)
         \/ MkdirZero
         \/ UpdateEntry
<1>1. CASE Command
  BY <1>1 DEF Command, Issue, disk
<1>2. CASE CreateFile \/ MkdirEntry
  BY <1>2 DEF CreateFile, MkdirEntry, At, IInv, MemoryOK, CommandOK
<1>3. CASE \/ Lookup \/ Find \/ Close \/ MkdirAlloc \/ MkdirDots \/ fat_free_chain
           \/ WriteAlloc \/ WriteBuffer \/ Follow \/ Extend \/ Chain \/ Patch
           \/ WriteReturns \/ Mirror \/ Crash \/ UNCHANGED vars
  BY <1>3 DEF Lookup, Find, Close, MkdirAlloc, MkdirDots, fat_free_chain, WriteAlloc,
     WriteBuffer, Follow, Extend, Chain, Patch, WriteReturns, Mirror, Crash, Open, vars, disk
<1> QED  BY <1>1, <1>2, <1>3 DEF Next, Step

(* The sectors of a cluster that mkdir zeroes hold nobody's entries.        *)
LEMMA NothingCleared ==
  ASSUME IInv, MkdirZero
  PROVE  \A s \in Slots : IsEntry(s) => dirent'[s] = dirent[s]
<1>1. Loose(at)
  BY DEF MkdirZero, At, IInv, MemoryOK, MakeOK, Making
<1>2. \A s \in Slots : IsEntry(s) => s[1] # at
  BY <1>1, Numbers DEF IInv, DiskOK, PlacesOK, Place, Loose, Entered, IsEntry, Root, Free
<1> QED  BY <1>2 DEF MkdirZero

EntriesStay ==
  \A s \in Slots : IsEntry(s) =>
    /\ dirent'[s].kind = dirent[s].kind /\ dirent'[s].name = dirent[s].name
    /\ s # node.slot \/ dirent[s].kind = "dir" => dirent'[s] = dirent[s]

LEMMA EntriesStayStep == IInv /\ [Next]_vars => EntriesStay
<1> SUFFICES ASSUME IInv, [Next]_vars, NEW s \in Slots, IsEntry(s)
             PROVE  /\ dirent'[s].kind = dirent[s].kind /\ dirent'[s].name = dirent[s].name
                    /\ s # node.slot \/ dirent[s].kind = "dir" => dirent'[s] = dirent[s]
  BY DEF EntriesStay
<1>1. CASE dirent' = dirent
  BY <1>1
<1>2. ASSUME CanWriteEntry, cmd \in Commands,
             NEW kind \in {"file", "dir"}, NEW c, fat16_write_dir_entry(kind, c)
      PROVE  dirent'[s] = dirent[s]
  <2>1. FreeSlot(cmd.dir) # s
    BY <1>2, FreeSlotIs DEF CanWriteEntry, Commands
  <2> QED  BY <1>2, <2>1 DEF fat16_write_dir_entry, IInv, DiskOK, Sound, Catalogue
<1>3. CASE MkdirZero
  BY <1>3, NothingCleared
<1>4. CASE UpdateEntry
  <2>1. dirent[node.slot].kind = "file" /\ node.slot \in Slots
    BY <1>4 DEF UpdateEntry, At, IInv, MemoryOK, OpenOK, Writing
  <2>2. dirent[node.slot] \in Entry
    BY <2>1, EntryIs DEF IInv, DiskOK, Sound, IsEntry
  <2> QED  BY <1>4, <2>1, <2>2 DEF UpdateEntry, IInv, DiskOK, Sound, Catalogue, Entry
<1> QED  BY <1>1, <1>2, <1>3, <1>4, DirentStep

LEMMA TableStep ==
  ASSUME IInv, [Next]_vars
  PROVE  \/ /\ UNCHANGED <<fat2, crashes>> /\ mirror = {}
            /\ \E c \in Entries : \E v : fat_set_entry(c, v)
         \/ Mirror /\ crashes' = crashes
         \/ Crash
         \/ UNCHANGED <<fat1, fat2, mirror, crashes>>
<1>1. CASE Command
  BY <1>1 DEF Command, Issue, disk
<1>2. CASE MkdirAlloc \/ WriteAlloc \/ Extend
  BY <1>2, FirstFreeIs DEF MkdirAlloc, WriteAlloc, Extend, fat_alloc_cluster, At
<1>3. CASE Chain \/ fat_free_chain
  <2>1. at \in Entries
    BY <1>3 DEF Chain, fat_free_chain, At, IInv, MemoryOK, MakeOK, WalkOK, Making, Loose
  <2> QED  BY <1>3, <2>1 DEF Chain, fat_free_chain, At, history
<1>4. CASE \/ Lookup \/ Find \/ Close \/ MkdirZero \/ MkdirDots \/ MkdirEntry \/ CreateFile
           \/ WriteBuffer \/ Follow \/ Patch \/ UpdateEntry
           \/ WriteReturns \/ UNCHANGED vars
  BY <1>4 DEF Lookup, Find, Close, MkdirZero, MkdirDots, MkdirEntry, CreateFile,
     WriteBuffer, Follow, Patch, UpdateEntry, WriteReturns, Open, vars, disk, history
<1>5. CASE Mirror \/ Crash
  BY <1>5 DEF Mirror, history
<1> QED  BY <1>1, <1>2, <1>3, <1>4, <1>5 DEF Next, Step

-----------------------------------------------------------------------------
(* The copies of the table: each crash leaves them apart in one entry.      *)

Differ == {c \in Entries : fat1[c] # fat2[c]}
Pending == {m[1] : m \in mirror}
CopiesInv ==
  /\ crashes \in Nat /\ Cardinality(Differ \ Pending) <= crashes
  /\ mirror = {} \/ \E c \in Entries : mirror = {<<c, fat1[c]>>}

LEMMA FiniteEntries ==
  ASSUME NEW S \in SUBSET Entries
  PROVE  IsFiniteSet(S) /\ Cardinality(S) \in Nat
<1>0. PICK n \in Nat : \A c \in Entries : c \in Nat /\ c < n
  BY EntriesAssumption
<1>1. IsFiniteSet(0 .. n)
  BY FS_Interval
<1>2. S \subseteq 0 .. n
  BY <1>0
<1>3. IsFiniteSet(S)
  BY <1>1, <1>2, FS_Subset
<1> QED  BY <1>3, FS_CardinalityType

LEMMA OneMore ==
  ASSUME NEW S \in SUBSET Entries, NEW T \in SUBSET Entries, NEW c, S \subseteq T \cup {c}
  PROVE  Cardinality(S) <= Cardinality(T) + 1
<1>1. /\ IsFiniteSet(S) /\ Cardinality(S) \in Nat
      /\ IsFiniteSet(T) /\ Cardinality(T) \in Nat
  BY FiniteEntries
<1>2. /\ IsFiniteSet(T \cup {c})
      /\ Cardinality(T \cup {c}) = IF c \in T THEN Cardinality(T) ELSE Cardinality(T) + 1
  BY <1>1, FS_AddElement
<1>3. Cardinality(S) <= Cardinality(T \cup {c})
  BY <1>2, FS_Subset
<1> QED  BY <1>1, <1>2, <1>3

LEMMA CopiesStep == IInv /\ CopiesInv /\ [Next]_vars => CopiesInv'
<1> SUFFICES ASSUME IInv, CopiesInv, [Next]_vars PROVE CopiesInv'
  OBVIOUS
<1> USE DEF CopiesInv
<1>1. IInv'
  BY StepInv
<1>2. /\ fat1 \in Table /\ fat2 \in Table /\ fat1' \in Table /\ fat2' \in Table
      /\ (Differ \ Pending) \in SUBSET Entries /\ (Differ \ Pending)' \in SUBSET Entries
  BY <1>1 DEF IInv, DiskOK, Sound, Differ
<1>3. ASSUME (Differ \ Pending)' \subseteq Differ \ Pending
      PROVE  Cardinality((Differ \ Pending)') <= Cardinality(Differ \ Pending)
  BY <1>2, <1>3, FiniteEntries, FS_Subset
<1>4. ASSUME UNCHANGED <<fat2, crashes>>, mirror = {},
             NEW c \in Entries, NEW v, fat_set_entry(c, v)
      PROVE  CopiesInv'
  <2>1. fat1'[c] = v /\ mirror' = {<<c, v>>} /\ \A d \in Entries \ {c} : fat1'[d] = fat1[d]
    BY <1>2, <1>4 DEF fat_set_entry, Table
  <2>2. (Differ \ Pending)' \subseteq Differ \ Pending
    BY <1>4, <2>1 DEF Differ, Pending
  <2> QED  BY <1>2, <1>3, <1>4, <2>1, <2>2, FiniteEntries
<1>5. CASE Mirror /\ crashes' = crashes
  <2>0. PICK m \in mirror : fat2' = [fat2 EXCEPT ![m[1]] = m[2]]
    BY <1>5 DEF Mirror
  <2>1. PICK c \in Entries : mirror = {<<c, fat1[c]>>}
    BY <2>0
  <2>2. fat1' = fat1 /\ mirror' = {} /\ fat2' = [fat2 EXCEPT ![c] = fat1[c]]
    <3>1. m = <<c, fat1[c]>>
      BY <2>1
    <3> QED  BY <1>5, <2>0, <3>1 DEF Mirror
  <2>3. (Differ \ Pending)' \subseteq Differ \ Pending
    BY <1>2, <2>1, <2>2 DEF Differ, Pending, Table
  <2> QED  BY <1>2, <1>3, <1>5, <2>2, <2>3, FiniteEntries
<1>6. CASE Crash
  <2>1. UNCHANGED <<fat1, fat2>> /\ mirror' = {} /\ crashes' = crashes + 1
    BY <1>6 DEF Crash, disk
  <2>2. PICK c : (Differ \ Pending)' \subseteq (Differ \ Pending) \cup {c}
    BY <2>1 DEF Differ, Pending
  <2>3. Cardinality((Differ \ Pending)') <= Cardinality(Differ \ Pending) + 1
    BY <1>2, <2>2, OneMore
  <2> QED  BY <1>2, <2>1, <2>3, FiniteEntries
<1>7. CASE UNCHANGED <<fat1, fat2, mirror, crashes>>
  BY <1>7 DEF Differ, Pending
<1> QED  BY <1>4, <1>5, <1>6, <1>7, TableStep

-----------------------------------------------------------------------------
(* Lost clusters.  A command may hold clusters that nothing refers to yet;  *)
(* it keeps them when it ends only if the heap was short.                   *)

Lost == {c \in Entries : Loose(c)}
Held == (IF pc \in Making THEN {at} ELSE {})
        \cup (IF pc \in Writing THEN {node.inode} ELSE {})
        \cup (IF pc = "chain" THEN {call.nc} ELSE {})
Short == pc # "idle" /\ cmd.heap # "enough"
StoredOK == pc \in {"write", "return"} /\ cmd.heap = "enough" =>
              dirent[node.slot].first = node.inode
LossInv ==
  /\ StoredOK
  /\ starved \in Nat /\ crashes \in Nat
  /\ Short => starved > 0
  /\ crashes = 0 /\ DirectoriesOnDisk =>
       Cardinality(Lost \ Held) <= IF Short THEN starved - 1 ELSE starved

LEMMA LossKept ==
  ASSUME LossInv, UNCHANGED <<crashes, starved>>,
         DirectoriesOnDisk => (Lost \ Held)' \subseteq Lost \ Held,
         DirectoriesOnDisk' => DirectoriesOnDisk, Short' => Short, StoredOK'
  PROVE  LossInv'
<1>1. /\ (Lost \ Held) \in SUBSET Entries /\ (Lost \ Held)' \in SUBSET Entries
  BY DEF Lost
<1>2. DirectoriesOnDisk => Cardinality((Lost \ Held)') <= Cardinality(Lost \ Held)
  BY <1>1, FiniteEntries, FS_Subset
<1>3. /\ Cardinality((Lost \ Held)') \in Nat /\ Cardinality(Lost \ Held) \in Nat
  BY <1>1, FiniteEntries
<1>4. /\ starved \in Nat /\ crashes \in Nat /\ starved' = starved /\ crashes' = crashes
      /\ Short => starved > 0
  BY DEF LossInv
<1>5. ASSUME crashes' = 0, DirectoriesOnDisk'
      PROVE  Cardinality((Lost \ Held)') <= IF Short' THEN starved - 1 ELSE starved
  <2>1. Cardinality(Lost \ Held) <= IF Short THEN starved - 1 ELSE starved
    BY <1>4, <1>5 DEF LossInv
  <2> QED  BY <1>2, <1>3, <1>4, <1>5, <2>1
<1> QED  BY <1>4, <1>5 DEF LossInv

(* A command ends and leaves at most one cluster behind, and none if it had *)
(* heap enough.                                                             *)
LEMMA LossReturned ==
  ASSUME LossInv, Return, UNCHANGED <<crashes, starved>>,
         DirectoriesOnDisk' => DirectoriesOnDisk,
         NEW c, Lost' \subseteq (Lost \ Held) \cup {c},
         Short \/ Lost' \subseteq Lost \ Held
  PROVE  LossInv'
<1>1. /\ (Lost \ Held) \in SUBSET Entries /\ Lost' \in SUBSET Entries
  BY DEF Lost
<1>2. pc' = "idle"
  BY DEF Return
<1>3. (Lost \ Held)' = Lost' /\ ~Short' /\ StoredOK'
  BY <1>2 DEF Held, Making, Writing, Short, StoredOK
<1>4. CASE Short
  <2>1. Cardinality(Lost') <= Cardinality(Lost \ Held) + 1
    BY <1>1, OneMore
  <2>2. Cardinality(Lost') \in Nat /\ Cardinality(Lost \ Held) \in Nat
    BY <1>1, FiniteEntries
  <2>3. /\ starved \in Nat /\ crashes \in Nat /\ starved' = starved /\ crashes' = crashes
        /\ starved > 0
    BY <1>4 DEF LossInv
  <2>4. ASSUME crashes' = 0, DirectoriesOnDisk'
        PROVE  Cardinality((Lost \ Held)') <= starved
    <3>1. Cardinality(Lost \ Held) <= starved - 1
      BY <1>4, <2>3, <2>4 DEF LossInv
    <3> QED  BY <1>3, <2>1, <2>2, <2>3, <3>1
  <2> QED  BY <1>3, <2>3, <2>4 DEF LossInv
<1>5. CASE ~Short
  BY <1>3, <1>5, LossKept
<1> QED  BY <1>4, <1>5

LEMMA OnDiskBefore ==
  ASSUME IInv, [Next]_vars, DirectoriesOnDisk'
  PROVE  DirectoriesOnDisk
<1>1. \A s \in Slots : dirent[s].kind = "dir" => dirent'[s] = dirent[s]
  BY EntriesStayStep DEF EntriesStay, IsEntry
<1> QED  BY <1>1 DEF DirectoriesOnDisk

(* What Loose depends on.                                                   *)
LEMMA SameLost ==
  ASSUME fat1' = fat1, dirent' = dirent
  PROVE  Lost' = Lost
BY DEF Lost, Loose, Linked, Entered, IsEntry

LEMMA MarkedLost ==
  ASSUME Sound, NEW c \in Entries, fat1[c] = Free,
         fat1' = [fat1 EXCEPT ![c] = EOC], dirent' = dirent
  PROVE  Lost' \ {c} \subseteq Lost
<1>1. \A d \in Entries : fat1'[d] = IF d = c THEN EOC ELSE fat1[d]
  BY DEF Sound, Table
<1>2. \A s \in Slots : IsEntry(s)' <=> IsEntry(s)
  BY DEF IsEntry
<1> QED  BY <1>1, <1>2, Numbers DEF Lost, Loose, Linked, Entered

LEMMA LinkedLost ==
  ASSUME Sound, NEW a \in Entries, NEW c \in Entries, fat1[a] \notin Entries,
         fat1[a] # Free, fat1' = [fat1 EXCEPT ![a] = c], dirent' = dirent
  PROVE  Lost' \subseteq Lost \ {c}
<1>1. \A d \in Entries : fat1'[d] = IF d = a THEN c ELSE fat1[d]
  BY DEF Sound, Table
<1>2. \A s \in Slots : IsEntry(s)' <=> IsEntry(s)
  BY DEF IsEntry
<1> QED  BY <1>1, <1>2, Numbers DEF Lost, Loose, Linked, Entered

LEMMA FreedLost ==
  ASSUME Sound, NEW c \in Entries, fat1[c] = EOC,
         fat1' = [fat1 EXCEPT ![c] = Free], dirent' = dirent
  PROVE  Lost' \subseteq Lost \ {c}
<1>1. \A d \in Entries : fat1'[d] = IF d = c THEN Free ELSE fat1[d]
  BY DEF Sound, Table
<1>2. \A s \in Slots : IsEntry(s)' <=> IsEntry(s)
  BY DEF IsEntry
<1> QED  BY <1>1, <1>2, Numbers DEF Lost, Loose, Linked, Entered

LEMMA SlotLost ==
  ASSUME Sound, NEW s \in Slots, NEW e \in Entry, fat1' = fat1,
         dirent' = [dirent EXCEPT ![s] = e],
         IsEntry(s) => dirent[s].first \in {0, e.first}
  PROVE  Lost' \subseteq Lost \ {e.first}
<1>1. \A t \in Slots : dirent'[t] = IF t = s THEN e ELSE dirent[t]
  BY DEF Sound, Catalogue
<1>2. \A t \in Slots : IsEntry(t)' <=> t = s \/ IsEntry(t)
  BY <1>1 DEF IsEntry, Entry
<1> QED  BY <1>1, <1>2, Numbers DEF Lost, Loose, Linked, Entered, Free

LEMMA ClearedLost ==
  ASSUME fat1' = fat1, \A s \in Slots : IsEntry(s) => dirent'[s] = dirent[s]
  PROVE  Lost' \subseteq Lost
<1>1. \A t \in Slots : IsEntry(t) => IsEntry(t)'
  BY DEF IsEntry
<1> QED  BY <1>1 DEF Lost, Loose, Linked, Entered

LEMMA LossStep == IInv /\ LossInv /\ [Next]_vars => LossInv'
<1> SUFFICES ASSUME IInv, LossInv, [Next]_vars PROVE LossInv'
  OBVIOUS
<1> DEFINE Same == UNCHANGED <<crashes, starved>>
<1>1. DirectoriesOnDisk' => DirectoriesOnDisk
  BY OnDiskBefore
<1>2. ASSUME fat1' = fat1, dirent' = dirent, Same, Held \subseteq Held', Short' => Short, StoredOK'
      PROVE  LossInv'
  BY <1>1, <1>2, SameLost, LossKept
<1>3. ASSUME fat1' = fat1, dirent' = dirent, Same, Held = {}, Return
      PROVE  LossInv'
  BY <1>1, <1>3, SameLost, LossReturned
<1>4. Sound /\ pc \in Labels
  BY DEF IInv, DiskOK, MemoryOK, MemoryTyped
<1>5. CASE Command
  <2>1. /\ pc = "idle" /\ fat1' = fat1 /\ dirent' = dirent /\ crashes' = crashes
        /\ pc' \in {"create", "mkdir", "lookup"}
        /\ \/ cmd'.heap = "enough" /\ starved' = starved
           \/ cmd'.heap # "enough" /\ starved' = starved + 1
    <3>1. PICK op \in DOMAIN Start, d \in OpenDirectories, n \in Names,
               heap \in {"enough", "nodes", "none"} : Issue(op, d, n, heap)
      BY <1>5 DEF Command
    <3>2. cmd'.heap = heap
      <4>1. CASE op # "echo"
        BY <3>1, <4>1 DEF Issue, NoCommand
      <4>2. CASE op = "echo"
        BY <3>1, <4>2 DEF Issue
      <4> QED  BY <4>1, <4>2
    <3> QED  BY <3>1, <3>2 DEF Issue, At, disk, Start
  <2>2. (Lost \ Held)' = Lost \ Held /\ ~Short /\ StoredOK'
    <3>1. Held = {} /\ Held' = {}
      BY <2>1 DEF Held, Making, Writing
    <3> QED  BY <2>1, <3>1, SameLost DEF Short, StoredOK
  <2>3. Short' <=> cmd'.heap # "enough"
    BY <2>1 DEF Short
  <2>4. starved \in Nat /\ crashes \in Nat /\ starved' \in Nat
    BY <2>1 DEF LossInv
  <2>5. ASSUME crashes' = 0, DirectoriesOnDisk'
        PROVE  Cardinality((Lost \ Held)') <= IF Short' THEN starved' - 1 ELSE starved'
    <3>1. Cardinality(Lost \ Held) <= starved
      BY <1>1, <2>1, <2>2, <2>5 DEF LossInv
    <3> QED  BY <2>1, <2>2, <2>3, <2>4, <3>1
  <2>6. Short' => starved' > 0
    BY <2>1, <2>3, <2>4
  <2> QED  BY <2>1, <2>2, <2>4, <2>5, <2>6 DEF LossInv
<1>6. CASE Lookup \/ Find
  <2>1. pc \in {"lookup", "find"} /\ Held = {}
    BY <1>6 DEF Lookup, Find, At, Held, Making, Writing
  <2>2. ASSUME NEW s, Open(s)
        PROVE  LossInv'
    <3>1. /\ fat1' = fat1 /\ dirent' = dirent /\ Same /\ cmd' = cmd
          /\ node' = NodeAt(s) /\ pc' \in {"write", "close"}
      BY <2>2 DEF Open, disk, history
    <3>2. StoredOK'
      BY <3>1 DEF StoredOK, NodeAt
    <3> QED  BY <1>2, <2>1, <3>1, <3>2 DEF Short
  <2>3. CASE Return /\ UNCHANGED <<disk, mirror, history>>
    BY <1>3, <2>1, <2>3 DEF disk, history
  <2>4. CASE pc' = "create" /\ UNCHANGED <<disk, memory, mirror, history>>
    BY <1>2, <2>1, <2>4 DEF disk, history, memory, Short, StoredOK
  <2> QED  BY <1>6, <2>2, <2>3, <2>4 DEF Lookup, Find
<1>7. CASE CreateFile
  <2>1. pc = "create" /\ Held = {} /\ fat1' = fat1 /\ Same
    BY <1>7 DEF CreateFile, At, Held, Making, Writing
  <2>2. CASE Return /\ UNCHANGED dirent
    BY <1>3, <2>1, <2>2
  <2>3. CASE CanWriteEntry /\ fat16_write_dir_entry("file", 0) /\ pc' = "find" /\ UNCHANGED memory
    <3>1. \A s \in Slots : IsEntry(s) => dirent'[s] = dirent[s]
      <4>1. FreeSlot(cmd.dir) \in Slots /\ ~IsEntry(FreeSlot(cmd.dir))
        BY <2>1, <2>3, FreeSlotIs DEF CanWriteEntry, IInv, MemoryOK, CommandOK, Commands
      <4> QED  BY <2>3, <4>1 DEF fat16_write_dir_entry, IInv, DiskOK, Sound, Catalogue
    <3>2. Lost' \subseteq Lost
      BY <2>1, <3>1, ClearedLost
    <3>3. (Short' => Short) /\ StoredOK'
      BY <2>1, <2>3 DEF Short, StoredOK, memory
    <3>4. (Lost \ Held)' \subseteq Lost \ Held
      BY <2>1, <3>2
    <3> QED  BY <1>1, <2>1, <3>3, <3>4, LossKept
  <2> QED  BY <1>7, <2>2, <2>3 DEF CreateFile
<1>8. CASE Close
  <2>1. Held = {}
    BY <1>8 DEF Close, At, Held, Making, Writing
  <2> QED  BY <1>3, <1>8, <2>1 DEF Close, disk, history
<1>9. CASE MkdirAlloc
  <2>1. pc = "mkdir" /\ Held = {} /\ dirent' = dirent /\ Same
    BY <1>9 DEF MkdirAlloc, At, Held, Making, Writing
  <2>2. CASE Return /\ UNCHANGED <<fat1, mirror>>
    BY <1>3, <2>1, <2>2
  <2>3. CASE /\ fat_alloc_cluster /\ at' = FirstFree /\ pc' = "zero"
             /\ UNCHANGED <<full, cmd, node, call, hop>>
    <3>1. PICK c \in Entries : c = FirstFree /\ fat1[c] = Free
      BY <2>3, FirstFreeIs DEF fat_alloc_cluster
    <3>2. fat1' = [fat1 EXCEPT ![c] = EOC] /\ at' = c
      BY <2>3, <3>1 DEF fat_alloc_cluster, fat_set_entry
    <3>3. Lost' \ {c} \subseteq Lost
      BY <1>4, <2>1, <3>1, <3>2, MarkedLost
    <3>4. c \in Held'
      BY <2>3, <3>2 DEF Held, Making
    <3>5. (Lost \ Held)' \subseteq Lost \ Held
      BY <2>1, <3>3, <3>4
    <3>6. (Short' => Short) /\ StoredOK'
      BY <2>1, <2>3 DEF Short, StoredOK
    <3> QED  BY <1>1, <2>1, <3>5, <3>6, LossKept
  <2> QED  BY <1>9, <2>2, <2>3 DEF MkdirAlloc
<1>10. CASE MkdirZero
  <2>1. /\ pc = "zero" /\ pc' = "dots" /\ fat1' = fat1 /\ Same
        /\ UNCHANGED <<cmd, node, call, at, hop>>
    BY <1>10 DEF MkdirZero, At, memory, history
  <2>2. Lost' \subseteq Lost
    BY <1>10, <2>1, NothingCleared, ClearedLost
  <2>3. Held' = Held /\ (Short' => Short) /\ StoredOK'
    BY <2>1 DEF Held, Making, Writing, Short, StoredOK
  <2>4. (Lost \ Held)' \subseteq Lost \ Held
    BY <2>2, <2>3
  <2> QED  BY <1>1, <2>1, <2>3, <2>4, LossKept
<1>11. CASE MkdirDots
  <2>1. /\ pc = "dots" /\ pc' = "entry" /\ fat1' = fat1 /\ dirent' = dirent /\ Same
        /\ UNCHANGED <<cmd, node, call, at, hop>>
    BY <1>11 DEF MkdirDots, At, memory, history
  <2>2. Held' = Held /\ (Short' => Short) /\ StoredOK'
    BY <2>1 DEF Held, Making, Writing, Short, StoredOK
  <2> QED  BY <1>2, <2>1, <2>2
<1>12. CASE MkdirEntry
  <2>1. /\ pc = "entry" /\ fat1' = fat1 /\ Same /\ Held = {at}
        /\ UNCHANGED <<cmd, node, call, at, hop>>
    BY <1>12 DEF MkdirEntry, At, memory, Held, Making, Writing
  <2>2. CASE pc' = "free" /\ UNCHANGED dirent
    <3>1. Held' = Held /\ (Short' => Short) /\ StoredOK'
      BY <2>1, <2>2 DEF Held, Making, Writing, Short, StoredOK
    <3> QED  BY <1>2, <2>1, <2>2, <3>1
  <2>3. CASE CanWriteEntry /\ fat16_write_dir_entry("dir", at) /\ pc' = "find"
    <3>1. /\ cmd \in Commands /\ Place(cmd.dir) /\ Loose(at)
      BY <2>1 DEF IInv, MemoryOK, CommandOK, MakeOK, Looking, Making
    <3>2. FreeSlot(cmd.dir) \in Slots /\ ~IsEntry(FreeSlot(cmd.dir))
      BY <2>3, <3>1, FreeSlotIs DEF CanWriteEntry, Commands
    <3>3. PICK s \in Slots, e \in Entry :
            /\ s = FreeSlot(cmd.dir) /\ e.first = at
            /\ e = [kind |-> "dir", name |-> Stored[cmd.name], first |-> at, size |-> 0]
      BY <2>3, <3>1, <3>2, NamesAssumption DEF CanWriteEntry, Commands, Entry, Loose
    <3>4. ASSUME DirectoriesOnDisk
          PROVE  (Lost \ Held)' \subseteq Lost \ Held
      <4>1. cmd.dir \in DataClusters \cup {Root}
        BY <3>1, <3>4 DEF Place, DirectoriesOnDisk
      <4>2. dirent' = [dirent EXCEPT ![s] = e]
        BY <2>3, <3>3, <4>1 DEF fat16_write_dir_entry
      <4>3. Lost' \subseteq Lost \ {e.first}
        BY <1>4, <2>1, <3>2, <3>3, <4>2, SlotLost
      <4> QED  BY <2>1, <3>3, <4>3
    <3>5. (Short' => Short) /\ StoredOK'
      BY <2>1, <2>3 DEF Short, StoredOK
    <3> QED  BY <1>1, <2>1, <3>4, <3>5, LossKept
  <2> QED  BY <1>12, <2>2, <2>3 DEF MkdirEntry
<1>13. CASE fat_free_chain
  <2>1. /\ pc = "free" /\ Held = {at} /\ dirent' = dirent /\ Same
        /\ at \in Entries /\ fat1[at] = EOC
    BY <1>13 DEF fat_free_chain, At, Held, Making, Writing, history, IInv, MemoryOK,
       MakeOK, Loose
  <2>2. fat1' = [fat1 EXCEPT ![at] = Free] /\ Return
    BY <1>13, <2>1, Numbers DEF fat_free_chain, fat_set_entry
  <2>3. Lost' \subseteq Lost \ {at}
    BY <1>4, <2>1, <2>2, FreedLost
  <2> QED  BY <1>1, <2>1, <2>2, <2>3, LossReturned
<1>14. CASE WriteAlloc
  <2>1. /\ pc = "write" /\ dirent' = dirent /\ Same /\ Held = {node.inode}
        /\ UNCHANGED <<cmd, call, at, hop>>
    BY <1>14 DEF WriteAlloc, At, Held, Making, Writing
  <2>2. ASSUME UNCHANGED <<fat1, mirror, node>>, pc' \in {"return", "buffer"}
        PROVE  LossInv'
    <3>1. Held' = Held /\ (Short' => Short) /\ StoredOK'
      BY <2>1, <2>2 DEF Held, Making, Writing, Short, StoredOK, LossInv
    <3> QED  BY <1>2, <2>1, <2>2, <3>1
  <2>3. CASE /\ node.inode = 0 /\ fat_alloc_cluster
             /\ node' = [node EXCEPT !.inode = FirstFree] /\ pc' = "buffer"
    <3>1. PICK c \in Entries : c = FirstFree /\ fat1[c] = Free
      BY <2>3, FirstFreeIs DEF fat_alloc_cluster
    <3>2. fat1' = [fat1 EXCEPT ![c] = EOC] /\ node'.inode = c
      BY <2>3, <3>1 DEF fat_alloc_cluster, fat_set_entry, IInv, MemoryOK, MemoryTyped, Nodes
    <3>3. Lost' \ {c} \subseteq Lost
      BY <1>4, <2>1, <3>1, <3>2, MarkedLost
    <3>4. c \in Held' /\ 0 \notin Lost
      BY <2>3, <3>2, Numbers DEF Held, Writing, Lost, Free
    <3>5. (Lost \ Held)' \subseteq Lost \ Held
      <4>1. (Lost \ Held)' \subseteq Lost' \ {c}
        BY <3>4
      <4> QED  BY <2>1, <2>3, <3>3, <3>4, <4>1, Numbers DEF Lost, Free
    <3>6. (Short' => Short) /\ StoredOK'
      BY <2>1, <2>3 DEF Short, StoredOK
    <3> QED  BY <1>1, <2>1, <3>5, <3>6, LossKept
  <2> QED  BY <1>14, <2>2, <2>3 DEF WriteAlloc
<1>15. CASE WriteBuffer \/ Follow
  <2>1. /\ pc \in {"buffer", "walk"} /\ fat1' = fat1 /\ dirent' = dirent /\ Same
        /\ UNCHANGED <<cmd, node, call>>
        /\ pc' \in {"walk", "return"} /\ (pc' = "return" => cmd.heap # "enough")
    BY <1>15 DEF WriteBuffer, Follow, At, disk, history
  <2>2. Held' = Held /\ (Short' => Short) /\ StoredOK'
    BY <2>1 DEF Held, Making, Writing, Short, StoredOK
  <2> QED  BY <1>2, <2>1, <2>2
<1>16. CASE Extend
  <2>1. /\ pc = "walk" /\ dirent' = dirent /\ Same /\ Held = {node.inode}
        /\ UNCHANGED <<cmd, node, at, hop>>
    BY <1>16 DEF Extend, At, Held, Making, Writing
  <2>2. CASE pc' = "update" /\ UNCHANGED <<fat1, mirror, call>>
    <3>1. Held' = Held /\ (Short' => Short) /\ StoredOK'
      BY <2>1, <2>2 DEF Held, Making, Writing, Short, StoredOK
    <3> QED  BY <1>2, <2>1, <2>2, <3>1
  <2>3. CASE /\ fat_alloc_cluster /\ call' = [call EXCEPT !.nc = FirstFree]
             /\ pc' = "chain"
    <3>1. PICK c \in Entries : c = FirstFree /\ fat1[c] = Free
      BY <2>3, FirstFreeIs DEF fat_alloc_cluster
    <3>2. fat1' = [fat1 EXCEPT ![c] = EOC] /\ call'.nc = c
      BY <2>3, <3>1 DEF fat_alloc_cluster, fat_set_entry, IInv, MemoryOK, MemoryTyped
    <3>3. Lost' \ {c} \subseteq Lost
      BY <1>4, <2>1, <3>1, <3>2, MarkedLost
    <3>4. Held' = {node.inode, c}
      BY <2>1, <2>3, <3>2 DEF Held, Making, Writing
    <3>5. (Lost \ Held)' \subseteq Lost \ Held
      BY <2>1, <3>3, <3>4
    <3>6. (Short' => Short) /\ StoredOK'
      BY <2>1, <2>3 DEF Short, StoredOK
    <3> QED  BY <1>1, <2>1, <3>5, <3>6, LossKept
  <2> QED  BY <1>16, <2>2, <2>3 DEF Extend
<1>17. CASE Chain
  <2>1. /\ pc = "chain" /\ pc' = "walk" /\ dirent' = dirent /\ Same
        /\ UNCHANGED <<cmd, node, call>>
        /\ fat1[at] \notin Entries /\ fat1[at] # Free /\ at \in Entries
        /\ fat1' = [fat1 EXCEPT ![at] = call.nc]
    BY <1>17 DEF Chain, At, fat_set_entry, history, IInv, MemoryOK, ChainOK, WalkOK
  <2>2. PICK c \in Entries : c = call.nc
    BY <2>1 DEF IInv, MemoryOK, ChainOK, Loose
  <2>3. Lost' \subseteq Lost \ {c}
    BY <1>4, <2>1, <2>2, LinkedLost
  <2>4. Held = {node.inode, c} /\ Held' = {node.inode}
    BY <2>1, <2>2 DEF Held, Making, Writing
  <2>5. (Lost \ Held)' \subseteq Lost \ Held
    BY <2>3, <2>4
  <2>6. (Short' => Short) /\ StoredOK'
    BY <2>1 DEF Short, StoredOK
  <2> QED  BY <1>1, <2>1, <2>5, <2>6, LossKept
<1>18. CASE Patch
  <2>1. /\ pc = "walk" /\ pc' \in {"walk", "update"} /\ fat1' = fat1 /\ dirent' = dirent
        /\ Same /\ UNCHANGED <<cmd, node>>
    BY <1>18 DEF Patch, At, history
  <2>2. Held' = Held /\ (Short' => Short) /\ StoredOK'
    BY <2>1 DEF Held, Making, Writing, Short, StoredOK
  <2> QED  BY <1>2, <2>1, <2>2
<1>19. CASE UpdateEntry
  <2>1. /\ pc = "update" /\ pc' = "return" /\ fat1' = fat1 /\ Same /\ cmd' = cmd
        /\ node' = [node EXCEPT !.size = NewSize] /\ node \in Nodes
    BY <1>19 DEF UpdateEntry, At, history, IInv, MemoryOK, MemoryTyped
  <2>2. /\ node.slot \in Slots /\ IsEntry(node.slot)
        /\ dirent[node.slot].first \in {0, node.inode}
    BY <2>1 DEF IInv, MemoryOK, OpenOK, Writing, IsEntry
  <2> DEFINE e == [dirent[node.slot] EXCEPT !.first = node.inode, !.size = NewSize]
  <2>3. dirent[node.slot] \in Entry /\ dirent[node.slot].kind = "file"
    BY <2>1, <2>2, EntryIs DEF IInv, DiskOK, Sound, MemoryOK, OpenOK, Writing
  <2>4. NewSize \in Nat
    BY DEF IInv, MemoryOK, MemoryTyped, Calls, NewSize, cur_off, Nodes
  <2>5. e \in Entry /\ e.first = node.inode
    BY <2>1, <2>3, <2>4 DEF Entry, Nodes
  <2>6. PICK s \in Slots, f \in Entry : s = node.slot /\ f = e
    BY <2>2, <2>5
  <2>7. dirent' = [dirent EXCEPT ![s] = f]
    BY <1>19, <2>6 DEF UpdateEntry, IInv, DiskOK, Sound, Catalogue
  <2> HIDE DEF e
  <2>8. Lost' \subseteq Lost
    BY <1>4, <2>1, <2>2, <2>5, <2>6, <2>7, SlotLost
  <2>9. node'.slot = s /\ node'.inode = node.inode /\ f.first = node.inode
    BY <2>1, <2>5, <2>6 DEF Nodes
  <2>10. Held' = Held /\ (Short' => Short) /\ StoredOK'
    BY <1>4, <2>1, <2>7, <2>9
       DEF Held, Making, Writing, Short, StoredOK, Sound, Catalogue
  <2>11. (Lost \ Held)' \subseteq Lost \ Held
    BY <2>8, <2>10
  <2> QED  BY <1>1, <2>1, <2>10, <2>11, LossKept
<1>20. CASE WriteReturns
  <2>1. pc = "return" /\ fat1' = fat1 /\ dirent' = dirent /\ Same /\ Held = {node.inode}
    BY <1>20 DEF WriteReturns, At, disk, history, Held, Making, Writing
  <2>2. CASE pc' = "write" /\ UNCHANGED <<cmd, node>>
    <3>1. Held' = Held /\ (Short' => Short) /\ StoredOK'
      BY <2>1, <2>2 DEF Held, Making, Writing, Short, StoredOK, LossInv
    <3> QED  BY <1>2, <2>1, <2>2, <3>1
  <2>3. CASE Return
    <3>1. Lost' \subseteq (Lost \ Held) \cup {node.inode}
      BY <2>1, SameLost
    <3>2. ASSUME ~Short
          PROVE  Lost' \subseteq Lost \ Held
      <4>1. dirent[node.slot].first = node.inode
        BY <2>1, <3>2 DEF Short, LossInv, StoredOK
      <4>2. node.slot \in Slots /\ IsEntry(node.slot)
        BY <2>1 DEF IInv, MemoryOK, OpenOK, Writing, IsEntry
      <4>3. node.inode \notin Lost
        BY <4>1, <4>2 DEF Lost, Loose, Entered
      <4> QED  BY <2>1, <4>3, SameLost
    <3> QED  BY <1>1, <2>1, <2>3, <3>1, <3>2, LossReturned
  <2> QED  BY <1>20, <2>2, <2>3 DEF WriteReturns
<1>21. CASE Mirror \/ UNCHANGED vars
  <2>1. /\ fat1' = fat1 /\ dirent' = dirent /\ Same /\ pc' = pc
        /\ UNCHANGED <<cmd, node, call, at, hop>>
    BY <1>21 DEF Mirror, vars, disk, memory, history
  <2>2. Held' = Held /\ (Short' => Short) /\ StoredOK'
    BY <2>1 DEF Held, Making, Writing, Short, StoredOK, LossInv
  <2> QED  BY <1>2, <2>1, <2>2
<1>22. CASE Crash
  <2>1. crashes \in Nat /\ starved \in Nat /\ crashes' = crashes + 1 /\ starved' = starved
        /\ pc' = "idle"
    BY <1>22 DEF Crash, Return, LossInv
  <2>2. crashes' \in Nat /\ crashes' # 0
    BY <2>1
  <2> QED  BY <2>1, <2>2 DEF LossInv, Short, StoredOK
<1> QED  BY <1>5, <1>6, <1>7, <1>8, <1>9, <1>10, <1>11, <1>12, <1>13, <1>14, <1>15, <1>16,
            <1>17, <1>18, <1>19, <1>20, <1>21, <1>22 DEF Next, Step

-----------------------------------------------------------------------------
Inductive == IInv /\ CopiesInv /\ LossInv

LEMMA InitInductive == Init => Inductive
<1> SUFFICES ASSUME Init PROVE Inductive
  OBVIOUS
<1>1. pc = "idle" /\ mirror = {} /\ crashes = 0 /\ starved = 0 /\ fat2 = fat1
  BY DEF Init
<1>2. Differ = {} /\ Lost = {}
  BY <1>1 DEF Init, Differ, Lost, Loose
<1>3. Cardinality({}) = 0
  BY FS_EmptySet
<1>4. Differ \ Pending = {} /\ Lost \ Held = {}
  BY <1>2
<1> QED  BY <1>1, <1>3, <1>4, InitInv DEF Inductive, CopiesInv, LossInv, Short, StoredOK

LEMMA Invariance == Spec => []Inductive
<1>1. Inductive /\ [Next]_vars => Inductive'
  BY StepInv, CopiesStep, LossStep DEF Inductive
<1> QED  BY <1>1, InitInductive, PTL DEF Spec

(* What the variables hold at every moment, crashes included.               *)
THEOREM TypeCorrect == Spec => []TypeOK
<1>1. Inductive => TypeOK
  BY IInvImplies DEF Inductive
<1> QED  BY <1>1, Invariance, PTL

(* No cluster belongs to two chains, two entries, or a chain and an entry,  *)
(* at whichever of its sector writes power fails: fat_alloc_cluster hands   *)
(* out what the table says is free, and nothing that is referred to is.     *)
THEOREM ClustersOwnedOnce == Spec => []OwnedOnce
<1>1. Inductive => OwnedOnce
  BY IInvImplies DEF Inductive
<1> QED  BY <1>1, Invariance, PTL

(* What an entry or a link refers to is marked as used: fat16_vfs_write     *)
(* marks before it links and fat16_vfs_mkdir frees only what has no entry.  *)
THEOREM LinksAlwaysLive == Spec => []LinksLive
<1>1. Inductive => LinksLive
  BY IInvImplies DEF Inductive
<1> QED  BY <1>1, Invariance, PTL

(* The cluster of a directory holds what mkdir wrote, and fat16_vfs_write   *)
(* never writes to it: stale data is never taken for entries.               *)
THEOREM DirectoriesAlwaysInitialised == Spec => []DirectoriesInitialised
<1>1. Inductive => DirectoriesInitialised
  BY IInvImplies DEF Inductive
<1> QED  BY <1>1, Invariance, PTL

(* The two copies of the table differ in no more entries than power failed  *)
(* times, and in the one fat_set_entry is writing.                          *)
THEOREM CopiesAlwaysAgree == Spec => []CopiesAgree
<1>1. Inductive => CopiesAgree
  <2> SUFFICES ASSUME Inductive PROVE CopiesAgree
    OBVIOUS
  <2>1. CopiesInv /\ Differ \in SUBSET Entries /\ (Differ \ Pending) \in SUBSET Entries
    BY DEF Inductive, Differ
  <2>2. /\ Cardinality(Differ) \in Nat /\ Cardinality(Differ \ Pending) \in Nat
        /\ crashes \in Nat /\ Cardinality(Differ \ Pending) <= crashes
    BY <2>1, FiniteEntries DEF CopiesInv
  <2>3. CASE mirror = {}
    <3>1. Differ \ Pending = Differ /\ Cardinality(mirror) = 0
      BY <2>3, FS_EmptySet DEF Pending
    <3> QED  BY <2>2, <3>1 DEF CopiesAgree, Differ
  <2>4. ASSUME NEW c \in Entries, mirror = {<<c, fat1[c]>>}
        PROVE  CopiesAgree
    <3>1. Cardinality(mirror) = 1
      BY <2>4, FS_Singleton
    <3>2. Differ \subseteq (Differ \ Pending) \cup {c}
      BY <2>4 DEF Pending
    <3>3. Cardinality(Differ) <= Cardinality(Differ \ Pending) + 1
      BY <2>1, <3>2, OneMore
    <3> QED  BY <2>2, <3>1, <3>3 DEF CopiesAgree, Differ
  <2> QED  BY <2>1, <2>3, <2>4 DEF CopiesInv
<1> QED  BY <1>1, Invariance, PTL

(* Without a crash, and with every directory in a cluster of the disk, a    *)
(* command loses no cluster unless the heap is short, and then one.         *)
THEOREM LossAlwaysBounded == Spec => []LossBounded
<1>1. Inductive => LossBounded
  <2> SUFFICES ASSUME Inductive, pc = "idle", crashes = 0, DirectoriesOnDisk
               PROVE  Cardinality({c \in Entries : fat1[c] # Free /\ c \notin Referenced})
                        <= starved
    BY DEF LossBounded
  <2>1. {c \in Entries : fat1[c] # Free /\ c \notin Referenced} = Lost
    BY DEF Lost, Loose, Linked, Entered, Referenced
  <2>2. Lost \ Held = Lost /\ ~Short
    BY DEF Held, Making, Writing, Short
  <2> QED  BY <2>1, <2>2 DEF Inductive, LossInv
<1> QED  BY <1>1, Invariance, PTL

(* No step, mkdir's zeroing of a cluster included, removes, renames or      *)
(* moves an entry of a file or directory, and only the file a command has   *)
(* open gets another first cluster or size.                                 *)
THEOREM EntriesAlwaysStay == Spec => [][EntriesStay]_vars
<1>1. Inductive /\ [Next]_vars => [EntriesStay]_vars
  BY EntriesStayStep DEF Inductive
<1> QED  BY <1>1, Invariance, PTL DEF Spec

-----------------------------------------------------------------------------
(* Following a chain.  Nth is defined by recursion on a finite interval;    *)
(* here it gets its two equations, for whichever table t is followed.       *)

IsWalk(w, t, first, n) ==
  w = [i \in 0 .. n |-> IF i = 0 THEN first
                        ELSE IF w[i - 1] \in Entries THEN t[w[i - 1]] ELSE EOC]
NthIn(t, first, n) ==
  LET nth[i \in 0 .. n] ==
        IF i = 0 THEN first
        ELSE IF nth[i - 1] \in Entries THEN t[nth[i - 1]] ELSE EOC
  IN nth[n]

(* A chain can be followed as far as wanted.                                *)
LEMMA WalkExists ==
  ASSUME NEW t, NEW first, NEW n \in Nat
  PROVE  \E w : IsWalk(w, t, first, n)
<1> DEFINE S == {m \in Nat : ~\E w : IsWalk(w, t, first, m)}
<1> SUFFICES ASSUME S # {} PROVE FALSE
  OBVIOUS
<1>1. PICK m \in S : \A l \in S : m <= l
  <2>1. S \subseteq Nat
    OBVIOUS
  <2> HIDE DEF S
  <2> QED BY <2>1, Smallest
<1>2. CASE m = 0
  <2>1. IsWalk([i \in 0 .. 0 |-> first], t, first, 0)
    BY DEF IsWalk
  <2> QED BY <1>2, <2>1
<1>3. CASE m # 0
  <2>1. m - 1 \in Nat /\ m - 1 \notin S
    BY <1>1, <1>3
  <2>2. PICK w : IsWalk(w, t, first, m - 1)
    BY <2>1
  <2> DEFINE v == [i \in 0 .. m |->
               IF i = 0 THEN first
               ELSE IF w[i - 1] \in Entries THEN t[w[i - 1]] ELSE EOC]
  <2>3. \A i \in 0 .. m - 1 : v[i] = w[i]
    BY <1>1, <2>2 DEF IsWalk
  <2>4. v = [i \in 0 .. m |-> IF i = 0 THEN first
                              ELSE IF v[i - 1] \in Entries THEN t[v[i - 1]] ELSE EOC]
    <3>1. \A i \in 0 .. m : i # 0 => i - 1 \in 0 .. m - 1 /\ v[i - 1] = w[i - 1]
      BY <1>1, <2>3
    <3> QED BY <3>1
  <2> HIDE DEF v
  <2>5. IsWalk(v, t, first, m)
    BY <2>4 DEF IsWalk
  <2> QED BY <1>1, <2>5
<1> QED BY <1>2, <1>3

(* However far it is followed, it leads through the same clusters.          *)
LEMMA WalksAgree ==
  ASSUME NEW t, NEW first, NEW n \in Nat, NEW m \in Nat, n <= m,
         NEW v, IsWalk(v, t, first, n), NEW w, IsWalk(w, t, first, m)
  PROVE  \A i \in 0 .. n : v[i] = w[i]
<1> DEFINE S == {i \in 0 .. n : v[i] # w[i]}
<1> SUFFICES ASSUME S # {} PROVE FALSE
  OBVIOUS
<1>1. PICK i \in S : \A j \in S : i <= j
  <2>1. S \subseteq Nat
    OBVIOUS
  <2> HIDE DEF S
  <2> QED BY <2>1, Smallest
<1>2. /\ v[i] = IF i = 0 THEN first
                ELSE IF v[i - 1] \in Entries THEN t[v[i - 1]] ELSE EOC
      /\ w[i] = IF i = 0 THEN first
                ELSE IF w[i - 1] \in Entries THEN t[w[i - 1]] ELSE EOC
  <2>1. i \in 0 .. n /\ i \in 0 .. m
    BY <1>1
  <2> QED BY <2>1 DEF IsWalk
<1>3. i # 0 => v[i - 1] = w[i - 1]
  <2>1. i # 0 => i - 1 \in 0 .. n /\ i - 1 \notin S
    BY <1>1
  <2> QED BY <2>1
<1> QED BY <1>1, <1>2, <1>3

LEMMA NthIsWalk ==
  ASSUME NEW t, NEW first, NEW n \in Nat
  PROVE  \E w : IsWalk(w, t, first, n) /\ NthIn(t, first, n) = w[n]
<1> DEFINE Eq(w) == w = [i \in 0 .. n |-> IF i = 0 THEN first
                        ELSE IF w[i - 1] \in Entries THEN t[w[i - 1]] ELSE EOC]
<1>1. \E w : Eq(w)
  <2>1. PICK w : IsWalk(w, t, first, n)
    BY WalkExists
  <2>2. Eq(w)
    BY <2>1 DEF IsWalk
  <2> HIDE DEF Eq
  <2> QED BY <2>2
<1> DEFINE c == CHOOSE w : Eq(w)
<1>2. Eq(c)
  <2> HIDE DEF Eq
  <2> QED BY <1>1
<1>3. NthIn(t, first, n) = c[n]
  BY DEF NthIn
<1>4. IsWalk(c, t, first, n)
  <2> HIDE DEF c
  <2> QED BY <1>2 DEF IsWalk
<1> HIDE DEF c
<1> QED BY <1>3, <1>4

LEMMA NthZero ==
  ASSUME NEW t, NEW first
  PROVE  NthIn(t, first, 0) = first
<1>1. PICK w : IsWalk(w, t, first, 0) /\ NthIn(t, first, 0) = w[0]
  BY NthIsWalk
<1> QED BY <1>1 DEF IsWalk

LEMMA NthNext ==
  ASSUME NEW t, NEW first, NEW n \in Nat
  PROVE  NthIn(t, first, n + 1) =
           IF NthIn(t, first, n) \in Entries THEN t[NthIn(t, first, n)] ELSE EOC
<1>1. PICK v : IsWalk(v, t, first, n) /\ NthIn(t, first, n) = v[n]
  BY NthIsWalk
<1>2. PICK w : IsWalk(w, t, first, n + 1) /\ NthIn(t, first, n + 1) = w[n + 1]
  BY NthIsWalk
<1>3. v[n] = w[n]
  BY <1>1, <1>2, WalksAgree
<1>4. w[n + 1] = IF w[n] \in Entries THEN t[w[n]] ELSE EOC
  BY <1>2 DEF IsWalk
<1> QED BY <1>1, <1>2, <1>3, <1>4

NthOf(t, e, k) == NthIn(t, e.first, k \div ClusterSize)
ContentsIn(t, e, d) ==
  [k \in 0 .. e.size - 1 |->
     IF NthOf(t, e, k) \in Entries THEN d[NthOf(t, e, k)][k % ClusterSize] ELSE Junk]

LEMMA NthIs ==
  ASSUME NEW first, NEW n
  PROVE  Nth(first, n) = NthIn(fat1, first, n)
BY DEF Nth, NthIn

LEMMA ContentsAre ==
  ASSUME NEW s
  PROVE  /\ ContentsOf(s) = ContentsIn(fat1, dirent[s], data)
         /\ ContentsOf(s)' = ContentsIn(fat1', dirent'[s], data')
<1>1. ContentsOf(s) = ContentsIn(fat1, dirent[s], data)
BY DEF ContentsOf, ContentsIn, NthOf, UnitAt, ClusterOf, Nth, NthIn
<1>2. ContentsOf(s)' = ContentsIn(fat1', dirent'[s], data')
BY DEF ContentsOf, ContentsIn, NthOf, UnitAt, ClusterOf, Nth, NthIn
<1> QED BY <1>1, <1>2


(* Links that change only where a chain ends leave every cluster at its     *)
(* place in its chain.                                                      *)
LEMMA PlacesKept ==
  ASSUME NEW t, NEW u, \A c \in Entries : t[c] \in Entries => u[c] = t[c],
         NEW first, NEW n \in Nat, NthIn(t, first, n) \in Entries
  PROVE  NthIn(u, first, n) = NthIn(t, first, n)
<1> DEFINE S == {m \in Nat : NthIn(t, first, m) \in Entries
                             /\ NthIn(u, first, m) # NthIn(t, first, m)}
<1> SUFFICES ASSUME S # {} PROVE FALSE
  OBVIOUS
<1>1. PICK m \in S : \A l \in S : m <= l
  <2>1. S \subseteq Nat
    OBVIOUS
  <2> HIDE DEF S
  <2> QED BY <2>1, Smallest
<1>2. m # 0
  BY <1>1, NthZero
<1>3. PICK l \in Nat : m = l + 1
  <2>1. m - 1 \in Nat /\ m = m - 1 + 1
    BY <1>1, <1>2
  <2> QED BY <2>1
<1>4. NthIn(t, first, l) \in Entries /\ NthIn(t, first, m) = t[NthIn(t, first, l)]
  BY <1>1, <1>3, NthNext, Numbers
<1>5. NthIn(u, first, l) = NthIn(t, first, l)
  BY <1>1, <1>3, <1>4
<1>6. NthIn(u, first, m) = u[NthIn(u, first, l)]
  BY <1>3, <1>4, <1>5, NthNext
<1> QED BY <1>1, <1>4, <1>5, <1>6

(* A chain none of whose links changes is the same chain.                   *)
LEMMA ChainSame ==
  ASSUME NEW t, NEW u, NEW first,
         \A n \in Nat : NthIn(t, first, n) \in Entries =>
           u[NthIn(t, first, n)] = t[NthIn(t, first, n)],
         NEW n \in Nat
  PROVE  NthIn(u, first, n) = NthIn(t, first, n)
<1> DEFINE S == {m \in Nat : NthIn(u, first, m) # NthIn(t, first, m)}
<1> SUFFICES ASSUME S # {} PROVE FALSE
  OBVIOUS
<1>1. PICK m \in S : \A l \in S : m <= l
  <2>1. S \subseteq Nat
    OBVIOUS
  <2> HIDE DEF S
  <2> QED BY <2>1, Smallest
<1>2. m # 0
  BY <1>1, NthZero
<1>3. PICK l \in Nat : m = l + 1
  <2>1. m - 1 \in Nat /\ m = m - 1 + 1
    BY <1>1, <1>2
  <2> QED BY <2>1
<1>4. NthIn(u, first, l) = NthIn(t, first, l)
  BY <1>1, <1>3
<1> QED BY <1>1, <1>3, <1>4, NthNext

(* What comes before a cluster of a chain is a cluster.                     *)
LEMMA NoGaps ==
  ASSUME NEW t, NEW first, NEW n \in Nat, NthIn(t, first, n) \in Entries,
         NEW m \in Nat, m <= n
  PROVE  NthIn(t, first, m) \in Entries
<1> DEFINE S == {d \in Nat : d <= n /\ NthIn(t, first, n - d) \notin Entries}
<1>1. S = {}
  <2> SUFFICES ASSUME S # {} PROVE FALSE
    OBVIOUS
  <2>1. PICK d \in S : \A e \in S : d <= e
    <3>1. S \subseteq Nat
      OBVIOUS
    <3> HIDE DEF S
    <3> QED BY <3>1, Smallest
  <2>2. d # 0
    BY <2>1
  <2>3. d - 1 \in Nat /\ d - 1 \notin S /\ n - d \in Nat /\ n - (d - 1) = (n - d) + 1
    BY <2>1, <2>2
  <2>4. NthIn(t, first, (n - d) + 1) \in Entries
    BY <2>1, <2>3
  <2> QED BY <2>1, <2>3, <2>4, NthNext, Numbers
<1>2. n - m \in Nat /\ n - (n - m) = m /\ n - m <= n
  OBVIOUS
<1> QED BY <1>1, <1>2

(* A chain whose clusters have one link each to them, its first none, does  *)
(* not meet itself.                                                         *)
LEMMA NoRepeat ==
  ASSUME NEW t, NEW first,
         \A c, d \in Entries : t[c] \in Entries /\ t[c] = t[d] => c = d,
         \A c \in Entries : t[c] \in Entries => t[c] # first,
         NEW m \in Nat, NEW n \in Nat, NthIn(t, first, m) \in Entries,
         NthIn(t, first, m) = NthIn(t, first, n)
  PROVE  m = n
<1> DEFINE S == {i \in Nat : \E j \in Nat : /\ i < j /\ NthIn(t, first, i) \in Entries
                                           /\ NthIn(t, first, i) = NthIn(t, first, j)}
<1>1. S = {}
  <2> SUFFICES ASSUME S # {} PROVE FALSE
    OBVIOUS
  <2>1. PICK i \in S : \A k \in S : i <= k
    <3>1. S \subseteq Nat
      OBVIOUS
    <3> HIDE DEF S
    <3> QED BY <3>1, Smallest
  <2>2. PICK j \in Nat : /\ i < j /\ NthIn(t, first, i) \in Entries
                         /\ NthIn(t, first, i) = NthIn(t, first, j)
    BY <2>1
  <2>3. PICK l \in Nat : j = l + 1
    <3>1. j - 1 \in Nat /\ j = j - 1 + 1
      BY <2>1, <2>2
    <3> QED BY <3>1
  <2>4. NthIn(t, first, l) \in Entries /\ NthIn(t, first, j) = t[NthIn(t, first, l)]
    BY <2>2, <2>3, NthNext, Numbers
  <2>5. i # 0
    BY <2>2, <2>4, NthZero
  <2>6. PICK k \in Nat : i = k + 1
    <3>1. i - 1 \in Nat /\ i = i - 1 + 1
      BY <2>1, <2>5
    <3> QED BY <3>1
  <2>7. NthIn(t, first, k) \in Entries /\ NthIn(t, first, i) = t[NthIn(t, first, k)]
    BY <2>2, <2>6, NthNext, Numbers
  <2>8. NthIn(t, first, k) = NthIn(t, first, l)
    BY <2>2, <2>4, <2>7
  <2>9. k < l /\ k < i
    BY <2>2, <2>3, <2>6
  <2>10. k \in S
    BY <2>7, <2>8, <2>9
  <2> QED BY <2>1, <2>9, <2>10
<1>2. ~(m < n)
  BY <1>1
<1>3. ~(n < m)
  BY <1>1
<1> QED BY <1>2, <1>3


-----------------------------------------------------------------------------
(* A command leaves every other file as it is.                              *)

OnChain(t, first, c) == c \in Entries /\ \E n \in Nat : NthIn(t, first, n) = c

(* Where a write has got to is on no other entry's chain.                   *)
ApartOK ==
  pc \in {"walk", "chain"} =>
    \A s \in Slots : IsEntry(s) /\ s # node.slot => ~OnChain(fat1, dirent[s].first, at)

(* A cluster on an entry's chain is in use, and referred to.                *)
LEMMA OnChainIs ==
  ASSUME Sound, NEW s \in Slots, IsEntry(s), NEW c, OnChain(fat1, dirent[s].first, c)
  PROVE  /\ fat1[c] # Free /\ ~Loose(c)
         /\ \/ c = dirent[s].first
            \/ \E d \in Entries : fat1[d] = c /\ OnChain(fat1, dirent[s].first, d)
<1>1. PICK n \in Nat : NthIn(fat1, dirent[s].first, n) = c
  BY DEF OnChain
<1>2. c \in Entries /\ c # 0
  BY Numbers DEF OnChain
<1>3. CASE n = 0
  <2>1. c = dirent[s].first
    BY <1>1, <1>3, NthZero
  <2> QED BY <1>2, <2>1 DEF Sound, Live, Loose, Entered
<1>4. CASE n # 0
  <2>1. PICK l \in Nat : n = l + 1
    <3>1. n - 1 \in Nat /\ n = n - 1 + 1
      BY <1>4
    <3> QED BY <3>1
  <2>2. PICK d \in Entries : d = NthIn(fat1, dirent[s].first, l) /\ c = fat1[d]
    BY <1>1, <1>2, <2>1, NthNext, Numbers
  <2>3. OnChain(fat1, dirent[s].first, d)
    BY <2>2 DEF OnChain
  <2> QED BY <1>2, <2>2, <2>3 DEF Sound, Live, Loose, Linked
<1> QED BY <1>3, <1>4

(* The first cluster of the open file is on no other entry's chain, and     *)
(* what follows a cluster that is on none is on none.                       *)
LEMMA HeadApart ==
  ASSUME IInv, pc \in Writing, node.inode # 0,
         NEW s \in Slots, IsEntry(s), s # node.slot
  PROVE  ~OnChain(fat1, dirent[s].first, node.inode)
<1> SUFFICES ASSUME OnChain(fat1, dirent[s].first, node.inode) PROVE FALSE
  OBVIOUS
<1>1. Sound /\ node.inode \in Entries
  BY DEF IInv, DiskOK, OnChain
<1>2. /\ ~Loose(node.inode)
      /\ \/ node.inode = dirent[s].first
         \/ \E d \in Entries : fat1[d] = node.inode
  BY <1>1, OnChainIs
<1>3. /\ node.slot \in Slots /\ IsEntry(node.slot)
      /\ dirent[node.slot].first = node.inode
  BY <1>2 DEF IInv, MemoryOK, OpenOK, IsEntry
<1> QED BY <1>1, <1>2, <1>3 DEF Sound, OwnedOnce

LEMMA NextApart ==
  ASSUME Sound, NEW c \in Entries, fat1[c] \in Entries, NEW s \in Slots, IsEntry(s),
         ~OnChain(fat1, dirent[s].first, c)
  PROVE  ~OnChain(fat1, dirent[s].first, fat1[c])
<1> SUFFICES ASSUME OnChain(fat1, dirent[s].first, fat1[c]) PROVE FALSE
  OBVIOUS
<1>1. PICK x \in Entries : x = fat1[c]
  OBVIOUS
<1>2. \/ x = dirent[s].first
      \/ \E d \in Entries : fat1[d] = x /\ OnChain(fat1, dirent[s].first, d)
  BY <1>1, OnChainIs
<1> QED BY <1>1, <1>2 DEF Sound, OwnedOnce

(* A step changes no link and no unit of another entry's chain.             *)
LEMMA OthersStep ==
  ASSUME IInv, ApartOK, [Next]_vars, NEW s \in Slots, IsEntry(s), s # node.slot,
         NEW c, OnChain(fat1, dirent[s].first, c)
  PROVE  fat1'[c] = fat1[c] /\ data'[c] = data[c]
<1>1. /\ c \in Entries /\ fat1[c] # Free /\ ~Loose(c)
      /\ fat1 \in Table /\ data \in [Entries -> Contents]
  BY OnChainIs DEF OnChain, IInv, DiskOK, Sound
<1>2. CASE UNCHANGED <<fat1, data>>
  BY <1>2
<1>3. CASE Command \/ Lookup \/ CreateFile \/ Find \/ Close \/ MkdirEntry \/ WriteBuffer
           \/ Follow \/ UpdateEntry \/ WriteReturns \/ Mirror \/ Crash \/ UNCHANGED vars
  BY <1>2, <1>3 DEF Command, Issue, Lookup, CreateFile, Find, Close, MkdirEntry,
     WriteBuffer, Follow, UpdateEntry, WriteReturns, Mirror, Crash, Open, vars, disk
<1>4. CASE MkdirAlloc \/ WriteAlloc \/ Extend
  <2>1. data' = data /\ (fat1' = fat1 \/ fat_alloc_cluster)
    BY <1>4 DEF MkdirAlloc, WriteAlloc, Extend
  <2>2. CASE fat_alloc_cluster
    <3>1. PICK f \in Entries : f = FirstFree /\ fat1[f] = Free
      BY <2>2, FirstFreeIs DEF fat_alloc_cluster
    <3>2. fat1' = [fat1 EXCEPT ![f] = EOC]
      BY <2>2, <3>1 DEF fat_alloc_cluster, fat_set_entry
    <3> QED BY <1>1, <2>1, <3>1, <3>2 DEF Table
  <2> QED BY <2>1, <2>2
<1>5. CASE MkdirZero \/ MkdirDots \/ fat_free_chain
  <2>1. Loose(at)
    BY <1>5 DEF MkdirZero, MkdirDots, fat_free_chain, At, IInv, MemoryOK, MakeOK, Making
  <2>2. c # at
    BY <1>1, <2>1
  <2>3. CASE fat_free_chain
    BY <1>1, <2>2, <2>3 DEF fat_free_chain, fat_set_entry, Table
  <2>4. CASE MkdirZero \/ MkdirDots
    BY <1>1, <2>2, <2>4 DEF MkdirZero, MkdirDots, WriteCluster
  <2> QED BY <1>5, <2>3, <2>4
<1>6. CASE Chain
  <2>1. c # at
    BY <1>6 DEF Chain, At, ApartOK
  <2> QED BY <1>1, <1>6, <2>1 DEF Chain, fat_set_entry, Table
<1>7. CASE Patch
  <2>1. c # at
    BY <1>7 DEF Patch, At, ApartOK
  <2> QED BY <1>1, <1>7, <2>1 DEF Patch, WriteCluster
<1> QED BY <1>3, <1>4, <1>5, <1>6, <1>7 DEF Next, Step

(* So its chain leads through the same clusters.                            *)
LEMMA OthersChain ==
  ASSUME IInv, ApartOK, [Next]_vars, NEW s \in Slots, IsEntry(s), s # node.slot,
         NEW n \in Nat
  PROVE  NthIn(fat1', dirent[s].first, n) = NthIn(fat1, dirent[s].first, n)
<1> DEFINE first == dirent[s].first
<1>1. \A m \in Nat : NthIn(fat1, first, m) \in Entries =>
        fat1'[NthIn(fat1, first, m)] = fat1[NthIn(fat1, first, m)]
  <2> SUFFICES ASSUME NEW m \in Nat, NthIn(fat1, first, m) \in Entries
               PROVE  fat1'[NthIn(fat1, first, m)] = fat1[NthIn(fat1, first, m)]
    OBVIOUS
  <2>1. OnChain(fat1, first, NthIn(fat1, first, m))
    BY DEF OnChain
  <2> QED BY <2>1, OthersStep
<1> HIDE DEF first
<1>2. NthIn(fat1', first, n) = NthIn(fat1, first, n)
  BY <1>1, ChainSame
<1> QED BY <1>2 DEF first


LEMMA ApartStep == IInv /\ ApartOK /\ [Next]_vars => ApartOK'
<1> SUFFICES ASSUME IInv, ApartOK, [Next]_vars, pc' \in {"walk", "chain"}
             PROVE  \A s \in Slots : IsEntry(s)' /\ s # node'.slot =>
                      ~OnChain(fat1', dirent'[s].first, at')
  BY DEF ApartOK, OnChain, NthIn
<1>1. ASSUME dirent' = dirent, node' = node, pc \in Writing, at' \notin {0},
             \A s \in Slots : IsEntry(s) /\ s # node.slot =>
               ~OnChain(fat1, dirent[s].first, at')
      PROVE  \A s \in Slots : IsEntry(s)' /\ s # node'.slot =>
               ~OnChain(fat1', dirent'[s].first, at')
  <2> SUFFICES ASSUME NEW s \in Slots, IsEntry(s), s # node.slot,
                      OnChain(fat1', dirent[s].first, at')
               PROVE  FALSE
    BY <1>1 DEF IsEntry
  <2>1. OnChain(fat1, dirent[s].first, at')
    BY OthersChain DEF OnChain
  <2> QED BY <1>1, <2>1
<1>2. CASE \/ Lookup \/ CreateFile \/ Find \/ Close \/ MkdirAlloc \/ MkdirZero
           \/ MkdirDots \/ MkdirEntry \/ fat_free_chain \/ WriteAlloc \/ UpdateEntry
           \/ WriteReturns \/ Crash \/ Command
  <2>1. CASE Command
    <3>1. pc' \in {"create", "mkdir", "lookup"}
      BY <2>1 DEF Command, Issue, Start
    <3> QED BY <3>1
  <2>2. CASE Lookup \/ CreateFile \/ Find \/ Close \/ MkdirAlloc \/ Crash
    BY <2>2 DEF Lookup, CreateFile, Find, Close, MkdirAlloc, Crash, Open, Return
  <2>3. CASE MkdirZero \/ MkdirDots \/ MkdirEntry \/ fat_free_chain
    BY <2>3 DEF MkdirZero, MkdirDots, MkdirEntry, fat_free_chain, Return, At
  <2>4. CASE WriteAlloc \/ UpdateEntry \/ WriteReturns
    BY <2>4 DEF WriteAlloc, UpdateEntry, WriteReturns, Return
  <2> QED BY <1>2, <2>1, <2>2, <2>3, <2>4
<1>3. CASE WriteBuffer
  <2>1. pc = "buffer" /\ at' = node.inode /\ dirent' = dirent /\ node' = node
    BY <1>3 DEF WriteBuffer, At, disk
  <2>2. node.inode # 0
    BY <2>1 DEF IInv, MemoryOK, OpenOK, Writing
  <2> QED BY <1>1, <2>1, <2>2, HeadApart DEF Writing
<1>4. CASE Follow
  <2>1. /\ pc = "walk" /\ at \in Entries /\ fat1[at] \in Entries /\ at' = fat1[at]
        /\ dirent' = dirent /\ node' = node /\ Sound
    BY <1>4 DEF Follow, At, disk, IInv, DiskOK, MemoryOK, WalkOK
  <2>2. \A s \in Slots : IsEntry(s) /\ s # node.slot =>
          ~OnChain(fat1, dirent[s].first, fat1[at])
    BY <2>1, NextApart DEF ApartOK
  <2> QED BY <1>1, <2>1, <2>2, Numbers DEF Writing, Free
<1>5. CASE Extend
  <2>1. pc = "walk" /\ at' = at /\ dirent' = dirent /\ node' = node /\ at \in Entries
    BY <1>5 DEF Extend, At, IInv, MemoryOK, WalkOK
  <2> QED BY <1>1, <2>1, Numbers DEF Writing, ApartOK, Free
<1>6. CASE Chain
  <2>1. pc = "chain" /\ at' = call.nc /\ dirent' = dirent /\ node' = node /\ Loose(call.nc)
    BY <1>6 DEF Chain, At, IInv, MemoryOK, ChainOK
  <2>2. \A s \in Slots : IsEntry(s) => ~OnChain(fat1, dirent[s].first, call.nc)
    BY <2>1, OnChainIs DEF IInv, DiskOK
  <2> QED BY <1>1, <2>1, <2>2, Numbers DEF Writing, Loose, Free
<1>7. CASE Patch
  <2>1. pc = "walk" /\ at' = node.inode /\ dirent' = dirent /\ node' = node
    BY <1>7 DEF Patch, At
  <2>2. node.inode # 0
    BY <2>1 DEF IInv, MemoryOK, OpenOK, Writing
  <2> QED BY <1>1, <2>1, <2>2, HeadApart DEF Writing
<1>8. CASE Mirror \/ UNCHANGED vars
  <2>1. UNCHANGED <<pc, fat1, dirent, node, at>>
    BY <1>8 DEF Mirror, memory, vars, disk
  <2> QED BY <2>1 DEF ApartOK, IsEntry
<1> QED BY <1>2, <1>3, <1>4, <1>5, <1>6, <1>7, <1>8 DEF Next, Step

LEMMA ApartInvariance == Spec => [](IInv /\ ApartOK)
<1>1. Init => ApartOK
  BY DEF Init, ApartOK
<1>2. IInv /\ ApartOK /\ [Next]_vars => IInv' /\ ApartOK'
  BY StepInv, ApartStep
<1> QED BY <1>1, <1>2, InitInv, PTL DEF Spec

OthersKept ==
  \A s \in Slots : IsEntry(s) /\ s # node.slot =>
    /\ dirent'[s] = dirent[s]
    /\ dirent[s].kind = "file" => ContentsOf(s)' = ContentsOf(s)

LEMMA OthersKeptStep == IInv /\ ApartOK /\ [Next]_vars => OthersKept
<1> SUFFICES ASSUME IInv, ApartOK, [Next]_vars,
                    NEW s \in Slots, IsEntry(s), s # node.slot
             PROVE  dirent'[s] = dirent[s] /\ ContentsOf(s)' = ContentsOf(s)
  BY DEF OthersKept
<1>1. dirent'[s] = dirent[s]
  BY EntriesStayStep DEF EntriesStay
<1>2. PICK e : e = dirent[s]
  OBVIOUS
<1>3. e.size \in Nat
  BY <1>2, EntryIs DEF IInv, DiskOK, Sound, Entry
<1>4. ASSUME NEW k \in 0 .. e.size - 1
      PROVE  /\ NthOf(fat1', e, k) = NthOf(fat1, e, k)
             /\ NthOf(fat1, e, k) \in Entries =>
                  data'[NthOf(fat1, e, k)] = data[NthOf(fat1, e, k)]
  <2>1. k \div ClusterSize \in Nat
    BY <1>3, SizeAssumption
  <2>2. NthOf(fat1', e, k) = NthOf(fat1, e, k)
    BY <1>2, <2>1, OthersChain DEF NthOf
  <2>3. NthOf(fat1, e, k) \in Entries => OnChain(fat1, e.first, NthOf(fat1, e, k))
    BY <2>1 DEF OnChain, NthOf
  <2> QED BY <1>2, <2>2, <2>3, OthersStep
<1>5. ContentsIn(fat1', e, data') = ContentsIn(fat1, e, data)
  BY <1>4 DEF ContentsIn
<1> QED BY <1>1, <1>2, <1>5, ContentsAre

(* A command changes the file it has open and nothing else: no other entry  *)
(* is rewritten, and in no other file's chain is there a link or a unit     *)
(* that a step of touch, mkdir or echo, or a crash between two of their     *)
(* sector writes, changes.                                                  *)
THEOREM OtherFilesKept == Spec => OthersUntouched
<1>1. IInv /\ ApartOK /\ [Next]_vars => [OthersKept]_vars
  BY OthersKeptStep
<1>2. Spec => [][OthersKept]_vars
  BY <1>1, ApartInvariance, PTL DEF Spec
<1> QED BY <1>2 DEF OthersUntouched, OthersKept

-----------------------------------------------------------------------------
(* What echo has written, and what sizes promise.                           *)

(* Units of a cluster: a quotient is determined by what it leaves.          *)
LEMMA DivMod ==
  ASSUME NEW n \in Nat
  PROVE  /\ n \div ClusterSize \in Nat
         /\ n % ClusterSize \in 0 .. ClusterSize - 1
         /\ n = (n % ClusterSize) + ClusterSize * (n \div ClusterSize)
<1>1. n \div ClusterSize \in Nat /\ n % ClusterSize \in 0 .. ClusterSize - 1
  BY SizeAssumption, SMT
<1>2. n = (n % ClusterSize) + ClusterSize * (n \div ClusterSize)
  BY SizeAssumption, Z3
<1> QED BY <1>1, <1>2

LEMMA Quotients ==
  ASSUME NEW p \in Nat, NEW q \in Nat, NEW r \in 0 .. ClusterSize - 1,
         NEW s \in 0 .. ClusterSize - 1, r + ClusterSize * p = s + ClusterSize * q
  PROVE  p = q /\ r = s
<1> DEFINE b == ClusterSize
<1>0. b \in Nat \ {0}
  BY SizeAssumption
<1>1. ASSUME NEW x \in Nat, NEW y \in Nat, NEW u \in 0 .. b - 1, NEW v \in 0 .. b - 1,
             u + b * x = v + b * y, x < y
      PROVE  FALSE
  <2> HIDE DEF b
  <2>1. PICK d \in Nat : y = x + 1 + d
    <3>1. y - x - 1 \in Nat /\ y = x + 1 + (y - x - 1)
      BY <1>1
    <3> QED BY <3>1
  <2>2. b * y = b * x + b + b * d /\ b * x \in Nat /\ b * d \in Nat
    BY <1>0, <1>1, <2>1, Z3
  <2> QED BY <1>0, <1>1, <2>2
<1>2. ~(p < q) /\ ~(q < p)
  BY <1>1
<1>3. p = q
  BY <1>2
<1>4. b * p \in Nat
  BY <1>0
<1> HIDE DEF b
<1> QED BY <1>0, <1>3, <1>4 DEF b

(* The offsets in the cluster of offset n, up to its end.                   *)
LEMMA SameCluster ==
  ASSUME NEW n \in Nat, NEW k \in Nat
  PROVE  /\ n <= k /\ k - n < ClusterSize - (n % ClusterSize) =>
              /\ k \div ClusterSize = n \div ClusterSize
              /\ k % ClusterSize = (n % ClusterSize) + (k - n)
         /\ k < n /\ k \div ClusterSize = n \div ClusterSize =>
              k % ClusterSize < n % ClusterSize
<1>1. PICK p \in Nat, q \in Nat, r \in 0 .. ClusterSize - 1, s \in 0 .. ClusterSize - 1 :
        /\ p = n \div ClusterSize /\ r = n % ClusterSize /\ n = r + ClusterSize * p
        /\ q = k \div ClusterSize /\ s = k % ClusterSize /\ k = s + ClusterSize * q
  <2>1. /\ n \div ClusterSize \in Nat /\ n % ClusterSize \in 0 .. ClusterSize - 1
        /\ n = (n % ClusterSize) + ClusterSize * (n \div ClusterSize)
    BY DivMod
  <2>2. /\ k \div ClusterSize \in Nat /\ k % ClusterSize \in 0 .. ClusterSize - 1
        /\ k = (k % ClusterSize) + ClusterSize * (k \div ClusterSize)
    BY DivMod
  <2> QED BY <2>1, <2>2, Zenon
<1>2. ClusterSize \in Nat /\ ClusterSize * p \in Nat /\ ClusterSize * q \in Nat
  BY SizeAssumption
<1>3. ASSUME n <= k, k - n < ClusterSize - r
      PROVE  q = p /\ s = r + (k - n)
  <2>1. r + (k - n) \in 0 .. ClusterSize - 1
    BY <1>2, <1>3
  <2>2. (r + (k - n)) + ClusterSize * p = s + ClusterSize * q
    BY <1>1, <1>2
  <2> QED BY <2>1, <2>2, Quotients
<1>4. ASSUME k < n, q = p
      PROVE  s < r
  BY <1>1, <1>2, <1>4
<1> QED BY <1>1, <1>3, <1>4

(* The clusters of the open file, the first included that no entry refers   *)
(* to yet; what a unit of it is to be, and that it is.                      *)
Position(k) == NthIn(fat1, node.inode, k \div ClusterSize)
Wanted(k) == IF k < cmd.len THEN cmd.text ELSE Newline
Written(k) ==
  /\ Position(k) \in Entries
  /\ Position(k) \in DataClusters => data[Position(k)][k % ClusterSize] = Wanted(k)

(* Until the disk is full: every byte below a file's size is in its chain,  *)
(* of the open file too, in whose chain the write is where it believes to   *)
(* be; what lies before it is written, and the entry hears of all of it.    *)
SizesOK ==
  ~full => \A s \in Slots : dirent[s].kind = "file" =>
    \A k \in 0 .. dirent[s].size - 1 :
      NthIn(fat1, dirent[s].first, k \div ClusterSize) \in Entries
CallShape ==
  \/ call.phase = 1 /\ call.offset = 0 /\ call.size = cmd.len
  \/ call.phase = 2 /\ call.offset = cmd.len /\ call.size = 1
ShapeOK ==
  pc \in Writing =>
    /\ CallShape
    /\ node.size = dirent[node.slot].size
    /\ (pc \in {"write", "buffer"} => call.done = 0)
    /\ (pc \in {"walk", "chain", "update"} => cmd.heap = "enough")
    /\ (pc \in {"buffer", "walk", "chain"} => call.done < call.size)
    /\ (pc = "walk" => hop <= cluster_idx)
    /\ (pc = "chain" => hop < cluster_idx)
HopOK == pc \in {"walk", "chain"} => at = NthIn(fat1, node.inode, hop)
BackOK ==
  pc \in Writing /\ ~full => \A k \in 0 .. node.size - 1 : Position(k) \in Entries
TextOK ==
  pc \in Writing /\ ~full /\ cmd.heap = "enough" =>
    \A k \in 0 .. cur_off - 1 : Written(k)
DoneOK ==
  pc \in {"update", "return"} /\ ~full /\ cmd.heap = "enough" =>
    /\ call.done = call.size
    /\ pc = "return" => /\ node.size >= cur_off
                        /\ (cur_off > 0 => dirent[node.slot].first = node.inode)
EchoInv == SizesOK /\ ShapeOK /\ HopOK /\ BackOK /\ TextOK /\ DoneOK

(* A step changes the table only where no chain goes on.                    *)
LEMMA LinksStay ==
  ASSUME IInv, [Next]_vars, NEW c \in Entries, fat1[c] \in Entries
  PROVE  fat1'[c] = fat1[c]
<1>1. fat1 \in Table /\ fat1[c] # Free /\ fat1[c] # EOC
  BY Numbers DEF IInv, DiskOK, Sound
<1>2. CASE UNCHANGED fat1
  BY <1>2
<1>3. CASE Command \/ Lookup \/ CreateFile \/ Find \/ Close \/ MkdirZero \/ MkdirDots
           \/ MkdirEntry \/ WriteBuffer \/ Follow \/ Patch \/ UpdateEntry \/ WriteReturns
           \/ Mirror \/ Crash \/ UNCHANGED vars
  BY <1>3 DEF Command, Issue, Lookup, CreateFile, Find, Close, MkdirZero, MkdirDots,
     MkdirEntry, WriteBuffer, Follow, Patch, UpdateEntry, WriteReturns, Mirror, Crash,
     Open, vars, disk
<1>4. CASE MkdirAlloc \/ WriteAlloc \/ Extend
  <2>1. fat1' = fat1 \/ fat_alloc_cluster
    BY <1>4 DEF MkdirAlloc, WriteAlloc, Extend
  <2>2. CASE fat_alloc_cluster
    <3>1. PICK f \in Entries : f = FirstFree /\ fat1[f] = Free
      BY <2>2, FirstFreeIs DEF fat_alloc_cluster
    <3>2. fat1' = [fat1 EXCEPT ![f] = EOC]
      BY <2>2, <3>1 DEF fat_alloc_cluster, fat_set_entry
    <3> QED BY <1>1, <3>1, <3>2 DEF Table
  <2> QED BY <2>1, <2>2
<1>5. CASE fat_free_chain
  <2>1. fat1[at] = EOC
    BY <1>5 DEF fat_free_chain, At, IInv, MemoryOK, MakeOK, Making
  <2> QED BY <1>1, <1>5, <2>1 DEF fat_free_chain, fat_set_entry, Table
<1>6. CASE Chain
  <2>1. fat1[at] \notin Entries
    BY <1>6 DEF Chain, At, IInv, MemoryOK, ChainOK
  <2> QED BY <1>1, <1>6, <2>1 DEF Chain, fat_set_entry, Table
<1> QED BY <1>3, <1>4, <1>5, <1>6 DEF Next, Step

(* So what backs a file goes on doing so.                                   *)
LEMMA PlacesStay ==
  ASSUME IInv, [Next]_vars, NEW first, NEW n \in Nat, NthIn(fat1, first, n) \in Entries
  PROVE  NthIn(fat1', first, n) = NthIn(fat1, first, n)
<1>1. \A c \in Entries : fat1[c] \in Entries => fat1'[c] = fat1[c]
  BY LinksStay
<1> QED BY <1>1, PlacesKept

(* How a command gets to write, and goes on.                                *)
LEMMA WritingStep ==
  ASSUME IInv, [Next]_vars, pc' \in Writing
  PROVE  \/ /\ pc' = "write" /\ call' = FirstWrite
            /\ \E s \in Slots : dirent[s].kind = "file" /\ node' = NodeAt(s)
            /\ UNCHANGED <<fat1, data, dirent, cmd, full>>
         \/ WriteAlloc \/ WriteBuffer \/ Follow \/ Extend \/ Chain \/ Patch
         \/ UpdateEntry \/ WriteReturns
         \/ UNCHANGED <<pc, fat1, data, dirent, cmd, node, call, at, hop, full>>
<1>1. CASE Command
  <2>1. pc' \in {"create", "mkdir", "lookup"}
    BY <1>1 DEF Command, Issue, Start
  <2> QED BY <2>1 DEF Writing
<1>2. CASE Lookup \/ Find
  <2>1. cmd \in Commands
    BY <1>2 DEF Lookup, Find, At, IInv, MemoryOK, CommandOK
  <2>2. Found # NoSlot /\ Open(Found)
    BY <1>2 DEF Lookup, Find, Return, Writing
  <2>3. PICK s \in Slots : s = Found
    BY <2>1, <2>2, FoundIs
  <2>4. pc' = "write" /\ dirent[s].kind = "file" /\ call' = FirstWrite /\ node' = NodeAt(s)
        /\ UNCHANGED <<fat1, data, dirent, cmd, full>>
    BY <2>2, <2>3 DEF Open, Writing, disk, history
  <2> QED BY <2>4
<1>3. CASE CreateFile \/ Close \/ MkdirAlloc \/ Crash
  BY <1>3 DEF CreateFile, Close, MkdirAlloc, Crash, Return, Writing
<1>4. CASE MkdirZero \/ MkdirDots \/ MkdirEntry \/ fat_free_chain
  BY <1>4 DEF MkdirZero, MkdirDots, MkdirEntry, fat_free_chain, Return, At, Writing
<1>5. CASE Mirror \/ UNCHANGED vars
  BY <1>5 DEF Mirror, vars, memory, disk, history
<1> QED BY <1>1, <1>2, <1>3, <1>4, <1>5 DEF Next, Step

(* Once full, always so called.                                             *)
LEMMA FullStays == ASSUME [Next]_vars, ~full' PROVE ~full
<1>1. CASE MkdirAlloc \/ WriteAlloc \/ Extend
  BY <1>1 DEF MkdirAlloc, WriteAlloc, Extend
<1>2. CASE Command \/ Lookup \/ CreateFile \/ Find \/ Close \/ MkdirZero \/ MkdirDots
           \/ MkdirEntry \/ fat_free_chain \/ Crash
  BY <1>2 DEF Command, Issue, Lookup, CreateFile, Find, Close, MkdirZero, MkdirDots,
     MkdirEntry, fat_free_chain, Crash, Open, history
<1>3. CASE WriteBuffer \/ Follow \/ Chain \/ Patch \/ UpdateEntry \/ WriteReturns
           \/ Mirror \/ UNCHANGED vars
  BY <1>3 DEF WriteBuffer, Follow, Chain, Patch, UpdateEntry, WriteReturns, Mirror,
     vars, history
<1> QED BY <1>1, <1>2, <1>3 DEF Next, Step

LEMMA OpenIs ==
  ASSUME IInv, pc \in Writing
  PROVE  /\ node.slot \in Slots /\ dirent[node.slot].kind = "file"
         /\ IsEntry(node.slot) /\ dirent[node.slot] \in Entry
         /\ node \in Nodes /\ call \in Calls /\ call.done <= call.size
         /\ cmd \in Commands /\ cur_off \in Nat /\ cluster_idx \in Nat /\ hop \in Nat
<1>1. node.slot \in Slots /\ dirent[node.slot].kind = "file" /\ IsEntry(node.slot)
  BY DEF IInv, MemoryOK, OpenOK, IsEntry
<1>2. /\ node \in Nodes /\ call \in Calls /\ cmd \in Commands /\ hop \in Nat
      /\ call.done <= call.size
  BY DEF IInv, MemoryOK, MemoryTyped, CommandOK, Writing
<1>3. cur_off \in Nat
  BY <1>2 DEF cur_off, Calls
<1>4. cluster_idx \in Nat
  BY <1>3, DivMod DEF cluster_idx
<1> QED BY <1>1, <1>2, <1>3, <1>4, EntryIs DEF IInv, DiskOK, Sound

(* A size in an entry is that of the writes before, each of them backed, or *)
(* the one before.                                                          *)
LEMMA SizesStep == IInv /\ EchoInv /\ [Next]_vars => SizesOK'
<1> SUFFICES ASSUME IInv, EchoInv, [Next]_vars, ~full',
                    NEW s \in Slots, dirent'[s].kind = "file",
                    NEW k \in 0 .. dirent'[s].size - 1
             PROVE  NthIn(fat1', dirent'[s].first, k \div ClusterSize) \in Entries
  BY DEF SizesOK, NthIn
<1>1. ~full /\ dirent \in Catalogue
  BY FullStays DEF IInv, DiskOK, Sound
<1>2. CASE dirent'[s] = dirent[s]
  <2>1. k \in Nat /\ k \div ClusterSize \in Nat
    BY <1>2, DivMod
  <2>2. NthIn(fat1, dirent[s].first, k \div ClusterSize) \in Entries
    BY <1>1, <1>2 DEF EchoInv, SizesOK
  <2> QED BY <1>2, <2>1, <2>2, PlacesStay
<1>3. ASSUME CanWriteEntry, cmd \in Commands,
             NEW kind \in {"file", "dir"}, NEW c, fat16_write_dir_entry(kind, c)
      PROVE  dirent'[s] = dirent[s]
  <2>1. CASE FreeSlot(cmd.dir) # s \/ dirent' = dirent
    BY <1>1, <1>3, <2>1 DEF fat16_write_dir_entry, Catalogue
  <2>2. CASE FreeSlot(cmd.dir) = s /\ dirent' # dirent
    <3>1. dirent'[s].size = 0
      BY <1>1, <1>3, <2>2 DEF fat16_write_dir_entry, Catalogue
    <3> QED BY <3>1
  <2> QED BY <2>1, <2>2
<1>4. CASE MkdirZero
  BY <1>2, <1>4 DEF MkdirZero, Unused
<1>5. CASE UpdateEntry
  <2>1. /\ pc = "update" /\ fat1' = fat1
        /\ dirent' = [dirent EXCEPT ![node.slot].first = node.inode,
                                    ![node.slot].size = NewSize]
    BY <1>5 DEF UpdateEntry, At
  <2>2. /\ node.slot \in Slots /\ dirent[node.slot] \in Entry /\ node \in Nodes
        /\ cur_off \in Nat
    BY <2>1, OpenIs DEF Writing
  <2>3. CASE s # node.slot
    BY <1>1, <1>2, <2>1, <2>2, <2>3 DEF Catalogue
  <2>4. CASE s = node.slot
    <3>1. dirent'[s].first = node.inode /\ dirent'[s].size = NewSize
      BY <1>1, <2>1, <2>2, <2>4 DEF Catalogue, Entry
    <3>2. k \in 0 .. node.size - 1 \/ k \in 0 .. cur_off - 1
      BY <2>2, <3>1 DEF NewSize, Nodes
    <3>3. Position(k) \in Entries
      BY <1>1, <2>1, <3>2 DEF EchoInv, BackOK, TextOK, ShapeOK, Writing, Written
    <3> QED BY <2>1, <3>1, <3>3 DEF Position
  <2> QED BY <2>3, <2>4
<1> QED BY <1>2, <1>3, <1>4, <1>5, DirentStep

LEMMA ShapeStep == IInv /\ EchoInv /\ [Next]_vars => ShapeOK'
<1> SUFFICES ASSUME IInv, ShapeOK, [Next]_vars, pc' \in Writing
             PROVE  ShapeOK'
  BY DEF EchoInv, ShapeOK
<1>1. ASSUME pc' = "write", call' = FirstWrite, UNCHANGED <<dirent, cmd>>,
             NEW s \in Slots, dirent[s].kind = "file", node' = NodeAt(s)
      PROVE  ShapeOK'
  BY <1>1 DEF ShapeOK, CallShape, FirstWrite, NodeAt
<1>2. CASE WriteAlloc
  <2>1. /\ pc = "write" /\ pc' \in {"return", "buffer"} /\ UNCHANGED <<dirent, cmd, call>>
        /\ node'.size = node.size /\ node'.slot = node.slot
        /\ (pc' = "buffer" => call.size > 0)
    <3>1. pc = "write" /\ node \in Nodes
      BY <1>2, OpenIs DEF WriteAlloc, At, Writing
    <3> QED BY <1>2, <3>1 DEF WriteAlloc, Nodes
  <2> QED BY <2>1 DEF ShapeOK, CallShape, Writing
<1>3. CASE WriteBuffer
  <2>1. /\ pc = "buffer" /\ UNCHANGED <<dirent, cmd, call, node>>
        /\ (pc' = "return" \/ (pc' = "walk" /\ hop' = 0 /\ cmd.heap = "enough"))
    BY <1>3 DEF WriteBuffer, At, disk
  <2>2. cluster_idx \in Nat /\ cluster_idx' = cluster_idx
    BY <2>1, OpenIs DEF Writing, cluster_idx, cur_off
  <2> QED BY <2>1, <2>2 DEF ShapeOK, CallShape, Writing
<1>4. CASE Follow
  <2>1. /\ pc = "walk" /\ pc' = "walk" /\ UNCHANGED <<dirent, cmd, call, node>>
        /\ hop < cluster_idx /\ hop' = hop + 1
    BY <1>4 DEF Follow, At, disk
  <2>2. cluster_idx \in Nat /\ cluster_idx' = cluster_idx /\ hop \in Nat
    BY <2>1, OpenIs DEF Writing, cluster_idx, cur_off
  <2> QED BY <2>1, <2>2 DEF ShapeOK, CallShape, Writing
<1>5. CASE Extend
  <2>1. /\ pc = "walk" /\ pc' \in {"chain", "update"} /\ UNCHANGED <<dirent, cmd, node, hop>>
        /\ hop < cluster_idx /\ call \in Calls
    BY <1>5, OpenIs DEF Extend, At, Writing
  <2>2. /\ call'.phase = call.phase /\ call'.offset = call.offset
        /\ call'.size = call.size /\ call'.done = call.done
    BY <1>5, <2>1 DEF Extend, Calls
  <2>3. cluster_idx' = cluster_idx
    BY <2>2 DEF cluster_idx, cur_off
  <2> QED BY <2>1, <2>2, <2>3 DEF ShapeOK, CallShape, Writing
<1>6. CASE Chain
  <2>1. /\ pc = "chain" /\ pc' = "walk" /\ UNCHANGED <<dirent, cmd, call, node>>
        /\ hop' = hop + 1
    BY <1>6 DEF Chain, At
  <2>2. cluster_idx \in Nat /\ cluster_idx' = cluster_idx /\ hop \in Nat
    BY <2>1, OpenIs DEF Writing, cluster_idx, cur_off
  <2> QED BY <2>1, <2>2 DEF ShapeOK, CallShape, Writing
<1>7. CASE Patch
  <2>1. /\ pc = "walk" /\ UNCHANGED <<dirent, cmd, node>> /\ hop' = 0 /\ call \in Calls
        /\ call' = [call EXCEPT !.done = @ + Copy]
        /\ IF call.done + Copy = call.size THEN pc' = "update" ELSE pc' = "walk"
    BY <1>7, OpenIs DEF Patch, At, Writing
  <2>2. Copy \in Nat /\ call.done + Copy <= call.size
    BY CopyIs DEF IInv, MemoryOK
  <2>3. /\ call'.phase = call.phase /\ call'.offset = call.offset
        /\ call'.size = call.size /\ call'.done = call.done + Copy
    BY <2>1 DEF Calls
  <2>4. call.size \in Nat /\ call.done \in Nat /\ call.offset \in Nat
    BY <2>1 DEF Calls
  <2>5. cluster_idx' \in Nat
    <3>1. call'.offset + call'.done \in Nat
      BY <2>2, <2>3, <2>4
    <3>2. (call'.offset + call'.done) \div ClusterSize \in Nat
      BY <3>1, DivMod
    <3> QED BY <3>2 DEF cluster_idx, cur_off
  <2>6. CallShape' /\ cmd.heap = "enough" /\ node'.size = dirent'[node'.slot].size
    BY <2>1, <2>3 DEF ShapeOK, CallShape, Writing
  <2>7. pc' = "walk" => call'.done < call'.size
    BY <2>1, <2>2, <2>3, <2>4
  <2> QED BY <2>1, <2>5, <2>6, <2>7 DEF ShapeOK
<1>8. CASE UpdateEntry
  <2>1. /\ pc = "update" /\ pc' = "return" /\ UNCHANGED <<cmd, call>>
        /\ node' = [node EXCEPT !.size = NewSize]
        /\ dirent' = [dirent EXCEPT ![node.slot].first = node.inode,
                                    ![node.slot].size = NewSize]
    BY <1>8 DEF UpdateEntry, At
  <2>2. /\ node.slot \in Slots /\ dirent[node.slot] \in Entry /\ node \in Nodes
        /\ dirent \in Catalogue
    BY <2>1, OpenIs DEF Writing, IInv, DiskOK, Sound
  <2>3. node'.slot = node.slot /\ node'.size = NewSize
    BY <2>1, <2>2 DEF Nodes
  <2>4. dirent'[node.slot].size = NewSize
    BY <2>1, <2>2 DEF Catalogue, Entry
  <2> QED BY <2>1, <2>3, <2>4 DEF ShapeOK, CallShape, Writing
<1>9. CASE WriteReturns
  <2>1. /\ pc = "return" /\ pc' = "write" /\ call' = SecondWrite
        /\ UNCHANGED <<dirent, cmd, node>>
    BY <1>9 DEF WriteReturns, At, Return, Writing, disk
  <2> QED BY <2>1 DEF ShapeOK, CallShape, Writing, SecondWrite
<1>10. CASE UNCHANGED <<pc, fat1, data, dirent, cmd, node, call, at, hop, full>>
  BY <1>10 DEF ShapeOK, CallShape, cluster_idx, cur_off
<1> QED BY <1>1, <1>2, <1>3, <1>4, <1>5, <1>6, <1>7, <1>8, <1>9, <1>10, WritingStep

(* A walk is as far along the chain as it has counted.                      *)
LEMMA HopStep == IInv /\ EchoInv /\ [Next]_vars => HopOK'
<1> SUFFICES ASSUME IInv, EchoInv, [Next]_vars, pc' \in {"walk", "chain"}
             PROVE  at' = NthIn(fat1', node'.inode, hop')
  BY DEF HopOK, NthIn
<1>1. CASE WriteBuffer \/ Patch
  <2>1. at' = node.inode /\ hop' = 0 /\ node' = node
    BY <1>1 DEF WriteBuffer, Patch
  <2> QED BY <2>1, NthZero
<1>2. CASE Follow
  <2>1. /\ pc = "walk" /\ fat1[at] \in Entries /\ at' = fat1[at] /\ hop' = hop + 1
        /\ fat1' = fat1 /\ node' = node /\ at \in Entries /\ hop \in Nat
    BY <1>2, OpenIs DEF Follow, At, disk, Writing, IInv, MemoryOK, WalkOK
  <2>2. at = NthIn(fat1, node.inode, hop)
    BY <2>1 DEF EchoInv, HopOK
  <2>3. NthIn(fat1, node.inode, hop + 1) = fat1[at]
    BY <2>1, <2>2, NthNext
  <2> QED BY <2>1, <2>3
<1>3. CASE Extend
  <2>1. pc = "walk" /\ UNCHANGED <<at, hop, node>> /\ at \in Entries /\ hop \in Nat
    BY <1>3, OpenIs DEF Extend, At, Writing, IInv, MemoryOK, WalkOK
  <2>2. at = NthIn(fat1, node.inode, hop)
    BY <2>1 DEF EchoInv, HopOK
  <2>3. NthIn(fat1', node.inode, hop) = NthIn(fat1, node.inode, hop)
    BY <2>1, <2>2, PlacesStay
  <2> QED BY <2>1, <2>2, <2>3
<1>4. CASE Chain
  <2>1. /\ pc = "chain" /\ fat1' = [fat1 EXCEPT ![at] = call.nc] /\ at' = call.nc
        /\ hop' = hop + 1 /\ node' = node /\ at \in Entries /\ hop \in Nat
        /\ fat1 \in Table
    BY <1>4, OpenIs DEF Chain, At, fat_set_entry, Writing, IInv, MemoryOK, WalkOK, DiskOK, Sound
  <2>2. at = NthIn(fat1, node.inode, hop)
    BY <2>1 DEF EchoInv, HopOK
  <2>3. NthIn(fat1', node.inode, hop) = at
    BY <2>1, <2>2, PlacesStay
  <2>4. NthIn(fat1', node.inode, hop + 1) = fat1'[at]
    BY <2>1, <2>3, NthNext
  <2>5. fat1'[at] = call.nc
    BY <2>1 DEF Table
  <2> QED BY <2>1, <2>4, <2>5
<1>5. CASE WriteAlloc \/ UpdateEntry \/ WriteReturns
  BY <1>5 DEF WriteAlloc, UpdateEntry, WriteReturns, Return
<1>6. CASE UNCHANGED <<pc, fat1, data, dirent, cmd, node, call, at, hop, full>>
  BY <1>6 DEF EchoInv, HopOK
<1> QED BY <1>1, <1>2, <1>3, <1>4, <1>5, <1>6, WritingStep DEF Writing

(* A file without a cluster is empty, and nothing of it written.            *)
LEMMA EmptyFile ==
  ASSUME IInv, EchoInv, pc \in Writing, ~full, node.inode = 0
  PROVE  /\ node.size = 0
         /\ cmd.heap = "enough" => cur_off = 0
<1>1. node.size \in Nat /\ cur_off \in Nat
  BY OpenIs DEF Nodes
<1>2. 0 \div ClusterSize = 0
  BY SizeAssumption
<1>3. Position(0) = 0
  BY <1>2, NthZero DEF Position
<1>4. Position(0) \notin Entries
  BY <1>3, Numbers
<1>5. node.size = 0
  <2>1. 0 \notin 0 .. node.size - 1
    BY <1>4 DEF EchoInv, BackOK
  <2> QED BY <1>1, <2>1
<1>6. ASSUME cmd.heap = "enough" PROVE cur_off = 0
  <2>1. 0 \notin 0 .. cur_off - 1
    BY <1>4, <1>6 DEF EchoInv, TextOK, Written
  <2> QED BY <1>1, <2>1
<1> QED BY <1>5, <1>6

LEMMA BackStep == IInv /\ EchoInv /\ [Next]_vars => BackOK'
<1> SUFFICES ASSUME IInv, EchoInv, [Next]_vars, pc' \in Writing, ~full',
                    NEW k \in 0 .. node'.size - 1
             PROVE  NthIn(fat1', node'.inode, k \div ClusterSize) \in Entries
  BY DEF BackOK, Position, NthIn
<1>0. ~full
  BY FullStays
<1>1. ASSUME node' \in Nodes,
             NthIn(fat1, node'.inode, k \div ClusterSize) \in Entries
      PROVE  NthIn(fat1', node'.inode, k \div ClusterSize) \in Entries
  <2>1. k \div ClusterSize \in Nat
    BY <1>1, DivMod DEF Nodes
  <2> QED BY <1>1, <2>1, PlacesStay
<1>2. node' \in Nodes
  BY StepInv DEF IInv, MemoryOK, MemoryTyped
<1>3. ASSUME NEW s \in Slots, dirent[s].kind = "file", node' = NodeAt(s)
      PROVE  NthIn(fat1, node'.inode, k \div ClusterSize) \in Entries
  BY <1>0, <1>3 DEF NodeAt, EchoInv, SizesOK
<1>4. ASSUME pc \in Writing, node'.inode = node.inode, node'.size = node.size
      PROVE  NthIn(fat1, node'.inode, k \div ClusterSize) \in Entries
  BY <1>0, <1>4 DEF EchoInv, BackOK, Position
<1>5. CASE WriteAlloc
  <2>1. pc = "write" /\ node \in Nodes
    BY <1>5, OpenIs DEF WriteAlloc, At, Writing
  <2>2. CASE node' = node
    BY <1>4, <2>1, <2>2, <1>1, <1>2 DEF Writing
  <2>3. CASE node.inode = 0 /\ node'.size = node.size
    <3>1. node.size = 0
      BY <1>0, <2>1, <2>3, EmptyFile DEF Writing
    <3> QED BY <2>3, <3>1
  <2> QED BY <1>5, <2>1, <2>2, <2>3 DEF WriteAlloc, Nodes
<1>6. CASE WriteBuffer \/ Follow \/ Extend \/ Chain \/ Patch \/ WriteReturns
  <2>1. pc \in Writing /\ node' = node
    BY <1>6 DEF WriteBuffer, Follow, Extend, Chain, Patch, WriteReturns, Return, At, Writing
  <2> QED BY <1>1, <1>2, <1>4, <2>1
<1>7. CASE UpdateEntry
  <2>1. pc = "update" /\ node' = [node EXCEPT !.size = NewSize]
    BY <1>7 DEF UpdateEntry, At
  <2>2. /\ node'.size = NewSize /\ node'.inode = node.inode
        /\ node.size \in Nat /\ cur_off \in Nat
    BY <2>1, OpenIs DEF Nodes, Writing
  <2>3. k \in 0 .. node.size - 1 \/ k \in 0 .. cur_off - 1
    BY <2>2 DEF NewSize
  <2>4. Position(k) \in Entries
    BY <1>0, <2>1, <2>3 DEF EchoInv, BackOK, TextOK, ShapeOK, Writing, Written
  <2> QED BY <1>1, <1>2, <2>2, <2>4 DEF Position
<1>8. CASE UNCHANGED <<pc, fat1, data, dirent, cmd, node, call, at, hop, full>>
  BY <1>1, <1>2, <1>4, <1>8
<1> QED BY <1>1, <1>2, <1>3, <1>5, <1>6, <1>7, <1>8, WritingStep

(* No cluster of the open file comes twice in its chain.                    *)
LEMMA OncePassed ==
  ASSUME IInv, pc \in Writing, node.inode # 0, NEW m \in Nat, NEW n \in Nat,
         NthIn(fat1, node.inode, m) \in Entries,
         NthIn(fat1, node.inode, m) = NthIn(fat1, node.inode, n)
  PROVE  m = n
<1>1. \A c, d \in Entries : fat1[c] \in Entries /\ fat1[c] = fat1[d] => c = d
  BY DEF IInv, DiskOK, Sound, OwnedOnce
<1>2. \A c \in Entries : fat1[c] \in Entries => fat1[c] # node.inode
  <2>1. CASE Loose(node.inode)
    BY <2>1 DEF Loose, Linked
  <2>2. CASE dirent[node.slot].first = node.inode
    BY <2>2, OpenIs DEF IInv, DiskOK, Sound, OwnedOnce
  <2> QED BY <2>1, <2>2 DEF IInv, MemoryOK, OpenOK
<1> QED BY <1>1, <1>2, NoRepeat

LEMMA CopyFits ==
  ASSUME MemoryTyped
  PROVE  Copy <= ClusterSize - inner_off
<1>1. inner_off \in 0 .. ClusterSize - 1 /\ cur_off \in Nat
  <2>1. cur_off \in Nat
    BY DEF cur_off, MemoryTyped, Calls
  <2> QED BY <2>1, DivMod DEF inner_off
<1>2. call.size - call.done \in Int /\ ClusterSize \in Nat
  BY SizeAssumption DEF MemoryTyped, Calls
<1> QED BY <1>1, <1>2 DEF Copy

(* A cluster's worth of text lands where the offset says, and nowhere else. *)
LEMMA PatchWrites ==
  ASSUME IInv, EchoInv, Patch, ~full, NEW k \in Nat, k < cur_off + Copy
  PROVE  /\ Position(k) \in Entries
         /\ Position(k) \in DataClusters => data'[Position(k)][k % ClusterSize] = Wanted(k)
<1>1. /\ pc = "walk" /\ hop = cluster_idx /\ at \in Entries /\ node.inode # 0
      /\ data \in [Entries -> Contents] /\ MemoryTyped /\ cmd.heap = "enough"
      /\ CallShape
  BY DEF Patch, At, IInv, MemoryOK, WalkOK, OpenOK, Writing, DiskOK, EchoInv, ShapeOK
<1>2. at = NthIn(fat1, node.inode, cluster_idx)
  BY <1>1 DEF EchoInv, HopOK
<1>3. /\ cur_off \in Nat /\ cluster_idx \in Nat /\ inner_off \in Nat /\ Copy \in Nat
      /\ k \div ClusterSize \in Nat /\ k % ClusterSize \in Units
      /\ Copy <= ClusterSize - inner_off
  <2>1. cur_off \in Nat /\ cluster_idx \in Nat
    BY <1>1, OpenIs DEF Writing
  <2> QED BY <1>1, <2>1, CopyIs, CopyFits, DivMod DEF inner_off, Units
<1>4. ASSUME at \in DataClusters, NEW u \in Units
      PROVE  data'[at][u] = IF u \in inner_off .. inner_off + Copy - 1
                            THEN IF call.phase = 1 THEN cmd.text ELSE Newline
                            ELSE data[at][u]
  BY <1>1, <1>4, DataAssumption DEF Patch, WriteCluster
<1>5. \A c \in Entries : c # at \/ at \notin DataClusters => data'[c] = data[c]
  BY <1>1 DEF Patch, WriteCluster
<1>6. CASE k < cur_off
  <2>1. Written(k)
    <3>1. k \in 0 .. cur_off - 1
      BY <1>3, <1>6
    <3> QED BY <1>1, <3>1 DEF EchoInv, TextOK, Writing
  <2>2. CASE Position(k) # at
    BY <1>5, <2>1, <2>2 DEF Written
  <2>3. CASE Position(k) = at /\ at \in DataClusters
    <3>1. k \div ClusterSize = cluster_idx
      BY <1>1, <1>2, <1>3, <2>3, OncePassed DEF Position, Writing
    <3>2. k % ClusterSize < inner_off
      BY <1>3, <1>6, <3>1, SameCluster DEF cluster_idx, inner_off
    <3>3. k % ClusterSize \notin inner_off .. inner_off + Copy - 1
      BY <1>3, <3>2 DEF Units
    <3>4. data'[at][k % ClusterSize] = data[at][k % ClusterSize]
      BY <1>3, <1>4, <2>3, <3>3
    <3> QED BY <2>1, <2>3, <3>4 DEF Written
  <2> QED BY <2>1, <2>2, <2>3 DEF Written
<1>7. CASE cur_off <= k
  <2>1. /\ k \div ClusterSize = cluster_idx
        /\ k % ClusterSize = inner_off + (k - cur_off)
    <3>1. k - cur_off < ClusterSize - inner_off
      <4>1. k - cur_off < Copy
        BY <1>3, <1>7
      <4> QED BY <1>3, <1>7, <4>1, SizeAssumption
    <3> QED BY <1>3, <1>7, <3>1, SameCluster DEF cluster_idx, inner_off
  <2>2. Position(k) = at
    BY <1>2, <2>1 DEF Position
  <2>3. k % ClusterSize \in inner_off .. inner_off + Copy - 1
    BY <1>3, <1>7, <2>1
  <2>4. Wanted(k) = IF call.phase = 1 THEN cmd.text ELSE Newline
    <3>1. /\ call.done \in Nat /\ call.size \in Nat /\ call.offset \in Nat
          /\ call.done + Copy <= call.size /\ cmd.len \in Nat
      BY <1>1, CopyIs, OpenIs DEF MemoryTyped, Calls, Writing, Commands
    <3>2. CASE call.phase = 1 /\ call.offset = 0 /\ call.size = cmd.len
      <4>1. k < cmd.len
        BY <1>3, <3>1, <3>2 DEF cur_off
      <4> QED BY <3>2, <4>1 DEF Wanted
    <3>3. CASE call.phase = 2 /\ call.offset = cmd.len /\ call.size = 1
      <4>1. ~(k < cmd.len)
        BY <1>3, <1>7, <3>1, <3>3 DEF cur_off
      <4> QED BY <3>3, <4>1 DEF Wanted
    <3> QED BY <1>1, <3>2, <3>3 DEF CallShape
  <2>5. at \in DataClusters => data'[at][k % ClusterSize] = Wanted(k)
    BY <1>3, <1>4, <2>3, <2>4
  <2> QED BY <1>1, <2>2, <2>5
<1> QED BY <1>3, <1>6, <1>7

WrittenIn(t, first, d, c, k) ==
  /\ NthIn(t, first, k \div ClusterSize) \in Entries
  /\ NthIn(t, first, k \div ClusterSize) \in DataClusters =>
       d[NthIn(t, first, k \div ClusterSize)][k % ClusterSize] =
         IF k < c.len THEN c.text ELSE Newline

LEMMA WrittenIs ==
  ASSUME NEW k
  PROVE  /\ Written(k) <=> WrittenIn(fat1, node.inode, data, cmd, k)
         /\ Written(k)' <=> WrittenIn(fat1', node'.inode, data', cmd', k)
<1>1. Written(k) <=> WrittenIn(fat1, node.inode, data, cmd, k)
  BY DEF Written, Position, Wanted, WrittenIn
<1>2. Written(k)' <=> WrittenIn(fat1', node'.inode, data', cmd', k)
  BY DEF Written, Position, Wanted, WrittenIn, NthIn
<1> QED BY <1>1, <1>2

LEMMA TextStep == IInv /\ EchoInv /\ [Next]_vars => TextOK'
<1> SUFFICES ASSUME IInv, EchoInv, [Next]_vars, pc' \in Writing, ~full',
                    cmd'.heap = "enough", NEW k \in 0 .. (call'.offset + call'.done) - 1
             PROVE  WrittenIn(fat1', node'.inode, data', cmd', k)
  BY WrittenIs DEF TextOK, cur_off
<1> DEFINE Goal == WrittenIn(fat1', node'.inode, data', cmd', k)
<1>0. ~full
  BY FullStays
<1>1. ASSUME pc \in Writing, node'.inode = node.inode, data' = data, cmd' = cmd,
             call'.offset + call'.done = cur_off
      PROVE  Goal
  <2>1. Written(k)
    BY <1>0, <1>1 DEF EchoInv, TextOK
  <2>2. k \in Nat
    BY <1>1, OpenIs
  <2>3. k \div ClusterSize \in Nat
    BY <2>2, DivMod
  <2>4. NthIn(fat1', node.inode, k \div ClusterSize) = NthIn(fat1, node.inode, k \div ClusterSize)
    BY <2>1, <2>3, PlacesStay DEF Written, Position
  <2> QED BY <1>1, <2>1, <2>4, WrittenIs DEF WrittenIn
<1>2. CASE call' = FirstWrite
  BY <1>2 DEF FirstWrite
<1>3. CASE WriteAlloc
  <2>1. pc = "write" /\ node \in Nodes /\ UNCHANGED <<data, cmd, call>>
    BY <1>3, OpenIs DEF WriteAlloc, At, Writing
  <2>2. CASE node' = node
    BY <1>1, <2>1, <2>2 DEF Writing, cur_off
  <2>3. CASE node.inode = 0
    <3>1. cur_off = 0
      BY <1>0, <2>1, <2>3, EmptyFile DEF Writing
    <3> QED BY <2>1, <3>1 DEF cur_off
  <2>4. node' = node \/ node.inode = 0
    BY <1>3 DEF WriteAlloc
  <2> QED BY <2>2, <2>3, <2>4
<1>4. CASE WriteBuffer \/ Follow \/ Chain \/ UpdateEntry
  <2>1. pc \in Writing /\ UNCHANGED <<data, cmd, call>>
    BY <1>4 DEF WriteBuffer, Follow, Chain, UpdateEntry, At, Writing, disk
  <2>2. node'.inode = node.inode
    BY <1>4, <2>1, OpenIs DEF WriteBuffer, Follow, Chain, UpdateEntry, Nodes
  <2> QED BY <1>1, <2>1, <2>2 DEF cur_off
<1>5. CASE Extend
  <2>1. pc \in Writing /\ call \in Calls /\ UNCHANGED <<data, cmd, node>>
    BY <1>5, OpenIs DEF Extend, At, Writing
  <2>2. call'.offset = call.offset /\ call'.done = call.done
    BY <1>5, <2>1 DEF Extend, Calls
  <2> QED BY <1>1, <2>1, <2>2 DEF cur_off
<1>6. CASE Patch
  <2>1. pc \in Writing /\ call \in Calls /\ UNCHANGED <<fat1, cmd, node>>
    BY <1>6, OpenIs DEF Patch, At, Writing
  <2>2. call'.offset = call.offset /\ call'.done = call.done + Copy
    BY <1>6, <2>1 DEF Patch, Calls
  <2>3. Copy \in Nat /\ cur_off \in Nat /\ call.offset \in Nat /\ call.done \in Nat
    BY <2>1, CopyIs, OpenIs DEF IInv, MemoryOK, Calls
  <2>4. k \in Nat /\ k < cur_off + Copy
    BY <2>2, <2>3 DEF cur_off
  <2>5. /\ Position(k) \in Entries
        /\ Position(k) \in DataClusters =>
             data'[Position(k)][k % ClusterSize] = Wanted(k)
    BY <1>0, <1>6, <2>4, PatchWrites
  <2> QED BY <2>1, <2>5 DEF Wanted, Position, WrittenIn
<1>7. CASE WriteReturns
  <2>1. /\ pc = "return" /\ call.phase = 1 /\ call' = SecondWrite
        /\ UNCHANGED <<fat1, data, cmd, node>>
    BY <1>7 DEF WriteReturns, At, Return, Writing, disk
  <2>2. call.offset = 0 /\ call.size = cmd.len /\ call.done = call.size /\ cmd.len \in Nat
    BY <1>0, <2>1, OpenIs DEF EchoInv, ShapeOK, CallShape, DoneOK, Writing, Commands
  <2> QED BY <1>1, <2>1, <2>2 DEF SecondWrite, cur_off, Writing
<1>8. CASE UNCHANGED <<pc, fat1, data, dirent, cmd, node, call, at, hop, full>>
  BY <1>1, <1>8 DEF cur_off
<1> QED
  BY <1>2, <1>3, <1>4, <1>5, <1>6, <1>7, <1>8, WritingStep

LEMMA DoneStep == IInv /\ EchoInv /\ [Next]_vars => DoneOK'
<1> SUFFICES ASSUME IInv, EchoInv, [Next]_vars, pc' \in {"update", "return"}, ~full',
                    cmd'.heap = "enough"
             PROVE  /\ call'.done = call'.size
                    /\ pc' = "return" =>
                         /\ node'.size >= call'.offset + call'.done
                         /\ call'.offset + call'.done > 0 =>
                              dirent'[node'.slot].first = node'.inode
  BY DEF DoneOK, cur_off
<1>0. ~full
  BY FullStays
<1>1. CASE WriteAlloc
  <2>1. /\ pc = "write" /\ call.size = 0 /\ pc' = "return" /\ UNCHANGED <<node, call>>
        /\ node \in Nodes /\ cmd \in Commands
    BY <1>1, OpenIs DEF WriteAlloc, At, Writing
  <2>2. call.done = 0 /\ call.offset = 0
    BY <2>1 DEF EchoInv, ShapeOK, CallShape, Writing
  <2> QED BY <2>1, <2>2 DEF Nodes
<1>2. CASE Patch
  <2>1. pc = "walk" /\ call \in Calls /\ pc' = "update"
    BY <1>2, OpenIs DEF Patch, At, Writing
  <2> QED BY <1>2, <2>1 DEF Patch, Calls
<1>3. CASE UpdateEntry
  <2>1. /\ pc = "update" /\ UNCHANGED <<cmd, call>>
        /\ node' = [node EXCEPT !.size = NewSize]
        /\ dirent' = [dirent EXCEPT ![node.slot].first = node.inode,
                                    ![node.slot].size = NewSize]
    BY <1>3 DEF UpdateEntry, At
  <2>2. /\ node.slot \in Slots /\ dirent[node.slot] \in Entry /\ node \in Nodes
        /\ dirent \in Catalogue /\ cur_off \in Nat
    BY <2>1, OpenIs DEF Writing, IInv, DiskOK, Sound
  <2>3. node'.slot = node.slot /\ node'.inode = node.inode /\ node'.size = NewSize
    BY <2>1, <2>2 DEF Nodes
  <2>4. dirent'[node.slot].first = node.inode
    BY <2>1, <2>2 DEF Catalogue, Entry
  <2>5. NewSize >= cur_off
    BY <2>2 DEF NewSize, Nodes
  <2>6. call.done = call.size
    BY <1>0, <2>1 DEF EchoInv, DoneOK
  <2> QED BY <2>1, <2>3, <2>4, <2>5, <2>6 DEF cur_off
<1>4. CASE WriteBuffer \/ Follow \/ Extend \/ Chain \/ WriteReturns
  <2>1. ~WriteBuffer
    BY DEF WriteBuffer
  <2>2. ~Extend
    BY DEF Extend
  <2>3. ~(Follow \/ Chain \/ WriteReturns)
    BY DEF Follow, Chain, WriteReturns, Return, At
  <2> QED BY <1>4, <2>1, <2>2, <2>3
<1>5. CASE UNCHANGED <<pc, fat1, data, dirent, cmd, node, call, at, hop, full>>
  BY <1>0, <1>5 DEF EchoInv, DoneOK, cur_off
<1> QED BY <1>1, <1>2, <1>3, <1>4, <1>5, WritingStep DEF Writing

LEMMA EchoInvariance == Spec => [](IInv /\ EchoInv)
<1>1. Init => EchoInv
  <2> SUFFICES ASSUME Init PROVE EchoInv
    OBVIOUS
  <2>1. pc = "idle" /\ \A s \in Slots : dirent[s].kind # "file"
    BY DEF Init, Unused, Deleted
  <2> QED BY <2>1 DEF EchoInv, SizesOK, ShapeOK, HopOK, BackOK, TextOK, DoneOK, Writing
<1>2. IInv /\ EchoInv /\ [Next]_vars => IInv' /\ EchoInv'
  <2> SUFFICES ASSUME IInv, EchoInv, [Next]_vars PROVE IInv' /\ EchoInv'
    OBVIOUS
  <2>1. IInv' /\ SizesOK' /\ ShapeOK' /\ HopOK' /\ BackOK' /\ TextOK' /\ DoneOK'
    BY StepInv, SizesStep, ShapeStep, HopStep, BackStep, TextStep, DoneStep
  <2> QED BY <2>1 DEF EchoInv
<1> QED BY <1>1, <1>2, InitInv, PTL DEF Spec

(* Power cuts, short heaps and failed commands leave no file whose entry    *)
(* promises more than its chain holds, for as long as no search for a free  *)
(* cluster has failed: what is written is linked before the entry is told   *)
(* of it.  After one it may (a write that ends early still updates).        *)
THEOREM SizesBacked == Spec => []SizeBackedUntilFull
<1>1. IInv /\ EchoInv => SizeBackedUntilFull
  <2> SUFFICES ASSUME SizesOK, ~full PROVE SizeIsBacked
    BY DEF EchoInv, SizeBackedUntilFull
  <2>1. \A s \in Slots : dirent[s].kind = "file" =>
          \A k \in 0 .. dirent[s].size - 1 : ClusterOf(s, k) \in Entries
    BY NthIs DEF SizesOK, ClusterOf
  <2> QED BY <2>1 DEF SizeIsBacked, Backed
<1> QED BY <1>1, EchoInvariance, PTL

(* When echo closes a file it had the heap and the clusters for, the file   *)
(* begins with the text it was given and a newline, unit by unit, whichever *)
(* clusters they fell in.                                                   *)
THEOREM EchoAlwaysRead == Spec => []EchoIsRead
<1>1. IInv /\ EchoInv => EchoIsRead
  <2> SUFFICES ASSUME IInv, EchoInv, pc = "return", call.phase = 2,
                      cmd.heap = "enough", ~full
               PROVE  /\ dirent[node.slot].size > cmd.len
                      /\ Kept(node.slot) =>
                           \A k \in 0 .. cmd.len :
                             UnitAt(node.slot, k) =
                               IF k < cmd.len THEN cmd.text ELSE Newline
    BY DEF EchoIsRead
  <2>1. /\ call.offset = cmd.len /\ call.done = 1 /\ cmd.len \in Nat
        /\ node.size = dirent[node.slot].size /\ node.size \in Nat
    BY OpenIs DEF EchoInv, ShapeOK, CallShape, DoneOK, Writing, Commands, Nodes
  <2>2. cur_off = cmd.len + 1
    BY <2>1 DEF cur_off
  <2>3. node.size >= cur_off /\ dirent[node.slot].first = node.inode
    BY <2>1, <2>2 DEF EchoInv, DoneOK
  <2>4. ASSUME NEW k \in 0 .. cmd.len
        PROVE  /\ ClusterOf(node.slot, k) = Position(k) /\ Written(k)
    <3>1. ClusterOf(node.slot, k) = Position(k)
      BY <2>3, NthIs DEF ClusterOf, Position
    <3>2. k \in 0 .. cur_off - 1
      BY <2>1, <2>2
    <3>3. Written(k)
      BY <3>2 DEF EchoInv, TextOK, Writing
    <3> QED BY <3>1, <3>3
  <2> QED BY <2>1, <2>2, <2>3, <2>4 DEF Kept, UnitAt, Written, Wanted
<1> QED BY <1>1, EchoInvariance, PTL

-----------------------------------------------------------------------------
(* What the commands that read show.  They are loops, written as functions  *)
(* defined by recursion; such a function exists for any step.               *)

IsRun(w, S, base, step, n) ==
  /\ w \in [0 .. n -> S] /\ w[0] = base
  /\ \A i \in 0 .. n - 1 : w[i + 1] = step[<<i, w[i]>>]

LEMMA RunExists ==
  ASSUME NEW S, NEW base \in S, NEW step \in [Nat \X S -> S], NEW n \in Nat
  PROVE  \E w : IsRun(w, S, base, step, n)
<1> DEFINE C == {m \in Nat : ~\E w : IsRun(w, S, base, step, m)}
<1> SUFFICES ASSUME C # {} PROVE FALSE
  OBVIOUS
<1>1. PICK m \in C : \A l \in C : m <= l
  <2>1. C \subseteq Nat
    OBVIOUS
  <2> HIDE DEF C
  <2> QED BY <2>1, Smallest
<1>2. CASE m = 0
  <2>1. IsRun([i \in 0 .. 0 |-> base], S, base, step, 0)
    BY DEF IsRun
  <2> QED BY <1>1, <1>2, <2>1
<1>3. CASE m # 0
  <2>1. m - 1 \in Nat /\ m - 1 \notin C
    BY <1>1, <1>3
  <2>2. PICK w : IsRun(w, S, base, step, m - 1)
    BY <2>1
  <2> DEFINE v == [i \in 0 .. m |-> IF i = m THEN step[<<m - 1, w[m - 1]>>] ELSE w[i]]
  <2>3. m - 1 \in 0 .. m - 1 /\ w[m - 1] \in S
    BY <2>1, <2>2 DEF IsRun
  <2>4. v \in [0 .. m -> S]
    <3>1. step[<<m - 1, w[m - 1]>>] \in S
      BY <2>1, <2>3
    <3>2. \A i \in 0 .. m : i # m => i \in 0 .. m - 1
      BY <1>1
    <3> QED BY <2>2, <3>1, <3>2 DEF IsRun
  <2>5. v[0] = base
    BY <1>1, <1>3, <2>2 DEF IsRun
  <2>6. ASSUME NEW i \in 0 .. m - 1
        PROVE  v[i + 1] = step[<<i, v[i]>>]
    <3>1. v[i] = w[i]
      BY <1>1
    <3>2. CASE i = m - 1
      BY <1>1, <3>1, <3>2
    <3>3. CASE i # m - 1
      <4>1. i \in 0 .. (m - 1) - 1 /\ i + 1 # m /\ i + 1 \in 0 .. m
        BY <1>1, <3>3
      <4> QED BY <2>2, <3>1, <4>1 DEF IsRun
    <3> QED BY <3>2, <3>3
  <2> HIDE DEF v
  <2>7. IsRun(v, S, base, step, m)
    BY <2>4, <2>5, <2>6 DEF IsRun
  <2> QED BY <1>1, <2>7
<1> QED BY <1>2, <1>3

LEMMA RunsAgree ==
  ASSUME NEW S, NEW base \in S, NEW step \in [Nat \X S -> S],
         NEW n \in Nat, NEW m \in Nat, n <= m,
         NEW v, IsRun(v, S, base, step, n), NEW w, IsRun(w, S, base, step, m)
  PROVE  \A i \in 0 .. n : v[i] = w[i]
<1> DEFINE C == {i \in 0 .. n : v[i] # w[i]}
<1> SUFFICES ASSUME C # {} PROVE FALSE
  OBVIOUS
<1>1. PICK i \in C : \A j \in C : i <= j
  <2>1. C \subseteq Nat
    OBVIOUS
  <2> HIDE DEF C
  <2> QED BY <2>1, Smallest
<1>2. i # 0
  BY <1>1 DEF IsRun
<1>3. i - 1 \in 0 .. n - 1 /\ i - 1 \in 0 .. m - 1 /\ i - 1 \notin C /\ i - 1 + 1 = i
  BY <1>1, <1>2
<1>4. v[i - 1] = w[i - 1]
  BY <1>3
<1>5. v[i] = step[<<i - 1, v[i - 1]>>] /\ w[i] = step[<<i - 1, w[i - 1]>>]
  BY <1>3 DEF IsRun
<1> QED BY <1>1, <1>4, <1>5

IsRecursive(f, S, base, step) ==
  f \in [Nat -> S] /\ f[0] = base /\ \A n \in Nat : f[n + 1] = step[<<n, f[n]>>]

LEMMA Recursion ==
  ASSUME NEW S, NEW base \in S, NEW step \in [Nat \X S -> S]
  PROVE  \E f : IsRecursive(f, S, base, step)
<1> DEFINE run(n) == CHOOSE w : IsRun(w, S, base, step, n)
           f == [n \in Nat |-> run(n)[n]]
<1>1. ASSUME NEW n \in Nat PROVE IsRun(run(n), S, base, step, n)
  BY RunExists
<1> HIDE DEF run
<1>2. f \in [Nat -> S]
  <2>1. \A n \in Nat : run(n)[n] \in S
    BY <1>1 DEF IsRun
  <2> QED BY <2>1
<1>3. f[0] = base
  BY <1>1 DEF IsRun
<1>4. ASSUME NEW n \in Nat PROVE f[n + 1] = step[<<n, f[n]>>]
  <2>1. IsRun(run(n), S, base, step, n) /\ IsRun(run(n + 1), S, base, step, n + 1)
    BY <1>1
  <2>2. run(n)[n] = run(n + 1)[n]
    <3>1. n + 1 \in Nat /\ n <= n + 1 /\ n \in 0 .. n
      OBVIOUS
    <3>2. \A i \in 0 .. n : run(n)[i] = run(n + 1)[i]
      BY <2>1, <3>1, RunsAgree
    <3> QED BY <3>1, <3>2
  <2>3. run(n + 1)[n + 1] = step[<<n, run(n + 1)[n]>>]
    BY <2>1 DEF IsRun
  <2> QED BY <2>2, <2>3
<1> HIDE DEF f
<1>5. IsRecursive(f, S, base, step)
  BY <1>2, <1>3, <1>4 DEF IsRecursive
<1> QED BY <1>5

(* Reading.  How much of a file its chain holds.                            *)

LEMMA DivMonotone ==
  ASSUME NEW m \in Nat, NEW n \in Nat, m <= n
  PROVE  m \div ClusterSize <= n \div ClusterSize
<1>1. PICK p \in Nat, q \in Nat, r \in 0 .. ClusterSize - 1, s \in 0 .. ClusterSize - 1 :
        /\ p = m \div ClusterSize /\ m = r + ClusterSize * p
        /\ q = n \div ClusterSize /\ n = s + ClusterSize * q
  <2>1. /\ m \div ClusterSize \in Nat /\ m % ClusterSize \in 0 .. ClusterSize - 1
        /\ m = (m % ClusterSize) + ClusterSize * (m \div ClusterSize)
    BY DivMod
  <2>2. /\ n \div ClusterSize \in Nat /\ n % ClusterSize \in 0 .. ClusterSize - 1
        /\ n = (n % ClusterSize) + ClusterSize * (n \div ClusterSize)
    BY DivMod
  <2> QED BY <2>1, <2>2, Zenon
<1>2. ASSUME q < p PROVE FALSE
  <2> DEFINE b == ClusterSize
  <2>0. b \in Nat \ {0}
    BY SizeAssumption
  <2>1. PICK d \in Nat : p = q + 1 + d
    <3>1. p - q - 1 \in Nat /\ p = q + 1 + (p - q - 1)
      BY <1>2
    <3> QED BY <3>1
  <2>2. m = r + b * p /\ n = s + b * q /\ r \in 0 .. b - 1 /\ s \in 0 .. b - 1
    BY <1>1
  <2> HIDE DEF b
  <2>3. b * p = b * q + b + b * d /\ b * q \in Nat /\ b * d \in Nat
    BY <2>0, <2>1, Z3
  <2> QED BY <2>0, <2>2, <2>3
<1> QED BY <1>1, <1>2

(* The unit at offset k of the file whose chain begins at first.            *)
PlaceOf(first, k) == NthIn(fat1, first, k \div ClusterSize)
UnitOf(first, k) == data[PlaceOf(first, k)][k % ClusterSize]

LEMMA UnitsAre ==
  ASSUME NEW s, NEW k
  PROVE  /\ ClusterOf(s, k) = PlaceOf(dirent[s].first, k)
         /\ UnitAt(s, k) = UnitOf(dirent[s].first, k)
BY DEF ClusterOf, UnitAt, UnitOf, PlaceOf, Nth, NthIn

IsBackedSize(b, first, size) ==
  /\ b \in 0 .. size
  /\ \A k \in Nat : k < b => PlaceOf(first, k) \in Entries
  /\ \A k \in Nat : b <= k /\ k < size => PlaceOf(first, k) \notin Entries

LEMMA BackedSizeIs ==
  ASSUME NEW s, dirent[s].size \in Nat
  PROVE  IsBackedSize(BackedSize(s), dirent[s].first, dirent[s].size)
<1> DEFINE size == dirent[s].size
           first == dirent[s].first
           P(n) == /\ \A k \in 0 .. n - 1 : ClusterOf(s, k) \in Entries
                   /\ n < size => ClusterOf(s, n) \notin Entries
           C == {n \in 0 .. size : n < size => ClusterOf(s, n) \notin Entries}
<1>1. \E n \in 0 .. size : P(n)
  <2>1. size \in C
    OBVIOUS
  <2>2. C \subseteq Nat
    OBVIOUS
  <2>3. PICK n \in C : \A m \in C : n <= m
    <3> HIDE DEF C
    <3> QED BY <2>1, <2>2, Smallest
  <2>4. \A k \in 0 .. n - 1 : k \in 0 .. size /\ k \notin C
    BY <2>2, <2>3
  <2>5. P(n)
    BY <2>3, <2>4
  <2> QED BY <2>3, <2>5
<1> DEFINE b == CHOOSE n \in 0 .. size : P(n)
<1>2. b \in 0 .. size /\ P(b)
  <2> HIDE DEF P
  <2> QED BY <1>1
<1>3. b = BackedSize(s)
  BY DEF BackedSize
<1> HIDE DEF b
<1>4. \A k \in 0 .. b - 1 : PlaceOf(first, k) \in Entries
  BY <1>2, UnitsAre
<1>5. b < size => PlaceOf(first, b) \notin Entries
  BY <1>2, UnitsAre
<1>6. ASSUME NEW k \in Nat, b <= k, k < size
      PROVE  PlaceOf(first, k) \notin Entries
  <2>1. b \in Nat /\ b < size
    BY <1>2, <1>6
  <2>2. /\ b \div ClusterSize \in Nat /\ k \div ClusterSize \in Nat
        /\ b \div ClusterSize <= k \div ClusterSize
    BY <1>6, <2>1, DivMonotone, DivMod
  <2> QED BY <1>5, <2>1, <2>2, NoGaps DEF PlaceOf
<1> QED BY <1>2, <1>3, <1>4, <1>6 DEF IsBackedSize

(* A round of fat16_vfs_read after another, in what it has read so far.     *)
Values == Texts \cup {Junk, Zero, Dots, Newline}
Progress == [cluster : {Free, EOC} \cup Entries, out : Seq(Values)]
StartAt(offset, round) == IF round = 1 THEN offset % ClusterSize ELSE 0
CopyIn(offset, want, round, before) ==
  IF Len(before.out) + (ClusterSize - StartAt(offset, round)) > want
  THEN want - Len(before.out) ELSE ClusterSize - StartAt(offset, round)
GoesOn(want, before) == Len(before.out) < want /\ before.cluster \in Entries
Advance(offset, want, round, before) ==
  IF GoesOn(want, before)
  THEN [cluster |-> fat1[before.cluster],
        out |-> before.out \o
          [i \in 1 .. CopyIn(offset, want, round, before) |->
             data[before.cluster][StartAt(offset, round) + i - 1]]]
  ELSE before
IsReading(w, first, offset, want) ==
  w = [round \in Nat |->
         IF round = 0 THEN [cluster |-> PlaceOf(first, offset), out |-> << >>]
         ELSE Advance(offset, want, round, w[round - 1])]

LEMMA PlaceTyped ==
  ASSUME TypeOK, NEW first \in {Free} \cup Entries, NEW k \in Nat
  PROVE  PlaceOf(first, k) \in {Free, EOC} \cup Entries
<1> DEFINE n == k \div ClusterSize
<1>1. n \in Nat
  BY DivMod
<1> HIDE DEF n
<1>2. CASE n = 0
  BY <1>2, NthZero DEF PlaceOf, n
<1>3. CASE n # 0
  <2>1. PICK l \in Nat : n = l + 1
    <3>1. n - 1 \in Nat /\ n = n - 1 + 1
      BY <1>1, <1>3
    <3> QED BY <3>1
  <2>2. NthIn(fat1, first, n) \in {Free, EOC} \cup Entries
    <3>1. NthIn(fat1, first, l + 1) =
            IF NthIn(fat1, first, l) \in Entries THEN fat1[NthIn(fat1, first, l)] ELSE EOC
      BY NthNext
    <3>2. \A c \in Entries : fat1[c] \in {Free, EOC} \cup Entries
      BY DEF TypeOK
    <3> QED BY <2>1, <3>1, <3>2
  <2> QED BY <2>2 DEF PlaceOf, n
<1> QED BY <1>2, <1>3

LEMMA AdvanceTyped ==
  ASSUME TypeOK, NEW offset \in Nat, NEW want \in Nat, NEW round \in Nat \ {0},
         NEW before \in Progress
  PROVE  Advance(offset, want, round, before) \in Progress
<1> SUFFICES ASSUME GoesOn(want, before)
             PROVE  Advance(offset, want, round, before) \in Progress
  BY DEF Advance
<1> DEFINE start == StartAt(offset, round)
           copy == CopyIn(offset, want, round, before)
           c == before.cluster
           piece == [i \in 1 .. copy |-> data[c][start + i - 1]]
<1>1. /\ c \in Entries /\ before.out \in Seq(Values) /\ Len(before.out) \in Nat
      /\ Len(before.out) < want
  BY DEF GoesOn, Progress
<1>2. start \in 0 .. ClusterSize - 1 /\ ClusterSize \in Nat
  <2>1. offset % ClusterSize \in 0 .. ClusterSize - 1
    BY DivMod
  <2> QED BY <2>1, SizeAssumption DEF StartAt
<1>3. copy \in Nat /\ start + copy <= ClusterSize
  <2> HIDE DEF start
  <2>1. copy = IF Len(before.out) + (ClusterSize - start) > want
               THEN want - Len(before.out) ELSE ClusterSize - start
    BY DEF CopyIn, start
  <2> HIDE DEF copy
  <2> QED BY <1>1, <1>2, <2>1
<1> HIDE DEF start, copy
<1>4. \A u \in Units : data[c][u] \in Values
  BY <1>1 DEF TypeOK, Contents, Values
<1>5. \A i \in 1 .. copy : start + i - 1 \in Units
  BY <1>2, <1>3 DEF Units
<1>6. piece \in Seq(Values)
  <2>1. piece \in [1 .. copy -> Values]
    BY <1>4, <1>5
  <2> HIDE DEF piece
  <2> QED BY <1>3, <2>1
<1> HIDE DEF piece
<1>7. fat1[c] \in {Free, EOC} \cup Entries
  BY <1>1 DEF TypeOK
<1>8. before.out \o piece \in Seq(Values)
  BY <1>1, <1>6
<1>9. Advance(offset, want, round, before) =
        [cluster |-> fat1[c], out |-> before.out \o piece]
  BY DEF Advance, start, copy, piece
<1> QED BY <1>7, <1>8, <1>9 DEF Progress

LEMMA ReadingExists ==
  ASSUME TypeOK, NEW first \in {Free} \cup Entries, NEW offset \in Nat, NEW want \in Nat
  PROVE  \E w : IsReading(w, first, offset, want)
<1> DEFINE base == [cluster |-> PlaceOf(first, offset), out |-> << >>]
           step == [x \in Nat \X Progress |-> Advance(offset, want, x[1] + 1, x[2])]
<1>1. base \in Progress
  <2>1. << >> \in Seq(Values)
    OBVIOUS
  <2> QED BY <2>1, PlaceTyped DEF Progress
<1>2. step \in [Nat \X Progress -> Progress]
  <2>1. \A x \in Nat \X Progress : x[1] + 1 \in Nat \ {0} /\ x[2] \in Progress
    OBVIOUS
  <2>2. \A x \in Nat \X Progress : Advance(offset, want, x[1] + 1, x[2]) \in Progress
    BY <2>1, AdvanceTyped
  <2> QED BY <2>2
<1>3. \A n \in Nat, p \in Progress : step[<<n, p>>] = Advance(offset, want, n + 1, p)
  OBVIOUS
<1> HIDE DEF base, step
<1>4. PICK f : /\ f \in [Nat -> Progress]
               /\ f[0] = base /\ \A n \in Nat : f[n + 1] = step[<<n, f[n]>>]
  <2>1. PICK f : IsRecursive(f, Progress, base, step)
    BY <1>1, <1>2, Recursion
  <2> QED BY <2>1 DEF IsRecursive
<1>5. ASSUME NEW n \in Nat, n # 0
      PROVE  f[n] = Advance(offset, want, n, f[n - 1])
  <2>1. n - 1 \in Nat /\ (n - 1) + 1 = n
    BY <1>5
  <2>2. f[n - 1] \in Progress
    BY <1>4, <2>1
  <2> QED BY <1>3, <1>4, <2>1, <2>2
<1>6. f = [n \in Nat |-> IF n = 0 THEN base ELSE Advance(offset, want, n, f[n - 1])]
  BY <1>4, <1>5
<1> QED BY <1>6 DEF IsReading, base

Want(f, offset, size) == IF size > f.size - offset THEN f.size - offset ELSE size

LEMMA ReadIsReading ==
  ASSUME TypeOK, NEW f, f.inode \in {Free} \cup Entries, f.size \in Nat,
         NEW offset \in Nat, NEW size \in Nat, offset < f.size
  PROVE  \E w : /\ IsReading(w, f.inode, offset, Want(f, offset, size))
                /\ fat16_vfs_read(f, offset, size) = w[Want(f, offset, size)].out
<1> DEFINE want == Want(f, offset, size)
           Eq(w) ==
      w = [round \in Nat |->
        IF round = 0
        THEN [cluster |-> Nth(f.inode, offset \div ClusterSize), out |-> << >>]
        ELSE LET before == w[round - 1]
                 start == IF round = 1 THEN offset % ClusterSize ELSE 0
                 avail == ClusterSize - start
                 copy == IF Len(before.out) + avail > want
                         THEN want - Len(before.out) ELSE avail
             IN IF Len(before.out) < want /\ before.cluster \in Entries
                THEN [cluster |-> fat1[before.cluster],
                      out |-> before.out \o
                        [i \in 1 .. copy |-> data[before.cluster][start + i - 1]]]
                ELSE before]
<1>1. want \in Nat
  BY DEF Want
<1>2. \A w : Eq(w) <=> IsReading(w, f.inode, offset, want)
  <2>1. Nth(f.inode, offset \div ClusterSize) = PlaceOf(f.inode, offset)
    BY NthIs DEF PlaceOf
  <2> HIDE DEF want
  <2> QED BY <2>1 DEF IsReading, Advance, GoesOn, CopyIn, StartAt
<1>3. \E w : Eq(w)
  <2> HIDE DEF Eq
  <2> QED BY <1>1, <1>2, ReadingExists
<1> DEFINE c == CHOOSE w : Eq(w)
<1>4. Eq(c)
  <2> HIDE DEF Eq
  <2> QED BY <1>3
<1>5. fat16_vfs_read(f, offset, size) = c[want].out
  <2>1. ~(offset >= f.size)
    OBVIOUS
  <2>2. fat16_vfs_read(f, offset, size) = IF offset >= f.size THEN << >> ELSE c[want].out
    BY Zenon DEF fat16_vfs_read, Want
  <2> HIDE DEF c, want
  <2> QED BY <2>1, <2>2
<1> HIDE DEF c, Eq
<1> QED BY <1>2, <1>4, <1>5

(* What a read that begins at an offset has read when it stops: units of    *)
(* the file one after another, up to what was wanted or to the chain's end. *)
Piece(first, offset, m) == [i \in 1 .. m |-> UnitOf(first, offset + i - 1)]
ReadSoFar(p, n, first, offset, want, b) ==
  \E m \in 0 .. want :
    /\ p.out = Piece(first, offset, m) /\ (m > 0 => offset + m <= b)
    /\ m < want =>
         /\ p.cluster = PlaceOf(first, offset + m)
         /\ p.cluster \in Entries =>
              /\ n <= m
              /\ IF n = 0 THEN m = 0 ELSE (offset + m) % ClusterSize = 0

(* The next unit of a cluster's start is in the next cluster.               *)
LEMMA NextCluster ==
  ASSUME NEW n \in Nat, NEW k \in Nat, k = n + ClusterSize - (n % ClusterSize)
  PROVE  k \div ClusterSize = (n \div ClusterSize) + 1 /\ k % ClusterSize = 0
<1>1. PICK p \in Nat, q \in Nat, r \in 0 .. ClusterSize - 1, s \in 0 .. ClusterSize - 1 :
        /\ p = n \div ClusterSize /\ r = n % ClusterSize /\ n = r + ClusterSize * p
        /\ q = k \div ClusterSize /\ s = k % ClusterSize /\ k = s + ClusterSize * q
  <2>1. /\ n \div ClusterSize \in Nat /\ n % ClusterSize \in 0 .. ClusterSize - 1
        /\ n = (n % ClusterSize) + ClusterSize * (n \div ClusterSize)
    BY DivMod
  <2>2. /\ k \div ClusterSize \in Nat /\ k % ClusterSize \in 0 .. ClusterSize - 1
        /\ k = (k % ClusterSize) + ClusterSize * (k \div ClusterSize)
    BY DivMod
  <2> QED BY <2>1, <2>2, Zenon
<1> DEFINE b == ClusterSize
<1>2. b \in Nat \ {0}
  BY SizeAssumption
<1>3. k = n + b - r
  BY <1>1
<1> HIDE DEF b
<1>4. b * (p + 1) = b * p + b /\ b * p \in Nat
  BY <1>1, <1>2, Z3
<1>5. k = 0 + b * (p + 1) /\ 0 \in 0 .. b - 1 /\ p + 1 \in Nat
  <2>1. n = r + b * p /\ r \in 0 .. b - 1
    BY <1>1 DEF b
  <2> QED BY <1>1, <1>2, <1>3, <1>4, <2>1
<1>6. s + b * q = 0 + b * (p + 1)
  BY <1>1, <1>5 DEF b
<1>7. q = p + 1 /\ s = 0
  BY <1>1, <1>5, <1>6, Quotients DEF b
<1> QED BY <1>1, <1>7 DEF b

LEMMA FunctionIsSequence ==
  ASSUME NEW V, NEW n \in Nat, NEW f \in [1 .. n -> V]
  PROVE  f \in Seq(V) /\ Len(f) = n
OBVIOUS

Joined(p, q, r) == p \o q = r

LEMMA JoinedIs ==
  ASSUME NEW V, NEW p \in Seq(V), NEW q \in Seq(V), NEW m \in Nat, NEW n \in Nat,
         Len(p) = m, Len(q) = n, NEW r, r = [i \in 1 .. m + n |-> r[i]],
         \A i \in 1 .. m : r[i] = p[i], \A i \in 1 .. n : r[m + i] = q[i]
  PROVE  Joined(p, q, r)
<1> DEFINE s == p \o q
<1>1. s \in Seq(V) /\ Len(s) = m + n
  OBVIOUS
<1>2. \A i \in 1 .. m + n : s[i] = IF i <= m THEN p[i] ELSE q[i - m]
  OBVIOUS
<1> HIDE DEF s
<1>3. s = [i \in 1 .. m + n |-> s[i]]
  BY <1>1
<1>4. ASSUME NEW i \in 1 .. m + n
      PROVE  s[i] = r[i]
  <2>1. CASE i <= m
    <3>1. i \in 1 .. m
      BY <2>1
    <3>2. r[i] = p[i]
      BY <3>1
    <3> QED BY <1>2, <2>1, <3>2
  <2>2. CASE ~(i <= m)
    <3>1. i - m \in 1 .. n /\ m + (i - m) = i
      BY <2>2
    <3>2. r[m + (i - m)] = q[i - m]
      BY <3>1
    <3> QED BY <1>2, <2>2, <3>1, <3>2
  <2> QED BY <2>1, <2>2
<1>5. s = r
  BY <1>3, <1>4
<1> QED BY <1>5 DEF Joined, s

LEMMA PiecesJoin ==
  ASSUME NEW first, NEW offset \in Nat, NEW m \in Nat, NEW copy \in Nat
  PROVE  Joined(Piece(first, offset, m), Piece(first, offset + m, copy),
                Piece(first, offset, m + copy))
<1> DEFINE p == Piece(first, offset, m)
           q == Piece(first, offset + m, copy)
           r == Piece(first, offset, m + copy)
           V == {p[i] : i \in 1 .. m} \cup {q[i] : i \in 1 .. copy}
<1>1. /\ \A i \in 1 .. m : p[i] = UnitOf(first, offset + i - 1)
      /\ \A i \in 1 .. copy : q[i] = UnitOf(first, offset + m + i - 1)
      /\ \A i \in 1 .. m + copy : r[i] = UnitOf(first, offset + i - 1)
  BY DEF Piece
<1>2. /\ p = [i \in 1 .. m |-> p[i]] /\ q = [i \in 1 .. copy |-> q[i]]
      /\ r = [i \in 1 .. m + copy |-> r[i]]
  BY DEF Piece
<1>3. (\A i \in 1 .. m : p[i] \in V) /\ \A i \in 1 .. copy : q[i] \in V
  OBVIOUS
<1> HIDE DEF V, p, q, r
<1>4. p \in [1 .. m -> V] /\ q \in [1 .. copy -> V]
  BY <1>2, <1>3
<1>5. p \in Seq(V) /\ Len(p) = m /\ q \in Seq(V) /\ Len(q) = copy
  BY <1>4, FunctionIsSequence
<1>6. \A i \in 1 .. m : r[i] = p[i]
  BY <1>1
<1>7. \A i \in 1 .. copy : r[m + i] = q[i]
  <2>1. \A i \in 1 .. copy : m + i \in 1 .. m + copy
                             /\ offset + (m + i) - 1 = offset + m + i - 1
    OBVIOUS
  <2> QED BY <1>1, <2>1
<1>8. Joined(p, q, r)
  BY <1>2, <1>5, <1>6, <1>7, JoinedIs
<1> QED BY <1>8 DEF p, q, r

LEMMA PieceLength ==
  ASSUME NEW first, NEW offset, NEW m \in Nat
  PROVE  Len(Piece(first, offset, m)) = m /\ Piece(first, offset, 0) = << >>
<1> DEFINE p == Piece(first, offset, m)
           V == {p[i] : i \in 1 .. m}
<1>1. p = [i \in 1 .. m |-> p[i]]
  BY DEF Piece
<1>2. p \in [1 .. m -> V]
  <2>1. \A i \in 1 .. m : p[i] \in V
    OBVIOUS
  <2> HIDE DEF V, p
  <2> QED BY <1>1, <2>1
<1>3. Len(p) = m
  <2> HIDE DEF V, p
  <2> QED BY <1>2, FunctionIsSequence
<1>4. Piece(first, offset, 0) = << >>
  <2>1. Piece(first, offset, 0) \in [1 .. 0 -> {}]
    BY DEF Piece
  <2>2. Piece(first, offset, 0) \in Seq({}) /\ Len(Piece(first, offset, 0)) = 0
    BY <2>1, FunctionIsSequence
  <2> QED BY <2>2
<1> QED BY <1>3, <1>4

LEMMA ReadRound ==
  ASSUME NEW first, NEW size \in Nat, NEW offset \in Nat, NEW want \in Nat,
         offset + want <= size, NEW b, IsBackedSize(b, first, size), NEW n \in Nat,
         NEW p, ReadSoFar(p, n, first, offset, want, b)
  PROVE  ReadSoFar(Advance(offset, want, n + 1, p), n + 1, first, offset, want, b)
<1>1. PICK m \in 0 .. want :
        /\ p.out = Piece(first, offset, m) /\ (m > 0 => offset + m <= b)
        /\ m < want =>
             /\ p.cluster = PlaceOf(first, offset + m)
             /\ p.cluster \in Entries =>
                  /\ n <= m
                  /\ IF n = 0 THEN m = 0 ELSE (offset + m) % ClusterSize = 0
  BY DEF ReadSoFar
<1>2. Len(p.out) = m
  BY <1>1, PieceLength
<1>3. CASE ~GoesOn(want, p)
  <2>1. Advance(offset, want, n + 1, p) = p /\ (m < want => p.cluster \notin Entries)
    BY <1>2, <1>3 DEF Advance, GoesOn
  <2> QED BY <1>1, <2>1 DEF ReadSoFar
<1>4. CASE GoesOn(want, p)
  <2> DEFINE c == p.cluster
             k == offset + m
             start == StartAt(offset, n + 1)
             copy == CopyIn(offset, want, n + 1, p)
             q == [i \in 1 .. copy |-> data[c][start + i - 1]]
             a == Advance(offset, want, n + 1, p)
  <2>1. /\ m < want /\ c \in Entries /\ c = PlaceOf(first, k) /\ n <= m /\ k \in Nat
        /\ IF n = 0 THEN m = 0 ELSE k % ClusterSize = 0
    BY <1>1, <1>2, <1>4 DEF GoesOn
  <2>2. start = k % ClusterSize /\ start \in 0 .. ClusterSize - 1 /\ ClusterSize \in Nat
    <3>1. k % ClusterSize \in 0 .. ClusterSize - 1
      BY <2>1, DivMod
    <3>2. start = k % ClusterSize
      BY <2>1 DEF StartAt
    <3> QED BY <3>1, <3>2, SizeAssumption
  <2>3. copy = IF m + (ClusterSize - start) > want THEN want - m ELSE ClusterSize - start
    BY <1>2 DEF CopyIn
  <2>4. /\ copy \in Nat /\ 0 < copy /\ copy <= ClusterSize - start /\ m + copy \in 0 .. want
        /\ m + copy < want => copy = ClusterSize - start
    <3> HIDE DEF start, copy
    <3> QED BY <2>1, <2>2, <2>3
  <2>5. a = [cluster |-> fat1[c], out |-> p.out \o q]
    BY <1>4 DEF Advance
  <2> HIDE DEF start, copy
  <2>6. ASSUME NEW i \in 1 .. copy
        PROVE  /\ k + i - 1 \in Nat /\ PlaceOf(first, k + i - 1) = c
               /\ (k + i - 1) % ClusterSize = start + i - 1
    <3>1. k + i - 1 \in Nat /\ k <= k + i - 1 /\ (k + i - 1) - k < ClusterSize - (k % ClusterSize)
      <4> HIDE DEF k
      <4> QED BY <2>1, <2>2, <2>4
    <3>2. /\ (k + i - 1) \div ClusterSize = k \div ClusterSize
          /\ (k + i - 1) % ClusterSize = (k % ClusterSize) + ((k + i - 1) - k)
      BY <2>1, <3>1, SameCluster
    <3>3. (k % ClusterSize) + ((k + i - 1) - k) = start + i - 1
      BY <2>1, <2>2
    <3> QED BY <2>1, <3>1, <3>2, <3>3 DEF PlaceOf
  <2>7. q = Piece(first, k, copy)
    <3>1. \A i \in 1 .. copy : data[c][start + i - 1] = UnitOf(first, k + i - 1)
      BY <2>6 DEF UnitOf
    <3> QED BY <3>1 DEF Piece
  <2>8. p.out \o q = Piece(first, offset, m + copy)
    <3>1. Joined(Piece(first, offset, m), Piece(first, k, copy), Piece(first, offset, m + copy))
      BY <2>4, PiecesJoin
    <3> HIDE DEF q, k
    <3> QED BY <1>1, <2>7, <3>1 DEF Joined
  <2>9. offset + (m + copy) <= b
    <3> DEFINE j == k + copy - 1
    <3>1. j \in Nat /\ j < size /\ PlaceOf(first, j) \in Entries
      BY <2>1, <2>4, <2>6
    <3>2. ~(b <= j)
      <4> HIDE DEF j
      <4> QED BY <3>1 DEF IsBackedSize
    <3>3. b \in Nat
      BY DEF IsBackedSize
    <3> QED BY <2>1, <2>4, <3>1, <3>2, <3>3
  <2>10. ASSUME m + copy < want
         PROVE  /\ fat1[c] = PlaceOf(first, offset + (m + copy))
                /\ n + 1 <= m + copy /\ (offset + (m + copy)) % ClusterSize = 0
    <3> DEFINE j == offset + (m + copy)
    <3>1. j \in Nat /\ j = k + ClusterSize - (k % ClusterSize)
      BY <2>1, <2>2, <2>4, <2>10
    <3> HIDE DEF j, k
    <3>2. j \div ClusterSize = (k \div ClusterSize) + 1 /\ j % ClusterSize = 0
      BY <2>1, <3>1, NextCluster
    <3>3. k \div ClusterSize \in Nat /\ NthIn(fat1, first, k \div ClusterSize) \in Entries
      BY <2>1, DivMod DEF PlaceOf
    <3>4. PlaceOf(first, j) = fat1[c]
      BY <2>1, <3>2, <3>3, NthNext DEF PlaceOf
    <3>5. n + 1 <= m + copy
      BY <2>1, <2>4
    <3> QED BY <3>2, <3>4, <3>5 DEF j
  <2>11. n + 1 # 0 /\ m + copy \in 0 .. want
    BY <2>4
  <2> HIDE DEF a, q, c, k
  <2>12. a.cluster = fat1[c] /\ a.out = Piece(first, offset, m + copy)
    BY <2>5, <2>8
  <2>13. /\ a.out = Piece(first, offset, m + copy) /\ offset + (m + copy) <= b
         /\ m + copy < want =>
              /\ a.cluster = PlaceOf(first, offset + (m + copy))
              /\ n + 1 <= m + copy /\ (offset + (m + copy)) % ClusterSize = 0
    BY <2>9, <2>10, <2>12
  <2>14. ReadSoFar(a, n + 1, first, offset, want, b)
    BY <2>11, <2>13 DEF ReadSoFar
  <2> QED BY <2>14 DEF a
<1> QED BY <1>3, <1>4

ReadLength(offset, size, b) ==
  LET end == IF offset + size < b THEN offset + size ELSE b
  IN IF offset < end THEN end - offset ELSE 0

LEMMA ReadIs ==
  ASSUME TypeOK, NEW f, f.inode \in {Free} \cup Entries, f.size \in Nat,
         NEW offset \in Nat, NEW size \in Nat, NEW b, IsBackedSize(b, f.inode, f.size)
  PROVE  fat16_vfs_read(f, offset, size) = Piece(f.inode, offset, ReadLength(offset, size, b))
<1>0. b \in Nat /\ b <= f.size
  BY DEF IsBackedSize
<1>1. CASE offset >= f.size
  <2>1. ReadLength(offset, size, b) = 0
    BY <1>0, <1>1 DEF ReadLength
  <2>2. fat16_vfs_read(f, offset, size) = << >>
    BY <1>1 DEF fat16_vfs_read
  <2>3. Piece(f.inode, offset, 0) = << >>
    BY PieceLength
  <2> QED BY <2>1, <2>2, <2>3
<1>2. CASE offset < f.size
  <2> DEFINE want == Want(f, offset, size)
  <2>1. want \in Nat /\ offset + want <= f.size /\ want <= size
        /\ (want < size => offset + want = f.size)
    BY <1>2 DEF Want
  <2>2. PICK w : /\ IsReading(w, f.inode, offset, want)
                 /\ fat16_vfs_read(f, offset, size) = w[want].out
    BY <1>2, ReadIsReading
  <2> HIDE DEF want
  <2> DEFINE C == {n \in Nat : ~ReadSoFar(w[n], n, f.inode, offset, want, b)}
  <2>3. C = {}
    <3> SUFFICES ASSUME C # {} PROVE FALSE
      OBVIOUS
    <3>1. PICK n \in C : \A i \in C : n <= i
      <4>1. C \subseteq Nat
        OBVIOUS
      <4> HIDE DEF C
      <4> QED BY <4>1, Smallest
    <3>2. CASE n = 0
      <4>1. w[0] = [cluster |-> PlaceOf(f.inode, offset), out |-> << >>]
        BY <2>2 DEF IsReading
      <4>2. Piece(f.inode, offset, 0) = << >> /\ offset + 0 = offset
        BY PieceLength
      <4>3. 0 \in 0 .. want
        BY <2>1
      <4>4. ReadSoFar(w[0], 0, f.inode, offset, want, b)
        BY <4>1, <4>2, <4>3 DEF ReadSoFar
      <4> QED BY <3>1, <3>2, <4>4
    <3>3. CASE n # 0
      <4>1. PICK l \in Nat : n = l + 1
        <5>1. n - 1 \in Nat /\ n = n - 1 + 1
          BY <3>1, <3>3
        <5> QED BY <5>1
      <4>2. ReadSoFar(w[l], l, f.inode, offset, want, b)
        BY <3>1, <4>1
      <4>3. w[l + 1] = Advance(offset, want, l + 1, w[l])
        BY <2>2, <4>1 DEF IsReading
      <4>4. ReadSoFar(Advance(offset, want, l + 1, w[l]), l + 1, f.inode, offset, want, b)
        BY <2>1, <4>2, ReadRound
      <4> QED BY <3>1, <4>1, <4>3, <4>4
    <3> QED BY <3>2, <3>3
  <2>4. ReadSoFar(w[want], want, f.inode, offset, want, b)
    BY <2>1, <2>3
  <2>5. PICK m \in 0 .. want :
          /\ w[want].out = Piece(f.inode, offset, m) /\ (m > 0 => offset + m <= b)
          /\ m < want => PlaceOf(f.inode, offset + m) \notin Entries
    <3>1. \A m \in 0 .. want : m < want => ~(want <= m)
      BY <2>1
    <3> QED BY <2>4, <3>1 DEF ReadSoFar
  <2>6. m < want => b <= offset + m
    <3>1. offset + m \in Nat
      BY <2>1
    <3> QED BY <1>0, <2>5, <3>1 DEF IsBackedSize
  <2>7. m = ReadLength(offset, size, b)
    BY <1>0, <2>1, <2>5, <2>6 DEF ReadLength
  <2> QED BY <2>2, <2>5, <2>7
<1> QED BY <1>1, <1>2

LEMMA EntryTyped ==
  ASSUME TypeOK, NEW s \in Slots, dirent[s].kind = "file"
  PROVE  /\ dirent[s].first \in {Free} \cup Entries /\ dirent[s].size \in Nat
         /\ NodeAt(s).inode = dirent[s].first /\ NodeAt(s).size = dirent[s].size
<1>1. dirent[s] \in {Unused, Deleted} \cup Entry
  BY DEF TypeOK
<1>2. dirent[s] \in Entry
  BY <1>1 DEF Unused, Deleted
<1> QED BY <1>2 DEF Entry, NodeAt, Free

LEMMA ReadsExactly == TypeOK => ReadIsExact
<1> SUFFICES ASSUME TypeOK, NEW s \in Slots, dirent[s].kind = "file",
                    NEW offset \in 0 .. dirent[s].size, NEW size \in 0 .. dirent[s].size + 1
             PROVE  fat16_vfs_read(NodeAt(s), offset, size) =
                      [i \in 1 .. ReadLength(offset, size, BackedSize(s)) |->
                         UnitAt(s, offset + i - 1)]
  BY DEF ReadIsExact, ReadLength
<1> DEFINE b == BackedSize(s)
<1>1. /\ dirent[s].first \in {Free} \cup Entries /\ dirent[s].size \in Nat
      /\ NodeAt(s).inode = dirent[s].first /\ NodeAt(s).size = dirent[s].size
  BY EntryTyped
<1>2. IsBackedSize(b, dirent[s].first, dirent[s].size)
  BY <1>1, BackedSizeIs
<1>3. offset \in Nat /\ size \in Nat
  BY <1>1
<1>4. fat16_vfs_read(NodeAt(s), offset, size)
        = Piece(dirent[s].first, offset, ReadLength(offset, size, b))
  <2> HIDE DEF b
  <2> QED BY <1>1, <1>2, <1>3, ReadIs
<1>5. \A i : UnitAt(s, offset + i - 1) = UnitOf(dirent[s].first, offset + i - 1)
  BY UnitsAre
<1> QED BY <1>4, <1>5 DEF Piece

(* cat prints one such piece after another, until there is no more.         *)
PrintMore(q, f, buffer) == q \o fat16_vfs_read(f, Len(q), buffer)
IsPrinting(w, f, buffer) ==
  w = [round \in Nat |-> IF round = 0 THEN << >> ELSE PrintMore(w[round - 1], f, buffer)]

LEMMA ReadTyped ==
  ASSUME TypeOK, NEW f, f.inode \in {Free} \cup Entries, f.size \in Nat,
         NEW offset \in Nat, NEW size \in Nat, NEW b, IsBackedSize(b, f.inode, f.size)
  PROVE  fat16_vfs_read(f, offset, size) \in Seq(Values)
<1> DEFINE m == ReadLength(offset, size, b)
<1>1. m \in Nat /\ (m > 0 => offset + m <= b)
  BY DEF ReadLength, IsBackedSize
<1>2. fat16_vfs_read(f, offset, size) = Piece(f.inode, offset, m)
  BY ReadIs
<1> HIDE DEF m
<1>3. ASSUME NEW i \in 1 .. m
      PROVE  UnitOf(f.inode, offset + i - 1) \in Values
  <2> DEFINE k == offset + i - 1
  <2>1. k \in Nat /\ k < b
    BY <1>1 DEF IsBackedSize
  <2> HIDE DEF k
  <2>2. PlaceOf(f.inode, k) \in Entries
    BY <2>1 DEF IsBackedSize
  <2>3. k % ClusterSize \in Units
    BY <2>1, DivMod DEF Units
  <2>4. data[PlaceOf(f.inode, k)] \in [Units -> Values]
    BY <2>2 DEF TypeOK, Contents, Values
  <2>5. UnitOf(f.inode, k) \in Values
    BY <2>3, <2>4 DEF UnitOf
  <2> QED BY <2>5 DEF k
<1>4. Piece(f.inode, offset, m) \in [1 .. m -> Values]
  BY <1>3 DEF Piece
<1>5. Piece(f.inode, offset, m) \in Seq(Values)
  BY <1>1, <1>4, FunctionIsSequence
<1> QED BY <1>2, <1>5

LEMMA PrintingExists ==
  ASSUME TypeOK, NEW f, f.inode \in {Free} \cup Entries, f.size \in Nat,
         NEW buffer \in Nat, NEW b, IsBackedSize(b, f.inode, f.size)
  PROVE  \E w : IsPrinting(w, f, buffer)
<1> DEFINE step == [x \in Nat \X Seq(Values) |-> PrintMore(x[2], f, buffer)]
<1>1. << >> \in Seq(Values)
  OBVIOUS
<1>2. ASSUME NEW q \in Seq(Values)
      PROVE  PrintMore(q, f, buffer) \in Seq(Values)
  <2>1. Len(q) \in Nat
    OBVIOUS
  <2>2. fat16_vfs_read(f, Len(q), buffer) \in Seq(Values)
    BY <2>1, ReadTyped
  <2> QED BY <2>2 DEF PrintMore
<1>3. step \in [Nat \X Seq(Values) -> Seq(Values)]
  <2>1. \A x \in Nat \X Seq(Values) : x[2] \in Seq(Values)
    OBVIOUS
  <2>2. \A x \in Nat \X Seq(Values) : PrintMore(x[2], f, buffer) \in Seq(Values)
    BY <1>2, <2>1
  <2> QED BY <2>2
<1>4. \A n \in Nat, q \in Seq(Values) : step[<<n, q>>] = PrintMore(q, f, buffer)
  OBVIOUS
<1> HIDE DEF step
<1>5. PICK w : /\ w \in [Nat -> Seq(Values)]
               /\ w[0] = << >> /\ \A n \in Nat : w[n + 1] = step[<<n, w[n]>>]
  <2>1. PICK w : IsRecursive(w, Seq(Values), << >>, step)
    BY <1>1, <1>3, Recursion
  <2> QED BY <2>1 DEF IsRecursive
<1>6. ASSUME NEW n \in Nat, n # 0
      PROVE  w[n] = PrintMore(w[n - 1], f, buffer)
  <2>1. n - 1 \in Nat /\ (n - 1) + 1 = n
    BY <1>6
  <2>2. w[n - 1] \in Seq(Values)
    BY <1>5, <2>1
  <2> QED BY <1>4, <1>5, <2>1, <2>2
<1>7. w = [n \in Nat |-> IF n = 0 THEN << >> ELSE PrintMore(w[n - 1], f, buffer)]
  BY <1>5, <1>6
<1> QED BY <1>7 DEF IsPrinting

LEMMA CatIsPrinting ==
  ASSUME TypeOK, NEW f, f.inode \in {Free} \cup Entries, f.size \in Nat,
         NEW buffer \in Nat, NEW b, IsBackedSize(b, f.inode, f.size)
  PROVE  \E w : IsPrinting(w, f, buffer) /\ cmd_cat(f, buffer) = w[f.size]
<1> DEFINE Eq(w) ==
      w = [round \in Nat |->
        IF round = 0 THEN << >>
        ELSE LET before == w[round - 1]
             IN before \o fat16_vfs_read(f, Len(before), buffer)]
<1>1. \A w : Eq(w) <=> IsPrinting(w, f, buffer)
  BY DEF IsPrinting, PrintMore
<1>2. \E w : Eq(w)
  <2> HIDE DEF Eq
  <2> QED BY <1>1, PrintingExists
<1> DEFINE c == CHOOSE w : Eq(w)
<1>3. Eq(c)
  <2> HIDE DEF Eq
  <2> QED BY <1>2
<1>4. cmd_cat(f, buffer) = c[f.size]
  BY Zenon DEF cmd_cat
<1> HIDE DEF c, Eq
<1> QED BY <1>1, <1>3, <1>4

LEMMA CatIs ==
  ASSUME TypeOK, NEW f, f.inode \in {Free} \cup Entries, f.size \in Nat,
         NEW buffer \in Nat \ {0}, NEW b, IsBackedSize(b, f.inode, f.size)
  PROVE  cmd_cat(f, buffer) = Piece(f.inode, 0, b)
<1> DEFINE first == f.inode
<1>0. b \in Nat /\ b <= f.size
  BY DEF IsBackedSize
<1>1. PICK w : IsPrinting(w, f, buffer) /\ cmd_cat(f, buffer) = w[f.size]
  BY CatIsPrinting
<1> DEFINE Good(n) == \E m \in 0 .. b : w[n] = Piece(first, 0, m) /\ (m < b => n <= m)
           C == {n \in Nat : ~Good(n)}
<1>2. C = {}
  <2> SUFFICES ASSUME C # {} PROVE FALSE
    OBVIOUS
  <2>1. PICK n \in C : \A i \in C : n <= i
    <3>1. C \subseteq Nat
      OBVIOUS
    <3> HIDE DEF C
    <3> QED BY <3>1, Smallest
  <2>2. CASE n = 0
    <3>1. w[0] = << >> /\ Piece(first, 0, 0) = << >>
      BY <1>1, PieceLength DEF IsPrinting
    <3>2. 0 \in 0 .. b
      BY <1>0
    <3>3. Good(0)
      BY <3>1, <3>2
    <3> QED BY <2>1, <2>2, <3>3
  <2>3. CASE n # 0
    <3>1. PICK l \in Nat : n = l + 1
      <4>1. n - 1 \in Nat /\ n = n - 1 + 1
        BY <2>1, <2>3
      <4> QED BY <4>1
    <3>2. Good(l)
      BY <2>1, <3>1
    <3>3. PICK m \in 0 .. b : w[l] = Piece(first, 0, m) /\ (m < b => l <= m)
      BY <3>2
    <3> DEFINE more == ReadLength(m, buffer, b)
    <3>4. /\ more \in Nat /\ m \in Nat /\ m + more \in 0 .. b
          /\ m < b => more > 0
      BY <1>0 DEF ReadLength
    <3>5. fat16_vfs_read(f, m, buffer) = Piece(first, m, more)
      BY <3>4, ReadIs
    <3> HIDE DEF more
    <3>6. Len(w[l]) = m
      BY <3>3, <3>4, PieceLength
    <3>7. w[l + 1] = PrintMore(w[l], f, buffer)
      BY <1>1, <3>1 DEF IsPrinting
    <3>8. Joined(Piece(first, 0, m), Piece(first, m, more), Piece(first, 0, m + more))
      <4>1. Joined(Piece(first, 0, m), Piece(first, 0 + m, more), Piece(first, 0, m + more))
        BY <3>4, PiecesJoin
      <4>2. 0 + m = m
        BY <3>4
      <4> QED BY <4>1, <4>2
    <3>9. w[n] = Piece(first, 0, m + more)
      BY <3>1, <3>3, <3>5, <3>6, <3>7, <3>8 DEF Joined, PrintMore
    <3>10. m + more < b => n <= m + more
      <4>1. m < b => l <= m
        BY <3>3
      <4> QED BY <1>0, <3>1, <3>4, <4>1
    <3>11. Good(n)
      BY <3>4, <3>9, <3>10
    <3> QED BY <2>1, <3>11
  <2> QED BY <2>2, <2>3
<1>3. Good(f.size)
  BY <1>2
<1> QED BY <1>0, <1>1, <1>3

LEMMA CatsExactly == TypeOK => CatPrintsFile
<1> SUFFICES ASSUME TypeOK, NEW s \in Slots, dirent[s].kind = "file",
                    NEW buffer \in 1 .. ClusterSize
             PROVE  cmd_cat(NodeAt(s), buffer) =
                      [i \in 1 .. BackedSize(s) |-> UnitAt(s, i - 1)]
  BY DEF CatPrintsFile
<1> DEFINE b == BackedSize(s)
           first == dirent[s].first
<1>1. /\ first \in {Free} \cup Entries /\ dirent[s].size \in Nat
      /\ NodeAt(s).inode = first /\ NodeAt(s).size = dirent[s].size
  BY EntryTyped
<1>2. IsBackedSize(b, first, dirent[s].size)
  BY <1>1, BackedSizeIs
<1>3. buffer \in Nat \ {0}
  BY SizeAssumption
<1>4. cmd_cat(NodeAt(s), buffer) = Piece(first, 0, b)
  <2> HIDE DEF b, first
  <2> QED BY <1>1, <1>2, <1>3, CatIs
<1>5. \A i \in 1 .. b : UnitAt(s, i - 1) = UnitOf(first, 0 + i - 1)
  <2>1. \A i \in 1 .. b : 0 + i - 1 = i - 1
    BY <1>2 DEF IsBackedSize
  <2> QED BY <2>1, UnitsAre
<1> QED BY <1>4, <1>5 DEF Piece

(* ls.  No entry stands behind a slot that was never used: an entry is      *)
(* written to the first slot that is none, and a directory is zeroed before *)
(* anything is in it.                                                       *)
Packed ==
  \A s, t \in Slots :
    IsEntry(s) /\ t[1] = s[1] /\ t[2] <= s[2] => dirent[t].kind # "unused"

LEMMA FirstOf ==
  ASSUME NEW d, NEW S \in SUBSET SlotsOf(d), S # {}
  PROVE  First(S) \in S /\ \A t \in S : First(S)[2] <= t[2]
<1> DEFINE N == {s[2] : s \in S}
<1>1. N \subseteq Nat /\ N # {}
  BY SlotsAre
<1>2. \E n \in N : \A m \in N : n <= m
  BY <1>1, Smallest
<1>3. \E s \in S : \A t \in S : s[2] <= t[2]
  BY <1>2
<1> QED BY <1>3 DEF First

LEMMA SlotOf ==
  ASSUME NEW s \in Slots
  PROVE  s \in SlotsOf(s[1]) /\ s[1] \in Directories /\ s[2] \in Nat /\ s = <<s[1], s[2]>>
BY SlotsAre

LEMMA PackedStep == IInv /\ Packed /\ [Next]_vars => Packed'
<1> SUFFICES ASSUME IInv, Packed, [Next]_vars,
                    NEW s \in Slots, NEW t \in Slots, dirent'[s].kind \in {"file", "dir"},
                    t[1] = s[1], t[2] <= s[2]
             PROVE  dirent'[t].kind # "unused"
  BY DEF Packed, IsEntry
<1>1. CASE dirent' = dirent
  BY <1>1 DEF Packed, IsEntry
<1>2. ASSUME CanWriteEntry, cmd \in Commands,
             NEW kind \in {"file", "dir"}, NEW c, fat16_write_dir_entry(kind, c)
      PROVE  dirent'[t].kind # "unused"
  <2> DEFINE f == FreeSlot(cmd.dir)
             S == {u \in SlotsOf(cmd.dir) : ~IsEntry(u)}
  <2>1. cmd.dir \in Directories /\ f # NoSlot /\ f = First(S)
    BY <1>2 DEF CanWriteEntry, Commands, FreeSlot
  <2>2. S # {} /\ S \in SUBSET SlotsOf(cmd.dir)
    BY <2>1 DEF First
  <2>3. f \in S /\ \A u \in S : f[2] <= u[2]
    <3> HIDE DEF S, f
    <3> QED BY <2>1, <2>2, FirstOf
  <2>4. CASE dirent' = dirent
    BY <1>1, <2>4
  <2>5. CASE \A u \in Slots : dirent'[u].kind = IF u = f THEN kind ELSE dirent[u].kind
    <3>1. CASE s = f
      <4>1. ASSUME t # f PROVE IsEntry(t)
        <5>1. t \in SlotsOf(cmd.dir) /\ t[2] \in Nat /\ f[2] \in Nat /\ t[2] # f[2]
          BY <2>3, <3>1, <4>1, SlotOf, SlotsAre
        <5> HIDE DEF f
        <5> QED BY <2>3, <3>1, <5>1
      <4> QED BY <1>2, <2>5, <4>1 DEF IsEntry
    <3>2. CASE s # f
      BY <1>2, <2>5, <3>2 DEF Packed, IsEntry
    <3> QED BY <3>1, <3>2
  <2>6. \/ dirent' = dirent
        \/ \A u \in Slots : dirent'[u].kind = IF u = f THEN kind ELSE dirent[u].kind
    BY <1>2 DEF fat16_write_dir_entry, IInv, DiskOK, Sound, Catalogue
  <2> QED BY <2>4, <2>5, <2>6
<1>3. CASE MkdirZero
  <2>1. \A u \in Slots : dirent'[u] = IF u[1] = at THEN Unused ELSE dirent[u]
    BY <1>3 DEF MkdirZero
  <2>2. s[1] # at
    BY <2>1 DEF Unused
  <2> QED BY <2>1, <2>2 DEF Packed, IsEntry
<1>4. CASE UpdateEntry
  <2>1. dirent[node.slot].kind = "file" /\ node.slot \in Slots
    BY <1>4 DEF UpdateEntry, At, IInv, MemoryOK, OpenOK, Writing
  <2>2. dirent[node.slot] \in Entry
    BY <2>1, EntryIs DEF IInv, DiskOK, Sound, IsEntry
  <2>3. \A u \in Slots : dirent'[u].kind = dirent[u].kind
    BY <1>4, <2>1, <2>2 DEF UpdateEntry, IInv, DiskOK, Sound, Catalogue, Entry
  <2> QED BY <2>3 DEF Packed, IsEntry
<1> QED BY <1>1, <1>2, <1>3, <1>4, DirentStep

(* The entries of a directory numbered by how many are before them: each    *)
(* number is used once, and none is left out.                               *)
EntriesOf(d) == {s \in SlotsOf(d) : IsEntry(s)}
Before(S, s) == {t \in S : t[2] < s[2]}
Rank(S, s) == Cardinality(Before(S, s))
Ranked(S, i) == First({s \in S : Rank(S, s) = i})

LEMMA RankIs ==
  ASSUME NEW d, NEW S \in SUBSET SlotsOf(d), NEW s \in S
  PROVE  /\ IsFiniteSet(S) /\ IsFiniteSet(Before(S, s)) /\ Rank(S, s) \in Nat
         /\ Rank(S, s) <= Cardinality(S) /\ Cardinality(S) \in Nat
<1>1. IsFiniteSet(SlotsOf(d))
  <2>1. IsFiniteSet({d})
    BY FS_Singleton
  <2>2. IsFiniteSet(1 .. (IF d = Root THEN RootSlots ELSE DirSlots))
    BY SlotsAssumption, FS_Interval
  <2> QED BY <2>1, <2>2, FS_Product DEF SlotsOf
<1>2. IsFiniteSet(S)
  BY <1>1, FS_Subset
<1>3. Before(S, s) \in SUBSET S
  BY DEF Before
<1>4. IsFiniteSet(Before(S, s)) /\ Cardinality(Before(S, s)) <= Cardinality(S)
  BY <1>2, <1>3, FS_Subset
<1> QED BY <1>2, <1>4, FS_CardinalityType DEF Rank

LEMMA RankGrows ==
  ASSUME NEW d, NEW S \in SUBSET SlotsOf(d), NEW s \in S, NEW t \in S, s[2] < t[2]
  PROVE  Rank(S, s) < Rank(S, t)
<1>1. s[2] \in Nat /\ t[2] \in Nat /\ \A u \in S : u[2] \in Nat
  BY SlotsAre
<1>2. Before(S, s) \cup {s} \in SUBSET Before(S, t) /\ s \notin Before(S, s)
  BY <1>1 DEF Before
<1>3. IsFiniteSet(Before(S, s)) /\ IsFiniteSet(Before(S, t)) /\ Rank(S, s) \in Nat
      /\ Rank(S, t) \in Nat
  BY RankIs
<1>4. Cardinality(Before(S, s) \cup {s}) = Rank(S, s) + 1
  BY <1>2, <1>3, FS_AddElement DEF Rank
<1>5. Cardinality(Before(S, s) \cup {s}) <= Rank(S, t)
  BY <1>2, <1>3, FS_Subset DEF Rank
<1> QED BY <1>3, <1>4, <1>5

(* Slots of a directory with the same number are the same.                  *)
LEMMA RankTells ==
  ASSUME NEW d, NEW S \in SUBSET SlotsOf(d), NEW s \in S, NEW t \in S
  PROVE  /\ Rank(S, s) = Rank(S, t) => s = t
         /\ Rank(S, s) < Rank(S, t) => s[2] < t[2]
<1>1. /\ s[2] \in Nat /\ t[2] \in Nat /\ s = <<d, s[2]>> /\ t = <<d, t[2]>>
  BY SlotsAre
<1>2. Rank(S, s) \in Nat /\ Rank(S, t) \in Nat
  BY RankIs
<1>3. s[2] < t[2] => Rank(S, s) < Rank(S, t)
  BY RankGrows
<1>4. t[2] < s[2] => Rank(S, t) < Rank(S, s)
  BY RankGrows
<1>5. s[2] = t[2] => s = t
  BY <1>1
<1> QED BY <1>1, <1>2, <1>3, <1>4, <1>5

LEMMA RankBelow ==
  ASSUME NEW d, NEW S \in SUBSET SlotsOf(d), NEW s \in S, Rank(S, s) # 0
  PROVE  \E t \in S : Rank(S, t) + 1 = Rank(S, s)
<1> DEFINE B == Before(S, s)
           D == {s[2] - t[2] : t \in B}
<1>1. IsFiniteSet(B) /\ Rank(S, s) \in Nat /\ B \subseteq S
  BY RankIs DEF Before
<1>2. B # {}
  BY <1>1, FS_EmptySet DEF Rank
<1>3. \A t \in S : t[2] \in Nat
  BY SlotsAre
<1>4. D \subseteq Nat /\ D # {}
  BY <1>2, <1>3 DEF Before
<1>5. \E x \in D : \A y \in D : x <= y
  <2> HIDE DEF D
  <2> QED BY <1>4, Smallest
<1>6. PICK t \in B : \A u \in B : s[2] - t[2] <= s[2] - u[2]
  BY <1>5
<1>7. t \in S /\ t[2] < s[2]
  BY DEF Before
<1>8. B = Before(S, t) \cup {t}
  <2>1. ASSUME NEW u \in B, u # t
        PROVE  u[2] < t[2]
    <3>1. u \in S /\ u = <<d, u[2]>> /\ t = <<d, t[2]>>
      BY <1>1, <1>7, SlotsAre
    <3>2. u[2] \in Nat /\ t[2] \in Nat /\ s[2] \in Nat /\ s[2] - t[2] <= s[2] - u[2]
      BY <1>3, <1>6, <1>7, <3>1
    <3> QED BY <2>1, <3>1, <3>2
  <2>2. ASSUME NEW u \in S, u[2] < t[2]
        PROVE  u[2] < s[2]
    BY <1>3, <1>7, <2>2
  <2> QED BY <1>1, <1>7, <2>1, <2>2 DEF Before
<1>9. t \notin Before(S, t) /\ IsFiniteSet(Before(S, t)) /\ Rank(S, t) \in Nat
  <2>1. t \notin Before(S, t)
    BY <1>3, <1>7 DEF Before
  <2> QED BY <1>7, <2>1, RankIs
<1>10. Cardinality(B) = Rank(S, t) + 1
  <2>1. Cardinality(Before(S, t) \cup {t}) = Cardinality(Before(S, t)) + 1
    BY <1>9, FS_AddElement
  <2> QED BY <1>8, <2>1 DEF Rank
<1> QED BY <1>7, <1>10 DEF Rank

(* The numbers are those below their number n.                              *)
IsCount(n, S) ==
  /\ \A s \in S : Rank(S, s) \in 0 .. n - 1
  /\ \A i \in 0 .. n - 1 : Ranked(S, i) \in S /\ Rank(S, Ranked(S, i)) = i

LEMMA CountIs ==
  ASSUME NEW d, NEW S \in SUBSET SlotsOf(d)
  PROVE  \E n \in Nat : IsCount(n, S)
<1> DEFINE C == {i \in Nat : \A s \in S : Rank(S, s) # i}
<1>1. C # {}
  <2>1. CASE S = {}
    BY <2>1
  <2>2. ASSUME NEW s \in S
        PROVE  Cardinality(S) + 1 \in C
    <3>1. Cardinality(S) \in Nat /\ \A t \in S : Rank(S, t) <= Cardinality(S)
                                                   /\ Rank(S, t) \in Nat
      BY RankIs
    <3> QED BY <3>1
  <2> QED BY <2>1, <2>2
<1>2. PICK n \in C : \A i \in C : n <= i
  <2>1. C \subseteq Nat
    OBVIOUS
  <2> HIDE DEF C
  <2> QED BY <1>1, <2>1, Smallest
<1>3. ASSUME NEW s \in S
      PROVE  Rank(S, s) < n
  <2> DEFINE A == {k \in Nat : \E t \in S : Rank(S, t) = k /\ n <= k}
  <2> SUFFICES ASSUME ~(Rank(S, s) < n) PROVE FALSE
    OBVIOUS
  <2>1. Rank(S, s) \in A
    <3>1. Rank(S, s) \in Nat
      BY RankIs
    <3> QED BY <1>2, <3>1
  <2>2. PICK k \in A : \A l \in A : k <= l
    <3>1. A \subseteq Nat
      OBVIOUS
    <3> HIDE DEF A
    <3> QED BY <2>1, <3>1, Smallest
  <2>3. PICK t \in S : Rank(S, t) = k /\ n <= k
    OBVIOUS
  <2>4. k # n /\ k # 0
    BY <1>2, <2>2, <2>3
  <2>5. PICK u \in S : Rank(S, u) + 1 = k
    BY <2>3, <2>4, RankBelow
  <2>6. Rank(S, u) \in Nat /\ n <= Rank(S, u) /\ Rank(S, u) < k
    <3>1. Rank(S, u) \in Nat
      BY RankIs
    <3> QED BY <1>2, <2>2, <2>3, <2>4, <2>5, <3>1
  <2>7. Rank(S, u) \in A
    BY <2>6
  <2> QED BY <2>2, <2>6, <2>7
<1>4. \A s \in S : Rank(S, s) \in 0 .. n - 1
  <2>1. \A s \in S : Rank(S, s) \in Nat
    BY RankIs
  <2> QED BY <1>2, <1>3, <2>1
<1>5. ASSUME NEW i \in 0 .. n - 1
      PROVE  Ranked(S, i) \in S /\ Rank(S, Ranked(S, i)) = i
  <2> DEFINE A == {s \in S : Rank(S, s) = i}
  <2>1. i \in Nat /\ ~(n <= i)
    BY <1>2
  <2>2. A # {} /\ A \in SUBSET SlotsOf(d)
    BY <1>2, <2>1
  <2>3. First(A) \in A
    <3> HIDE DEF A
    <3> QED BY <2>2, FirstOf
  <2> QED BY <2>3 DEF Ranked
<1> QED BY <1>2, <1>4, <1>5 DEF IsCount

(* ls reads one number after another, until there is no entry.              *)
ListMore(S, i, q) == IF Ranked(S, i) = NoSlot THEN << >> ELSE <<Ranked(S, i)>> \o q
IsListing(w, S) == w = [i \in Nat |-> ListMore(S, i, w[i + 1])]
RestFrom(S, n, i) == [j \in 1 .. (IF i < n THEN n - i ELSE 0) |-> Ranked(S, i + j - 1)]

LEMMA ListStep ==
  ASSUME NEW d \in Directories, NEW S \in SUBSET SlotsOf(d),
         NEW n \in Nat, IsCount(n, S), NEW i \in Nat
  PROVE  /\ ListMore(S, i, RestFrom(S, n, i + 1)) = RestFrom(S, n, i)
         /\ n <= i => RestFrom(S, n, i) = << >> /\ \A q : ListMore(S, i, q) = << >>
<1>1. ASSUME n <= i
      PROVE  Ranked(S, i) = NoSlot /\ RestFrom(S, n, i) = << >>
  <2>1. {s \in S : Rank(S, s) = i} = {}
    BY <1>1 DEF IsCount
  <2>2. RestFrom(S, n, i) \in [1 .. 0 -> {}]
    BY <1>1 DEF RestFrom
  <2>3. RestFrom(S, n, i) \in Seq({}) /\ Len(RestFrom(S, n, i)) = 0
    BY <2>2, FunctionIsSequence
  <2> QED BY <2>1, <2>3 DEF Ranked, First
<1>2. ASSUME i < n
      PROVE  /\ Ranked(S, i) \in S /\ Ranked(S, i) # NoSlot
             /\ <<Ranked(S, i)>> \o RestFrom(S, n, i + 1) = RestFrom(S, n, i)
  <2> DEFINE q == RestFrom(S, n, i + 1)
             p == <<Ranked(S, i)>>
             k == n - (i + 1)
  <2>1. \A j \in 0 .. n - 1 : Ranked(S, j) \in S
    BY DEF IsCount
  <2>2. Ranked(S, i) \in S /\ Ranked(S, i) # NoSlot
    BY <1>2, <2>1, SlotsAre
  <2>3. k \in Nat /\ n - i = k + 1
    BY <1>2
  <2>4. q = [j \in 1 .. k |-> Ranked(S, i + j)]
    <3>1. (IF i + 1 < n THEN n - (i + 1) ELSE 0) = k
      BY <1>2
    <3>2. \A j \in 1 .. k : (i + 1) + j - 1 = i + j
      BY <2>3
    <3> QED BY <3>1, <3>2 DEF RestFrom
  <2> HIDE DEF k
  <2>5. q \in [1 .. k -> S]
    <3>1. \A j \in 1 .. k : i + j \in 0 .. n - 1
      BY <2>3
    <3>2. \A j \in 1 .. k : Ranked(S, i + j) \in S
      BY <2>1, <3>1
    <3> HIDE DEF q
    <3> QED BY <2>4, <3>2
  <2>6. q \in Seq(S) /\ Len(q) = k
    <3> HIDE DEF q
    <3> QED BY <2>3, <2>5, FunctionIsSequence
  <2>7. p \in Seq(S) /\ Len(p) = 1 /\ p[1] = Ranked(S, i)
    BY <2>2
  <2>8. \A j \in 1 .. k : q[j] = Ranked(S, i + j)
    <3> HIDE DEF q
    <3> QED BY <2>4
  <2> DEFINE r == RestFrom(S, n, i)
  <2>9. /\ r = [j \in 1 .. 1 + k |-> r[j]]
        /\ \A j \in 1 .. 1 + k : r[j] = Ranked(S, i + j - 1)
    <3>1. (IF i < n THEN n - i ELSE 0) = 1 + k
      BY <1>2, <2>3
    <3> QED BY <3>1 DEF RestFrom
  <2> HIDE DEF p, q, r
  <2>10. \A j \in 1 .. 1 : r[j] = p[j]
    <3>1. 1 \in 1 .. 1 + k /\ i + 1 - 1 = i
      BY <2>3
    <3>2. r[1] = p[1]
      BY <2>7, <2>9, <3>1
    <3> QED BY <3>2
  <2>11. \A j \in 1 .. k : r[1 + j] = q[j]
    <3>1. \A j \in 1 .. k : 1 + j \in 1 .. 1 + k /\ i + (1 + j) - 1 = i + j
      BY <2>3
    <3> QED BY <2>8, <2>9, <3>1
  <2>12. Joined(p, q, r)
    BY <2>3, <2>6, <2>7, <2>9, <2>10, <2>11, JoinedIs
  <2> QED BY <2>2, <2>12 DEF Joined, p, q, r
<1> QED BY <1>1, <1>2 DEF ListMore

LEMMA ListingIs ==
  ASSUME NEW d \in Directories, NEW S \in SUBSET SlotsOf(d),
         NEW n \in Nat, IsCount(n, S)
  PROVE  /\ \E w : IsListing(w, S)
         /\ \A w : IsListing(w, S) => w[0] = RestFrom(S, n, 0)
<1>1. \E w : IsListing(w, S)
  <2> DEFINE w == [i \in Nat |-> RestFrom(S, n, i)]
  <2>1. \A i \in Nat : i + 1 \in Nat /\ w[i + 1] = RestFrom(S, n, i + 1)
    OBVIOUS
  <2>2. \A i \in Nat : RestFrom(S, n, i) = ListMore(S, i, w[i + 1])
    BY <2>1, ListStep
  <2>3. w = [i \in Nat |-> ListMore(S, i, w[i + 1])]
    BY <2>2
  <2> QED BY <2>3 DEF IsListing
<1>2. ASSUME NEW w, IsListing(w, S)
      PROVE  w[0] = RestFrom(S, n, 0)
  <2> DEFINE C == {k \in Nat : k <= n /\ w[n - k] # RestFrom(S, n, n - k)}
  <2>0. \A i \in Nat : w[i] = ListMore(S, i, w[i + 1])
    BY <1>2 DEF IsListing
  <2>1. C = {}
    <3> SUFFICES ASSUME C # {} PROVE FALSE
      OBVIOUS
    <3>1. PICK k \in C : \A l \in C : k <= l
      <4>1. C \subseteq Nat
        OBVIOUS
      <4> HIDE DEF C
      <4> QED BY <4>1, Smallest
    <3> DEFINE i == n - k
    <3>2. i \in Nat /\ w[i] # RestFrom(S, n, i) /\ k \in Nat /\ k <= n
      BY <3>1
    <3>3. CASE k = 0
      <4>1. n <= i
        BY <3>3
      <4> HIDE DEF i
      <4>2. w[i] = << >> /\ RestFrom(S, n, i) = << >>
        <5>1. RestFrom(S, n, i) = << >> /\ ListMore(S, i, w[i + 1]) = << >>
          BY <3>2, <4>1, ListStep
        <5> QED BY <2>0, <3>2, <5>1
      <4> QED BY <3>2, <4>2
    <3>4. CASE k # 0
      <4>1. k - 1 \in Nat /\ k - 1 \notin C /\ n - (k - 1) = i + 1
        BY <3>1, <3>4
      <4>2. w[i + 1] = RestFrom(S, n, i + 1)
        BY <3>2, <4>1
      <4> HIDE DEF i
      <4>3. w[i] = RestFrom(S, n, i)
        <5>1. ListMore(S, i, RestFrom(S, n, i + 1)) = RestFrom(S, n, i)
          BY <3>2, ListStep
        <5> QED BY <2>0, <3>2, <4>2, <5>1
      <4> QED BY <3>2, <4>3
    <3> QED BY <3>3, <3>4
  <2>2. n \notin C /\ n - n = 0
    BY <2>1
  <2> QED BY <2>2
<1> QED BY <1>1, <1>2

LEMMA ReaddirIs ==
  ASSUME Packed, NEW d \in Directories, NEW i
  PROVE  fat16_vfs_readdir(d, i) = Ranked(EntriesOf(d), i)
<1> DEFINE S == EntriesOf(d)
           E == {s \in Listed(d) : IsEntry(s)}
<1>1. E = S
  <2>1. ASSUME NEW s \in SlotsOf(d), IsEntry(s) PROVE s \in Listed(d)
    BY <2>1, SlotsAre DEF Packed, Listed
  <2> QED BY <2>1 DEF Listed, EntriesOf
<1>2. \A s : {t \in Listed(d) : IsEntry(t) /\ t[2] < s[2]} = Before(S, s)
  <2>1. \A s : {t \in Listed(d) : IsEntry(t) /\ t[2] < s[2]} = {t \in E : t[2] < s[2]}
    OBVIOUS
  <2> QED BY <1>1, <2>1 DEF Before
<1>3. {s \in Listed(d) : IsEntry(s) /\
           Cardinality({t \in Listed(d) : IsEntry(t) /\ t[2] < s[2]}) = i}
        = {s \in S : Rank(S, s) = i}
  <2>1. {s \in Listed(d) : IsEntry(s) /\
           Cardinality({t \in Listed(d) : IsEntry(t) /\ t[2] < s[2]}) = i}
          = {s \in E : Rank(S, s) = i}
    BY <1>2 DEF Rank
  <2> QED BY <1>1, <2>1
<1> QED BY <1>3 DEF fat16_vfs_readdir, Ranked

LEMMA LsIs ==
  ASSUME Packed, NEW d \in Directories, NEW n \in Nat, IsCount(n, EntriesOf(d))
  PROVE  cmd_ls(d) = RestFrom(EntriesOf(d), n, 0)
<1> DEFINE S == EntriesOf(d)
           Eq(w) ==
             w = [i \in Nat |->
                    LET entry == fat16_vfs_readdir(d, i)
                    IN IF entry = NoSlot THEN << >> ELSE <<entry>> \o w[i + 1]]
<1>1. \A w : Eq(w) <=> IsListing(w, S)
  BY ReaddirIs DEF IsListing, ListMore
<1>2. S \in SUBSET SlotsOf(d)
  BY DEF EntriesOf
<1>3. \E w : Eq(w)
  <2> HIDE DEF Eq
  <2> QED BY <1>1, <1>2, ListingIs
<1> DEFINE c == CHOOSE w : Eq(w)
<1>4. Eq(c)
  <2> HIDE DEF Eq
  <2> QED BY <1>3
<1>5. cmd_ls(d) = c[0]
  BY Zenon DEF cmd_ls
<1> HIDE DEF c, Eq
<1>6. c[0] = RestFrom(S, n, 0)
  BY <1>1, <1>2, <1>4, ListingIs
<1> QED BY <1>5, <1>6

LEMMA ListsExactly == IInv /\ Packed => LsShowsAll
<1> SUFFICES ASSUME IInv, Packed, NEW d \in OpenDirectories
             PROVE  /\ {cmd_ls(d)[i] : i \in DOMAIN cmd_ls(d)} = EntriesOf(d)
                    /\ \A i, j \in DOMAIN cmd_ls(d) :
                         i < j => cmd_ls(d)[i][2] < cmd_ls(d)[j][2]
  BY DEF LsShowsAll, EntriesOf
<1> DEFINE S == EntriesOf(d)
<1>1. d \in Directories
  BY OpenDirectory DEF IInv
<1>2. S \in SUBSET SlotsOf(d)
  BY DEF EntriesOf
<1>3. PICK n \in Nat : IsCount(n, S)
  BY <1>2, CountIs
<1> DEFINE w == cmd_ls(d)
<1>4. w = RestFrom(S, n, 0)
  BY <1>1, <1>3, LsIs
<1>5. DOMAIN w = 1 .. n /\ \A i \in 1 .. n : w[i] = Ranked(S, i - 1)
  <2>1. (IF 0 < n THEN n - 0 ELSE 0) = n /\ \A i \in 1 .. n : 0 + i - 1 = i - 1
    OBVIOUS
  <2> QED BY <1>4, <2>1 DEF RestFrom
<1> HIDE DEF w, S
<1>6. \A i \in 1 .. n : w[i] \in S /\ Rank(S, w[i]) = i - 1
  <2>1. \A i \in 1 .. n : i - 1 \in 0 .. n - 1
    OBVIOUS
  <2> QED BY <1>3, <1>5, <2>1 DEF IsCount
<1>7. ASSUME NEW s \in S
      PROVE  \E i \in 1 .. n : w[i] = s
  <2>1. Rank(S, s) \in 0 .. n - 1
    BY <1>3 DEF IsCount
  <2>2. PICK i \in 1 .. n : i - 1 = Rank(S, s)
    <3>1. Rank(S, s) + 1 \in 1 .. n /\ (Rank(S, s) + 1) - 1 = Rank(S, s)
      BY <2>1
    <3> QED BY <3>1
  <2>3. w[i] = s
    BY <1>2, <1>6, <2>2, RankTells
  <2> QED BY <2>3
<1>8. ASSUME NEW i \in 1 .. n, NEW j \in 1 .. n, i < j
      PROVE  w[i][2] < w[j][2]
  <2>1. Rank(S, w[i]) < Rank(S, w[j])
    BY <1>6, <1>8
  <2> QED BY <1>2, <1>6, <2>1, RankTells
<1>9. {w[i] : i \in DOMAIN w} = S
  BY <1>5, <1>6, <1>7
<1> QED BY <1>5, <1>8, <1>9 DEF w, S

LEMMA PackedInit == Init => Packed
BY DEF Init, Packed, IsEntry, Unused, Deleted

(* Whatever crashes and failed commands have left, at a prompt a read gives *)
(* the units that are there, in their order and up to the file's size, cat  *)
(* all of them with any buffer, and ls every entry once: no entry hides     *)
(* behind a slot that was never used, and no chain misleads a reader.       *)
THEOREM ReadersAlwaysSeeDisk == Spec => []ReadersSeeDisk
<1>1. IInv /\ Packed /\ [Next]_vars => IInv' /\ Packed'
  BY StepInv, PackedStep
<1>2. Init => IInv /\ Packed
  BY InitInv, PackedInit
<1>3. IInv /\ Packed => ReadersSeeDisk
  BY IInvImplies, ReadsExactly, CatsExactly, ListsExactly DEF ReadersSeeDisk
<1> QED BY <1>1, <1>2, <1>3, PTL DEF Spec

=============================================================================
