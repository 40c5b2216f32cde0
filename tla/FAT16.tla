------------------------------- MODULE FAT16 --------------------------------
(* The FAT16 volume under touch, mkdir and echo >, one sector write at a    *)
(* time.  The file system has no journal and no recovery: power can fail    *)
(* between any two writes, and what is on the disk then is what the next    *)
(* boot mounts.  One command runs at a time (user programs have no file     *)
(* system calls), so the interleaving is with crashes, and with what        *)
(* earlier crashed or starved commands left behind.                         *)
EXTENDS Naturals, FiniteSets, Sequences

CONSTANTS
  Entries,       \* entries of a FAT, from 2 to 256 * fat_size_16 - 1
  DataClusters,  \* those that name a cluster of the data area
  RootSlots,     \* directory entries of the root directory
  DirSlots,      \* directory entries of a cluster, after . and ..
  ClusterSize,   \* units a cluster holds
  Names,         \* names that commands are given
  Stored,        \* the name format_name_83 makes of each, or BadName
  BadName,
  Texts,         \* texts that are echoed
  Echoes,        \* what echo may be given: name, text, length in units
  MaxCommands,   \* bound: commands in a behaviour
  MaxCrashes     \* bound: crashes in a behaviour

ASSUME EntriesAssumption == \A c \in Entries : c \in Nat /\ 2 <= c /\ c < 65528
ASSUME DataAssumption == DataClusters \subseteq Entries
ASSUME SlotsAssumption == RootSlots \in Nat \ {0} /\ DirSlots \in Nat \ {0}
ASSUME NamesAssumption == Stored \in [Names -> Names \cup {BadName}]
ASSUME SizeAssumption == ClusterSize \in Nat \ {0} 
ASSUME EchoesAssumption == Echoes \subseteq [name : Names, text : Texts, len : Nat]
ASSUME BoundsAssumption == MaxCommands \in Nat /\ MaxCrashes \in Nat

Free == 0            \* a FAT entry of 0x0000
EOC == 65535         \* and of 0xFFFF
Root == 0            \* the inode of the root directory
NoSlot == <<0, 0>>

Directories == {Root} \cup Entries
SlotsOf(d) == {d} \X (1 .. (IF d = Root THEN RootSlots ELSE DirSlots))
Slots == UNION {SlotsOf(d) : d \in Directories}

(* A directory entry is never used (first byte 0x00), deleted (0xE5) or one *)
(* of a file or directory.  The dot entries and the volume label are left   *)
(* out: no name that commands look up matches them.                         *)
Unused == [kind |-> "unused"]
Deleted == [kind |-> "deleted"]
Entry == [kind : {"file", "dir"}, name : Names, first : {0} \cup Entries,
          size : Nat]

VARIABLES
  fat1, fat2,  \* the two copies of the table
  dirent,      \* directory entries by slot
  data,        \* the units of each cluster: text, newline, or what they are
  pc,          \* what fat16.c does next
  cmd,         \* the command, its arguments, and how much heap it finds
  node,        \* the open vfs_node_t: the slot it was found in, inode, size
  call,        \* of fat16_vfs_write: offset, size, bytes_written, nc; and
               \* whether it is the first or the second one of cmd_echo
  at, hop,     \* the cluster a walk is at, and how many links it followed
  mirror,      \* the entry fat_set_entry has yet to write in the second copy
  commands, crashes,  \* history: how many there have been
  full,        \* history: fat_alloc_cluster has returned 0
  starved      \* history: how many commands have found the heap short

disk == <<fat1, fat2, dirent, data>>
memory == <<cmd, node, call, at, hop>>
history == <<commands, crashes, full, starved>>
vars == <<disk, pc, memory, mirror, history>>

Junk == "junk"       \* whatever a cluster held before
Zero == "zero"
Dots == "dots"       \* the sectors of a directory, once . and .. are written
Newline == "newline"
Units == 0 .. ClusterSize - 1
Filled(x) == [u \in Units |-> x]
Contents == [Units -> Texts \cup {Junk, Zero, Dots, Newline}]

NoCommand == [op |-> "none", dir |-> Root, name |-> BadName, text |-> Zero,
              len |-> 0, heap |-> "enough"]
NoNode == [slot |-> NoSlot, inode |-> 0, size |-> 0]
NoCall == [offset |-> 0, size |-> 0, done |-> 0, nc |-> 0, phase |-> 0]

(* An empty volume whose root may begin with the entry of a file deleted    *)
(* by the host.  Clusters past the data area are past the disk: they read   *)
(* as zeros (ata_read_sector) and keep nothing written to them.             *)
Init ==
  /\ fat1 = [c \in Entries |-> Free] /\ fat2 = fat1
  /\ dirent \in {[s \in Slots |-> Unused],
                 [s \in Slots |-> IF s = <<Root, 1>> THEN Deleted ELSE Unused]}
  /\ data = [c \in Entries |-> Filled(IF c \in DataClusters THEN Junk ELSE Zero)]
  /\ pc = "idle" /\ cmd = NoCommand /\ node = NoNode /\ call = NoCall
  /\ at = 0 /\ hop = 0 /\ mirror = {}
  /\ commands = 0 /\ crashes = 0
  /\ full = FALSE /\ starved = 0

-----------------------------------------------------------------------------
(* The directory walk: slots in order, up to the first never-used one.      *)

Listed(d) == {s \in SlotsOf(d) : \A t \in SlotsOf(d) :
                t[2] <= s[2] => dirent[t].kind # "unused"}
IsEntry(s) == dirent[s].kind \in {"file", "dir"}
First(S) == IF S = {} THEN NoSlot
            ELSE CHOOSE s \in S : \A t \in S : s[2] <= t[2]

fat16_vfs_finddir(d, n) ==
  First({s \in Listed(d) : IsEntry(s) /\ dirent[s].name = n})

(* Mutant: the first byte of the slot is not looked at.                     *)
FreeSlot_AnySlot(d) == First(SlotsOf(d))

FreeSlot(d) == First({s \in SlotsOf(d) : ~IsEntry(s)})

NodeAt(s) == [slot |-> s, inode |-> dirent[s].first,
              size |-> IF dirent[s].kind = "file" THEN dirent[s].size ELSE 0]

(* The directories vfs_open can walk to from those in D, and from the root  *)
(* along a path of at most two names (a bound).                             *)
Subdirectories(D) ==
  {dirent[s].first :
     s \in {t \in {fat16_vfs_finddir(d, n) : d \in D, n \in Names} :
              t # NoSlot /\ dirent[t].kind = "dir"}}
OpenDirectories ==
  LET one == Subdirectories({Root})
  IN {Root} \cup one \cup Subdirectories(one)

-----------------------------------------------------------------------------
(* Mutant: fat_count is not looked at, the second copy not written.         *)
fat_set_entry_OneCopy(c, v) ==
  /\ fat1' = [fat1 EXCEPT ![c] = v]
  /\ mirror' = {}

(* fat_set_entry: the sector of the first copy, then that of the second.    *)
(* No other step comes between the two, except a crash.                     *)
fat_set_entry(c, v) ==
  /\ fat1' = [fat1 EXCEPT ![c] = v]
  /\ mirror' = {<<c, v>>}

(* fat_set_entry has returned: both copies are written.                     *)
At(l) == pc = l /\ mirror = {}

Mirror ==
  \E m \in mirror :
    /\ fat2' = [fat2 EXCEPT ![m[1]] = m[2]]
    /\ mirror' = {}
    /\ UNCHANGED <<fat1, dirent, data, pc, memory, history>>

(* fat_alloc_cluster searches the whole table, the entries past the data    *)
(* area included, and marks what it finds the end of a chain.               *)
FreeEntries == {c \in Entries : fat1[c] = Free}
(* Mutant: the index of the entry after the free one.                       *)
FirstFree_OffByOne ==
  LET c == CHOOSE e \in FreeEntries : \A d \in FreeEntries : e <= d
  IN IF c + 1 \in Entries THEN c + 1 ELSE c

FirstFree == CHOOSE c \in FreeEntries : \A d \in FreeEntries : c <= d

(* Mutant: the cluster found is not marked as used.                         *)
fat_alloc_cluster_Unmarked == FreeEntries # {} /\ fat_set_entry(FirstFree, Free)

fat_alloc_cluster == FreeEntries # {} /\ fat_set_entry(FirstFree, EOC)

WriteCluster(c, contents) ==
  data' = IF c \in DataClusters THEN [data EXCEPT ![c] = contents] ELSE data

(* fat16_write_dir_entry: the first slot never used or deleted.             *)
CanWriteEntry == Stored[cmd.name] # BadName /\ FreeSlot(cmd.dir) # NoSlot
fat16_write_dir_entry(kind, c) ==
  dirent' = IF cmd.dir \in DataClusters \cup {Root}
            THEN [dirent EXCEPT ![FreeSlot(cmd.dir)] =
                   [kind |-> kind, name |-> Stored[cmd.name], first |-> c,
                    size |-> 0]]
            ELSE dirent

-----------------------------------------------------------------------------
(* The commands.  What vfs_open finds depends on the heap too: a node costs *)
(* a kmalloc, and without one the file looks absent.  The heap is the same  *)
(* all through a command, and "enough", or enough for "nodes" but not for a *)
(* cluster's buffer, or good for "none".                                    *)

Return ==
  /\ pc' = "idle" /\ cmd' = NoCommand /\ node' = NoNode /\ call' = NoCall
  /\ at' = 0 /\ hop' = 0

Start == [touch |-> "create", mkdir |-> "mkdir", echo |-> "lookup"]

(* A command whose parent directory is not found ends having done nothing.  *)
Issue(op, d, n, heap) ==
  /\ At("idle") /\ commands < MaxCommands
  /\ d = Root \/ heap # "none"
  /\ \/ /\ op # "echo"
        /\ cmd' = [NoCommand EXCEPT !.op = op, !.dir = d, !.name = n, !.heap = heap]
     \/ /\ op = "echo"
        /\ \E e \in Echoes :
             /\ e.name = n
             /\ cmd' = [op |-> op, dir |-> d, name |-> n, text |-> e.text,
                        len |-> e.len, heap |-> heap]
  /\ pc' = Start[op]
  /\ commands' = commands + 1
  /\ starved' = IF heap = "enough" THEN starved ELSE starved + 1
  /\ UNCHANGED <<disk, node, call, at, hop, mirror, crashes, full>>

Found == IF cmd.heap = "none" THEN NoSlot
         ELSE fat16_vfs_finddir(cmd.dir, cmd.name)

(* cmd_echo's two writes: the text at 0, then a newline after it.           *)
FirstWrite == [offset |-> 0, size |-> cmd.len, done |-> 0, nc |-> 0, phase |-> 1]
SecondWrite == [offset |-> cmd.len, size |-> 1, done |-> 0, nc |-> 0, phase |-> 2]

Open(s) ==
  /\ node' = NodeAt(s)
  /\ IF cmd.op = "echo" /\ dirent[s].kind = "file"
     THEN pc' = "write" /\ call' = FirstWrite
     ELSE pc' = "close" /\ call' = call
  /\ UNCHANGED <<disk, cmd, at, hop, mirror, history>>

Lookup ==
  /\ At("lookup")
  /\ \/ Found # NoSlot /\ Open(Found)
     \/ /\ Found = NoSlot
        /\ pc' = "create"
        /\ UNCHANGED <<disk, memory, mirror, history>>

CreateFile ==
  /\ At("create")
  /\ \/ /\ CanWriteEntry
        /\ fat16_write_dir_entry("file", 0)
        /\ pc' = "find"
        /\ UNCHANGED memory
     \/ ~CanWriteEntry /\ Return /\ UNCHANGED dirent
  /\ UNCHANGED <<fat1, fat2, data, mirror, commands, crashes, full, starved>>

(* fat16_vfs_create ends with a finddir of the name it was given.           *)
Find ==
  /\ At("find")
  /\ \/ Found # NoSlot /\ Open(Found)
     \/ Found = NoSlot /\ Return /\ UNCHANGED <<disk, mirror, history>>

Close ==
  /\ At("close")
  /\ Return
  /\ UNCHANGED <<disk, mirror, history>>

-----------------------------------------------------------------------------
(* mkdir: a cluster, zeroed, with its dot entries, and only then an entry.  *)

MkdirAlloc ==
  /\ At("mkdir")
  /\ \/ /\ fat_alloc_cluster
        /\ at' = FirstFree /\ pc' = "zero"
        /\ UNCHANGED <<full, cmd, node, call, hop>>
     \/ /\ FreeEntries = {}
        /\ full' = TRUE
        /\ Return
        /\ UNCHANGED <<fat1, mirror>>
  /\ UNCHANGED <<fat2, dirent, data, commands, crashes, starved>>

(* Mutant: neither zeroes nor dot entries are written.                      *)
MkdirZero_Skipped ==
  /\ At("zero")
  /\ pc' = "entry"
  /\ UNCHANGED <<disk, memory, mirror, history>>

MkdirZero ==
  /\ At("zero")
  /\ WriteCluster(at, Filled(Zero))
  /\ dirent' = [s \in Slots |-> IF s[1] = at THEN Unused ELSE dirent[s]]
  /\ pc' = "dots"
  /\ UNCHANGED <<fat1, fat2, memory, mirror, history>>

MkdirDots ==
  /\ At("dots")
  /\ WriteCluster(at, Filled(Dots))
  /\ pc' = "entry"
  /\ UNCHANGED <<fat1, fat2, dirent, memory, mirror, history>>

(* Mutant: no fat_free_chain when the entry cannot be written.              *)
MkdirEntry_Leaks ==
  /\ At("entry")
  /\ \/ /\ CanWriteEntry
        /\ fat16_write_dir_entry("dir", at)
        /\ pc' = "find" /\ UNCHANGED memory
     \/ /\ ~CanWriteEntry
        /\ Return
        /\ UNCHANGED dirent
  /\ UNCHANGED <<fat1, fat2, data, mirror, commands, crashes, full,
                 starved>>

MkdirEntry ==
  /\ At("entry")
  /\ \/ /\ CanWriteEntry
        /\ fat16_write_dir_entry("dir", at)
        /\ pc' = "find"
     \/ /\ ~CanWriteEntry
        /\ pc' = "free"
        /\ UNCHANGED dirent
  /\ UNCHANGED <<fat1, fat2, data, memory, mirror, commands, crashes, full,
                 starved>>

fat_free_chain ==
  /\ At("free")
  /\ fat_set_entry(at, Free)
  /\ \/ /\ fat1[at] \in Entries
        /\ at' = fat1[at]
        /\ UNCHANGED <<pc, cmd, node, call, hop>>
     \/ fat1[at] \notin Entries /\ Return
  /\ UNCHANGED <<fat2, dirent, data, history>>

-----------------------------------------------------------------------------
(* fat16_vfs_write.                                                         *)

(* The first cluster of an empty file, known to the node before the disk.   *)
WriteAlloc ==
  /\ At("write")
  /\ \/ /\ call.size = 0
        /\ pc' = "return"
        /\ UNCHANGED <<fat1, mirror, node, full>>
     \/ /\ call.size > 0 /\ node.inode # 0
        /\ pc' = "buffer"
        /\ UNCHANGED <<fat1, mirror, node, full>>
     \/ /\ call.size > 0 /\ node.inode = 0
        /\ fat_alloc_cluster
        /\ node' = [node EXCEPT !.inode = FirstFree]
        /\ pc' = "buffer"
        /\ UNCHANGED full
     \/ /\ call.size > 0 /\ node.inode = 0 /\ FreeEntries = {}
        /\ full' = TRUE
        /\ pc' = "return"
        /\ UNCHANGED <<fat1, mirror, node>>
  /\ UNCHANGED <<fat2, dirent, data, cmd, call, at, hop, commands, crashes, starved>>

WriteBuffer ==
  /\ At("buffer")
  /\ IF cmd.heap = "enough"
     THEN pc' = "walk" /\ at' = node.inode /\ hop' = 0
     ELSE pc' = "return" /\ UNCHANGED <<at, hop>>
  /\ UNCHANGED <<disk, cmd, node, call, mirror, history>>

cur_off == call.offset + call.done
(* Mutant: the cluster of the byte before.                                  *)
cluster_idx_OffByOne == (IF cur_off = 0 THEN 0 ELSE cur_off - 1) \div ClusterSize

cluster_idx == cur_off \div ClusterSize
inner_off == cur_off % ClusterSize
Copy == LET avail == ClusterSize - inner_off
            rest == call.size - call.done
        IN IF rest > avail THEN avail ELSE rest

Follow ==
  /\ At("walk") /\ hop < cluster_idx
  /\ fat1[at] \in Entries
  /\ at' = fat1[at] /\ hop' = hop + 1
  /\ UNCHANGED <<disk, pc, cmd, node, call, mirror, history>>

(* The chain is too short: a new cluster is marked, then linked.  With none *)
(* left the entry is updated for what has been written so far.              *)
Extend ==
  /\ At("walk") /\ hop < cluster_idx
  /\ fat1[at] \notin Entries
  /\ \/ /\ fat_alloc_cluster
        /\ call' = [call EXCEPT !.nc = FirstFree]
        /\ pc' = "chain"
        /\ UNCHANGED full
     \/ /\ FreeEntries = {}
        /\ full' = TRUE
        /\ pc' = "update"
        /\ UNCHANGED <<fat1, mirror, call>>
  /\ UNCHANGED <<fat2, dirent, data, cmd, node, at, hop, commands, crashes, starved>>

Chain ==
  /\ At("chain")
  /\ fat_set_entry(at, call.nc)
  /\ at' = call.nc /\ hop' = hop + 1
  /\ pc' = "walk"
  /\ UNCHANGED <<fat2, dirent, data, cmd, node, call, history>>

(* Mutant: the write starts at the beginning of the cluster.                *)
Patch_OtherUnits ==
  /\ At("walk") /\ hop = cluster_idx
  /\ WriteCluster(at, [u \in Units |->
       IF u \in 0 .. Copy - 1
       THEN IF call.phase = 1 THEN cmd.text ELSE Newline
       ELSE data[at][u]])
  /\ call' = [call EXCEPT !.done = @ + Copy]
  /\ IF call.done + Copy = call.size
     THEN pc' = "update" /\ at' = 0 /\ hop' = 0
     ELSE pc' = pc /\ at' = node.inode /\ hop' = 0
  /\ UNCHANGED <<fat1, fat2, dirent, cmd, node, mirror, history>>

(* The sectors of one cluster, read, patched and written back, and on to    *)
(* the next from the head of the chain.                                     *)
Patch ==
  /\ At("walk") /\ hop = cluster_idx
  /\ WriteCluster(at, [u \in Units |->
       IF u \in inner_off .. inner_off + Copy - 1
       THEN IF call.phase = 1 THEN cmd.text ELSE Newline
       ELSE data[at][u]])
  /\ call' = [call EXCEPT !.done = @ + Copy]
  /\ IF call.done + Copy = call.size
     THEN pc' = "update" /\ at' = 0 /\ hop' = 0
     ELSE pc' = pc /\ at' = node.inode /\ hop' = 0
  /\ UNCHANGED <<fat1, fat2, dirent, cmd, node, mirror, history>>

NewSize == IF cur_off > node.size THEN cur_off ELSE node.size

UpdateEntry ==
  /\ At("update")
  /\ node' = [node EXCEPT !.size = NewSize]
  /\ dirent' = [dirent EXCEPT ![node.slot].first = node.inode,
                              ![node.slot].size = NewSize]
  /\ pc' = "return"
  /\ UNCHANGED <<fat1, fat2, data, cmd, call, at, hop, mirror, history>>

(* cmd_echo looks at no result: the newline is written whatever became of   *)
(* the text, and the file is closed.                                        *)
WriteReturns ==
  /\ At("return")
  /\ \/ /\ call.phase = 1
        /\ call' = SecondWrite /\ pc' = "write" /\ at' = 0 /\ hop' = 0
        /\ UNCHANGED <<cmd, node>>
     \/ call.phase = 2 /\ Return
  /\ UNCHANGED <<disk, mirror, history>>

-----------------------------------------------------------------------------
(* Power fails: memory is lost, the disk stays, and the machine boots.      *)
Crash ==
  /\ pc # "idle" \/ mirror # {}
  /\ crashes < MaxCrashes
  /\ crashes' = crashes + 1
  /\ Return /\ mirror' = {}
  /\ UNCHANGED <<disk, commands, full, starved>>

Command ==
  \E op \in DOMAIN Start, d \in OpenDirectories, n \in Names,
     heap \in {"enough", "nodes", "none"} : Issue(op, d, n, heap)

Step ==
  \/ Lookup \/ CreateFile \/ Find \/ Close
  \/ MkdirAlloc \/ MkdirZero \/ MkdirDots \/ MkdirEntry \/ fat_free_chain
  \/ WriteAlloc \/ WriteBuffer \/ Follow \/ Extend \/ Chain \/ Patch
  \/ UpdateEntry \/ WriteReturns

Next == Command \/ Step \/ Mirror \/ Crash

Spec == Init /\ [][Next]_vars

-----------------------------------------------------------------------------
(* Reading changes nothing, and so is no action: what ls, cat and the ELF   *)
(* loader would see at a prompt is a function of the disk.                  *)

(* The nth cluster of a chain, or no cluster when it is shorter.            *)
Nth(first, n) ==
  LET nth[i \in 0 .. n] ==
        IF i = 0 THEN first
        ELSE IF nth[i - 1] \in Entries THEN fat1[nth[i - 1]] ELSE EOC
  IN nth[n]

(* Mutant: `first` is not reset, and every cluster is entered partway.      *)
fat16_vfs_read_PartwayAgain(f, offset, size) ==
  LET want == IF size > f.size - offset THEN f.size - offset ELSE size
      read[round \in Nat] ==
        IF round = 0
        THEN [cluster |-> Nth(f.inode, offset \div ClusterSize), out |-> << >>]
        ELSE LET before == read[round - 1]
                 start == offset % ClusterSize
                 avail == ClusterSize - start
                 copy == IF Len(before.out) + avail > want
                         THEN want - Len(before.out) ELSE avail
             IN IF Len(before.out) < want /\ before.cluster \in Entries
                THEN [cluster |-> fat1[before.cluster],
                      out |-> before.out \o
                        [i \in 1 .. copy |-> data[before.cluster][start + i - 1]]]
                ELSE before
  IN IF offset >= f.size THEN << >> ELSE read[want].out

(* fat16_vfs_read, with the heap its buffer needs: no round reads nothing,  *)
(* so there are no more of them than units wanted.                          *)
fat16_vfs_read(f, offset, size) ==
  LET want == IF size > f.size - offset THEN f.size - offset ELSE size
      read[round \in Nat] ==
        IF round = 0
        THEN [cluster |-> Nth(f.inode, offset \div ClusterSize), out |-> << >>]
        ELSE LET before == read[round - 1]
                 start == IF round = 1 THEN offset % ClusterSize ELSE 0
                 avail == ClusterSize - start
                 copy == IF Len(before.out) + avail > want
                         THEN want - Len(before.out) ELSE avail
             IN IF Len(before.out) < want /\ before.cluster \in Entries
                THEN [cluster |-> fat1[before.cluster],
                      out |-> before.out \o
                        [i \in 1 .. copy |-> data[before.cluster][start + i - 1]]]
                ELSE before
  IN IF offset >= f.size THEN << >> ELSE read[want].out

(* cmd_cat: buffer after buffer, until a read returns nothing.              *)
cmd_cat(f, buffer) ==
  LET printed[round \in Nat] ==
        IF round = 0 THEN << >>
        ELSE LET before == printed[round - 1]
             IN before \o fat16_vfs_read(f, Len(before), buffer)
  IN printed[f.size]

(* fat16_vfs_readdir: the entry with `index` of them before it.             *)
fat16_vfs_readdir(d, index) ==
  First({s \in Listed(d) : IsEntry(s) /\
           Cardinality({t \in Listed(d) : IsEntry(t) /\ t[2] < s[2]}) = index})

(* cmd_ls: index after index, until there is no entry.                      *)
cmd_ls(d) ==
  LET shown[i \in Nat] == LET entry == fat16_vfs_readdir(d, i)
                          IN IF entry = NoSlot THEN << >> ELSE <<entry>> \o shown[i + 1]
  IN shown[0]

-----------------------------------------------------------------------------
TypeOK ==
  /\ fat1 \in [Entries -> {Free, EOC} \cup Entries]
  /\ fat2 \in [Entries -> {Free, EOC} \cup Entries]
  /\ dirent \in [Slots -> {Unused, Deleted} \cup Entry]
  /\ data \in [Entries -> Contents]
  /\ pc \in {"idle", "create", "mkdir", "lookup", "find", "close", "zero",
             "dots", "entry", "free", "write", "buffer", "walk", "chain",
             "update", "return"}
  /\ node.slot \in Slots \cup {NoSlot}
  /\ node.inode \in {0} \cup Entries /\ node.size \in Nat
  /\ call.done \in 0 .. call.size
  /\ at \in {0} \cup Entries /\ hop \in Nat
  /\ \A m \in mirror : m \in Entries \X ({Free, EOC} \cup Entries)

(* No cluster belongs to two chains, two files, or a file and a directory,  *)
(* at any moment at which power could fail (fat_alloc_cluster marks a       *)
(* cluster before anything refers to it, and marks it only if it was free). *)
OwnedOnce ==
  /\ \A c, d \in Entries : fat1[c] \in Entries /\ fat1[c] = fat1[d] => c = d
  /\ \A s, t \in {r \in Slots : IsEntry(r)} :
       dirent[s].first # 0 /\ dirent[s].first = dirent[t].first => s = t
  /\ \A c \in Entries, s \in {r \in Slots : IsEntry(r)} :
       fat1[c] \in Entries => fat1[c] # dirent[s].first

(* What an entry or a link refers to is never free, and so never given to   *)
(* somebody else: clusters are marked before they are linked, and only a    *)
(* directory that got no entry is freed.                                    *)
LinksLive ==
  /\ TypeOK
  /\ \A c \in Entries : fat1[c] \in Entries => fat1[fat1[c]] # Free
  /\ \A s \in Slots :
       IsEntry(s) /\ dirent[s].first # 0 => fat1[dirent[s].first] # Free

(* The cluster of a directory holds directory entries, all of them written  *)
(* by this code, as soon as any entry refers to it: stale data is never     *)
(* taken for entries, not even after a crash in the middle of mkdir.        *)
DirectoriesInitialised ==
  \A s \in Slots : dirent[s].kind = "dir" =>
    data[dirent[s].first] \in {Filled(Dots), Filled(Zero)}

(* The copies of the table differ in the entry being written, and in one    *)
(* more for each crash: fat_set_entry brings them together again.           *)
CopiesAgree ==
  Cardinality({c \in Entries : fat1[c] # fat2[c]})
    <= crashes + Cardinality(mirror)

(* Without a crash a command loses no cluster, and with the heap short no   *)
(* more than one (fat16_vfs_write marks the first cluster of a file before  *)
(* it asks for its buffer): at the prompt all others in use have an entry   *)
(* or a link that refers to them.  A directory past the data area keeps no  *)
(* entries, so that what mkdir makes in it is lost.                         *)
Referenced == {fat1[c] : c \in Entries}
              \cup {dirent[s].first : s \in {r \in Slots : IsEntry(r)}}
DirectoriesOnDisk ==
  \A s \in Slots : dirent[s].kind = "dir" => dirent[s].first \in DataClusters
LossBounded ==
  pc = "idle" /\ crashes = 0 /\ DirectoriesOnDisk =>
    Cardinality({c \in Entries : fat1[c] # Free /\ c \notin Referenced}) <= starved

(* The cluster and the unit of a file at an offset.                         *)
ClusterOf(s, k) == Nth(dirent[s].first, k \div ClusterSize)
UnitAt(s, k) == data[ClusterOf(s, k)][k % ClusterSize]
Backed(s) == \A k \in 0 .. dirent[s].size - 1 : ClusterOf(s, k) \in Entries
ContentsOf(s) == [k \in 0 .. dirent[s].size - 1 |->
                   IF ClusterOf(s, k) \in Entries THEN UnitAt(s, k) ELSE Junk]

(* vfs.h:60 "size - file size in bytes": every byte below a file's size is  *)
(* in a cluster of its chain.                                               *)
SizeIsBacked == \A s \in Slots : dirent[s].kind = "file" => Backed(s)

(* It is, crashes and all, until the disk has been full once.               *)
SizeBackedUntilFull == ~full => SizeIsBacked

(* What echo wrote is what is there when it has closed the file: its text   *)
(* from the beginning and a newline, cluster boundaries notwithstanding.    *)
Kept(s) == \A k \in 0 .. cmd.len : ClusterOf(s, k) \in DataClusters
EchoIsRead ==
  pc = "return" /\ call.phase = 2 /\ cmd.heap = "enough" /\ ~full =>
    /\ dirent[node.slot].size > cmd.len
    /\ Kept(node.slot) =>
         \A k \in 0 .. cmd.len :
           UnitAt(node.slot, k) = IF k < cmd.len THEN cmd.text ELSE Newline

(* Whatever crashes and full disks left, a read at any offset returns the   *)
(* units of the file that are there, in their order and up to its size,     *)
(* and cat prints them all, whatever the size of its buffer.                *)
BackedSize(s) ==
  CHOOSE n \in 0 .. dirent[s].size :
    /\ \A k \in 0 .. n - 1 : ClusterOf(s, k) \in Entries
    /\ n < dirent[s].size => ClusterOf(s, n) \notin Entries
ReadIsExact ==
  pc = "idle" => \A s \in Slots : dirent[s].kind = "file" =>
    \A offset \in 0 .. dirent[s].size, size \in 0 .. dirent[s].size + 1 :
      LET end == IF offset + size < BackedSize(s) THEN offset + size
                 ELSE BackedSize(s)
      IN fat16_vfs_read(NodeAt(s), offset, size) =
           [i \in 1 .. (IF offset < end THEN end - offset ELSE 0) |->
              UnitAt(s, offset + i - 1)]
CatPrintsFile ==
  pc = "idle" => \A s \in Slots : dirent[s].kind = "file" =>
    \A buffer \in 1 .. ClusterSize :
      cmd_cat(NodeAt(s), buffer) =
        [i \in 1 .. BackedSize(s) |-> UnitAt(s, i - 1)]

(* ls shows every entry of a directory once, in the order of their slots:   *)
(* no entry is written behind an end-of-directory marker.                   *)
LsShowsAll ==
  pc = "idle" => \A d \in OpenDirectories :
    LET shown == cmd_ls(d)
    IN /\ {shown[i] : i \in DOMAIN shown} = {s \in SlotsOf(d) : IsEntry(s)}
       /\ \A i, j \in DOMAIN shown : i < j => shown[i][2] < shown[j][2]

(* At the prompt the commands that read show what is on the disk, the       *)
(* remains of crashed and failed commands included.                         *)
ReadersSeeDisk == ReadIsExact /\ CatPrintsFile /\ LsShowsAll

(* A command changes the file it has open and no other; a crash changes     *)
(* none.  Entries never move or disappear.                                  *)
OthersUntouched ==
  [][\A s \in Slots : IsEntry(s) /\ s # node.slot =>
       /\ dirent'[s] = dirent[s]
       /\ dirent[s].kind = "file" => ContentsOf(s)' = ContentsOf(s)]_vars
=============================================================================
