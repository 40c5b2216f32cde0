-------------------------------- MODULE Paths --------------------------------
(* Paths as the shell and the VFS handle them, character by character:      *)
(* path_resolve and path_parent_and_name of shell/builtins.c in buffers of  *)
(* a fixed size, the walk of vfs_open, and the conversions between a name   *)
(* and the two padded fields of a directory entry.  Letters of either case  *)
(* are one: format_name_83 and strcasecmp do not tell them apart.           *)
EXTENDS Naturals, Sequences, SequencesExt

CONSTANTS
  Size,       \* of current_path and of the buffers for paths (256)
  CompMax,    \* characters of a component or of a base name (127)
  NameMax, ExtMax,  \* the fields of a directory entry (8, 3)
  MaxEntries, \* entries the volume has room for
  Letters,    \* characters
  Args, NewArgs, \* what cd is given, and the commands that create
  NotFound    \* a null vfs_node_t

Slash == "/"
Dot == "."
Space == " "

ASSUME BuffersAssumption == Size \in Nat \ {0, 1} /\ MaxEntries \in Nat
ASSUME FieldsAssumption ==
  /\ NameMax \in Nat \ {0} /\ ExtMax \in Nat \ {0}
  /\ CompMax \in Nat /\ CompMax > NameMax + 1 + ExtMax
ASSUME ArgsAssumption ==
  {Slash, Dot, Space} \subseteq Letters /\ Args \cup NewArgs \subseteq Seq(Letters)
ASSUME NullAssumption == NotFound \notin Nat

VARIABLES current_path, tree

pathVars == <<current_path, tree>>

Root == 0

(* Directory entries in the order they were written; the number of one that *)
(* is a directory stands for it.                                            *)
Kind(node) == IF node = Root THEN "dir"
              ELSE IF node = NotFound THEN "none" ELSE tree[node].kind
IsDir(node) == Kind(node) = "dir"

-----------------------------------------------------------------------------
(* Strings.                                                                 *)

Cut(s, n) == SubSeq(s, 1, IF Len(s) < n THEN Len(s) ELSE n)
strlcpy(s, size) == Cut(s, size - 1)

(* The index, from 0, of the last slash, or 0.                              *)
LastSlash(s) ==
  LET at == {i \in 1 .. Len(s) : s[i] = Slash}
  IN IF at = {} THEN 0 ELSE (CHOOSE i \in at : \A j \in at : j <= i) - 1

(* A field without the spaces that pad it.                                  *)
Trimmed(field) ==
  LET n == {i \in 1 .. Len(field) : field[i] # Space}
  IN IF n = {} THEN <<>> ELSE SubSeq(field, 1, CHOOSE i \in n : \A j \in n : j <= i)

Padded(s, n) == [i \in 1 .. n |-> IF i <= Len(s) THEN s[i] ELSE Space]

-----------------------------------------------------------------------------
(* fs/fat16.c: names and the fields of an entry.                            *)

(* Mutant: the dot is kept when there is no extension.                      *)
format_83_KeepsDot(e) == Trimmed(e.name) \o <<Dot>> \o Trimmed(e.ext)

format_83(e) ==
  Trimmed(e.name) \o (IF e.ext[1] = Space THEN <<>> ELSE <<Dot>> \o Trimmed(e.ext))

(* The name ends at its first dot.                                          *)
NameEnd(s) ==
  LET dots == {i \in 1 .. Len(s) : s[i] = Dot}
  IN IF dots = {} THEN Len(s) + 1 ELSE CHOOSE i \in dots : \A j \in dots : i <= j
NamePart(s) == SubSeq(s, 1, NameEnd(s) - 1)
ExtPart(s) == SubSeq(s, NameEnd(s) + 1, Len(s))

Fits83(s) == Len(NamePart(s)) \in 1 .. NameMax /\ Len(ExtPart(s)) <= ExtMax

format_name_83(s) ==
  [name |-> Padded(NamePart(s), NameMax), ext |-> Padded(ExtPart(s), ExtMax)]

(* The first entry whose name, written out, is the one looked for.  Every   *)
(* directory but the root begins with its dot entries.                      *)
fat16_vfs_finddir(d, s) ==
  LET match == {i \in 1 .. Len(tree) : tree[i].dir = d /\ format_83(tree[i]) = s}
  IN IF d # Root /\ s = <<Dot>> THEN d
     ELSE IF d # Root /\ s = <<Dot, Dot>> THEN tree[d].dir
     ELSE IF match = {} THEN NotFound
     ELSE CHOOSE i \in match : \A j \in match : i <= j

-----------------------------------------------------------------------------
(* fs/vfs.c.                                                                *)

vfs_finddir(node, s) == IF IsDir(node) THEN fat16_vfs_finddir(node, s) ELSE NotFound

(* The components of a path from its beginning: a slash ends one, and so    *)
(* does the end of the buffer.                                              *)
Components(s) ==
  LET End(p) == CHOOSE e \in p .. p + CompMax :
                  /\ e = p + CompMax \/ e = Len(s) + 1 \/ s[e] = Slash
                  /\ \A i \in p .. e - 1 : i <= Len(s) /\ s[i] # Slash
      pieces[p \in 1 .. Len(s) + 1] ==
        IF p = Len(s) + 1 THEN <<>>
        ELSE LET e == End(p)
             IN <<SubSeq(s, p, e - 1)>>
                \o pieces[IF e <= Len(s) /\ s[e] = Slash THEN e + 1 ELSE e]
  IN pieces[1]

(* One component after another is looked up in what the last one led to.    *)
Walk(node, steps) ==
  LET current[i \in 0 .. Len(steps)] ==
        IF i = 0 THEN node ELSE vfs_finddir(current[i - 1], steps[i])
  IN current[Len(steps)]

vfs_open(s) ==
  LET rest == IF s # <<>> /\ s[1] = Slash THEN Tail(s) ELSE s
  IN Walk(Root, Components(rest))

(* How many nodes the heap has room for while a command runs: a walk holds  *)
(* two at most, so that more than that is as good as two.                   *)
Plenty == 2
Rooms == 0 .. Plenty

(* The nodes a walk needs at once, none for the root it starts from: one is *)
(* given back only when the next has been looked up.                        *)
NodesFor(s) ==
  LET n == Len(Components(IF s # <<>> /\ s[1] = Slash THEN Tail(s) ELSE s))
  IN IF n < Plenty THEN n ELSE Plenty

(* What is there but has no room for its node is not found.                 *)
Opened(s, room) == IF NodesFor(s) <= room THEN vfs_open(s) ELSE NotFound

-----------------------------------------------------------------------------
(* shell/builtins.c.                                                        *)

(* Mutant: no slash goes between the two.                                   *)
path_resolve_NoSlash(arg) ==
  CASE arg = <<>> -> strlcpy(current_path, Size)
    [] arg # <<>> /\ arg[1] = Slash -> strlcpy(arg, Size)
    [] OTHER -> strlcpy(current_path \o arg, Size)

(* path_resolve into a buffer of some size: what does not fit is not there. *)
Resolved(arg, size) ==
  CASE arg = <<>> -> strlcpy(current_path, size)
    [] arg # <<>> /\ arg[1] = Slash -> strlcpy(arg, size)
    [] OTHER ->
         LET base == strlcpy(current_path, size)
             out == IF base # <<>> /\ Last(base) # Slash /\ Len(base) < size - 1
                    THEN Append(base, Slash) ELSE base
         IN out \o strlcpy(arg, size - Len(out))

(* Mutant: the buffer is larger than current_path.                          *)
path_resolve_Longer(arg) == Resolved(arg, 2 * Size)

path_resolve(arg) == Resolved(arg, Size)

(* Mutant: the parent is the current directory.                             *)
Parent_Current(s) == current_path

(* path_parent_and_name, its two results.                                   *)
Parent(s) == IF LastSlash(s) = 0 THEN <<Slash>> ELSE strlcpy(Cut(s, LastSlash(s)), Size)
Base(s) == Cut(SubSeq(s, LastSlash(s) + 2, Len(s)), CompMax)

(* What a command does to current_path and to the tree, and what it says:   *)
(* "failed" if vfs_create gave it nothing; "not found" stands for what else *)
(* may be wrong with a path.                                                *)
Says(path, entries, said) == [path |-> path, tree |-> entries, said |-> said]
Refuses(said) == Says(current_path, tree, said)

(* cd ..: the path is cut at its last slash.                                *)
GoUp == IF LastSlash(current_path) = 0 THEN <<Slash>>
        ELSE Cut(current_path, LastSlash(current_path))

Cd(arg, room) ==
  LET resolved == path_resolve(arg)
  IN CASE arg \in {<<>>, <<Slash>>} -> Says(<<Slash>>, tree, "")
       [] arg = <<Dot, Dot>> -> Says(GoUp, tree, "")
       [] OTHER -> IF IsDir(Opened(resolved, room))
                   THEN Says(strlcpy(resolved, Size), tree, "")
                   ELSE Refuses("not found")

NewEntry(d, base, kind) ==
  [dir |-> d, kind |-> kind, name |-> format_name_83(base).name,
   ext |-> format_name_83(base).ext]

(* A new entry is looked up while its directory, if not the root, is held.  *)
LookupNodes(parent) == IF NodesFor(parent) = 0 THEN 1 ELSE 2

(* vfs_create writes an entry if the name is one and there is room, then    *)
(* looks for it; its caller takes not finding it for failure.               *)
Create(resolved, kind, room) ==
  LET d == Opened(Parent(resolved), room)
      base == Base(resolved)
  IN IF ~IsDir(d) THEN Refuses("not found")
     ELSE IF ~Fits83(base) \/ Len(tree) = MaxEntries THEN Refuses("failed")
     ELSE LET new == Append(tree, NewEntry(d, base, kind))
              found == /\ LookupNodes(Parent(resolved)) <= room
                       /\ \E i \in 1 .. Len(new) :
                            new[i].dir = d /\ format_83(new[i]) = base
          IN Says(current_path, new, IF found THEN "" ELSE "failed")

(* echo creates what it cannot open, even when it is there.                 *)
New(op, arg, room) ==
  LET resolved == path_resolve(arg)
  IN CASE arg = <<>> -> Refuses("missing")
       [] arg # <<>> /\ op = "mkdir" -> IF Base(resolved) = <<>> THEN Refuses("invalid")
                                        ELSE Create(resolved, "dir", room)
       [] arg # <<>> /\ op = "touch" -> IF Base(resolved) = <<>> THEN Refuses("invalid")
                                        ELSE Create(resolved, "file", room)
       [] arg # <<>> /\ op = "echo" -> IF Opened(resolved, room) = NotFound
                                       THEN Create(resolved, "file", room)
                                       ELSE Refuses("")

PathsInit == current_path = <<Slash>> /\ tree = <<>>

cmd_cd(arg, room) ==
  current_path' = Cd(arg, room).path /\ tree' = Cd(arg, room).tree
Creates(op, arg, room) ==
  current_path' = New(op, arg, room).path /\ tree' = New(op, arg, room).tree

PathsNext ==
  \E room \in Rooms :
    \/ \E arg \in Args : cmd_cd(arg, room)
    \/ \E op \in {"mkdir", "touch", "echo"}, arg \in NewArgs : Creates(op, arg, room)

PathsSpec == PathsInit /\ [][PathsNext]_pathVars

-----------------------------------------------------------------------------
(* The path is absolute and fits, and the directories form a tree.          *)
PathsTypeOK ==
  /\ current_path # <<>> /\ current_path[1] = Slash /\ Len(current_path) < Size
  /\ Len(tree) <= MaxEntries
  /\ \A i \in 1 .. Len(tree) :
       /\ tree[i].dir \in {Root} \cup 1 .. i - 1 /\ IsDir(tree[i].dir)
       /\ Len(tree[i].name) = NameMax /\ Len(tree[i].ext) = ExtMax

(* The prompt shows a directory that is there: whatever was cut off, by a   *)
(* full buffer or by cd .., what is left opens.                             *)
CurrentDirExists == PathsTypeOK /\ IsDir(vfs_open(current_path))

(* What a command line asks for, without paths: a walk from the current     *)
(* directory, or from the root.  It says nothing when the path does not fit.*)
Absolute(arg) == arg # <<>> /\ arg[1] = Slash
From(arg) == IF Absolute(arg) THEN Root ELSE vfs_open(current_path)
Steps(arg) == Components(IF Absolute(arg) THEN Tail(arg) ELSE arg)
Whole(arg) == Len(arg) + (IF Absolute(arg) THEN 0 ELSE Len(current_path) + 1) < Size

WalkIsTaken ==
  \A arg \in Args, room \in Rooms : Whole(arg) /\ arg \notin {<<>>, <<Dot, Dot>>} =>
    LET target == Walk(From(arg), Steps(arg))
        cd == Cd(arg, room)
    IN IF IsDir(target) /\ NodesFor(path_resolve(arg)) <= room
       THEN cd.said = "" /\ vfs_open(cd.path) = target
       ELSE cd = Refuses("not found")

Single(s) == \A i \in 2 .. Len(s) : ~(s[i - 1] = Slash /\ s[i] = Slash)
Canonical(s) ==
  Single(s) /\ Last(s) # Slash /\ Last(Components(s)) \notin {<<Dot>>, <<Dot, Dot>>}
GoUpIsParent ==
  Canonical(current_path) /\ vfs_open(current_path) # Root =>
    \A room \in Rooms : vfs_open(Cd(<<Dot, Dot>>, room).path)
                          = tree[vfs_open(current_path)].dir

(* cd goes to the directory its argument names, seen from the current one,  *)
(* or says that there is none, or none that the heap has room for: absolute *)
(* or not, with dots, slashes in a row or at the end, in any directory.     *)
(* "cd .." alone, "go up one level" (builtins.c:181), does so if the        *)
(* current path has no two slashes in a row, none at its end, and no dots   *)
(* for its last component.                                                  *)
CdGoesWhereAsked == WalkIsTaken /\ GoUpIsParent

(* touch, mkdir and echo make an entry in the directory that all but the    *)
(* last component of the path lead to, of that name and of their kind, and  *)
(* nothing anywhere else: if there are no two slashes in a row, of which    *)
(* path_parent_and_name loses one.                                          *)
MadeWhereAsked ==
  \A op \in {"mkdir", "touch", "echo"}, arg \in NewArgs, room \in Rooms :
    LET new == New(op, arg, room).tree
        steps == Steps(arg)
    IN Whole(arg) /\ Single(path_resolve(arg)) /\ new # tree =>
         /\ Front(new) = tree
         /\ Last(new).dir = Walk(From(arg), Front(steps))
         /\ Last(new).kind = (IF op = "mkdir" THEN "dir" ELSE "file")
         /\ Last(new).name = Padded(NamePart(Last(steps)), NameMax)
         /\ Last(new).ext = Padded(ExtPart(Last(steps)), ExtMax)

(* A command that made its entry says that it failed in two cases, and in   *)
(* no other: the heap has no room for the node it is looked up with         *)
(* (fat16.c:411), or the name is not what its two fields are written out as *)
(* (fat16.c:500): one that ends in a dot or in a space, has a space before  *)
(* its dot, or has an extension that begins with one.                       *)
Regular(s) ==
  /\ Trimmed(NamePart(s)) = NamePart(s) /\ Trimmed(ExtPart(s)) = ExtPart(s)
  /\ IF ExtPart(s) = <<>> THEN Len(NamePart(s)) = Len(s) ELSE ExtPart(s)[1] # Space
FailureIsTold ==
  \A op \in {"mkdir", "touch", "echo"}, arg \in NewArgs, room \in Rooms :
    LET resolved == path_resolve(arg)
        new == New(op, arg, room)
    IN new.tree # tree =>
         (new.said = "" <=> /\ Regular(Base(resolved))
                            /\ LookupNodes(Parent(resolved)) <= room)
=============================================================================
