----------------------------- MODULE FileSystem -----------------------------
(***************************************************************************)
(* The file system (fs/): descriptors, the table of open files, the table  *)
(* of inodes in memory with their counts, and what is on the disk, the two *)
(* bit maps, the inodes and the one directory.  The file system takes one  *)
(* request at a time and waits for the disk inside it, so a request is one *)
(* action.  What a file contains is in ReadWrite, reading from a terminal  *)
(* in Terminal.                                                            *)
(***************************************************************************)
EXTENDS Integers, FiniteSets, Sequences, FiniteSetsExt

CONSTANTS
    MM,           \* the memory manager, slot 0 of fsproc
    User,         \* the slots of user processes
    First,        \* the user process that is there first, ORIGIN
    NoOne,        \* the name of an empty directory entry
    Name,         \* the names of files
    Path,         \* what processes ask for: names, "." and "/"
    Special,      \* the names that mkfs puts into "/" after ".": terminals
    Archive,      \* cmd.tar, the file that mkfs puts there last
    OPEN_MAX,     \* descriptors of a process
    NR_FILES,     \* slots of open files
    NR_INODES,    \* slots of inodes in memory
    NR_BITS,      \* bits of the inode map, numbered from 0
    FILE_SECTS,   \* NR_DEFAULT_FILE_SECTS, the sectors of every file
    BYTE,         \* bits of a byte of the sector map
    NR_SECTS,     \* bits of the sector map
    INSTALL_BIT,  \* the bit of INSTALL_START_SECT, where the archive starts
    MaxEntries,   \* bound: entries of the directory, all in one sector
    MaxCount,     \* bound: counts of one inode or open file
    RootCalls     \* bound: how "/" is opened

ASSUME TablesAssumption ==
    /\ {OPEN_MAX, NR_FILES, NR_INODES, NR_BITS, FILE_SECTS, BYTE, NR_SECTS} \subseteq Nat \ {0}
    /\ INSTALL_BIT \in Nat
    /\ {MaxEntries, MaxCount} \subseteq Nat \ {0}
    /\ IsFiniteSet(User) /\ First \in User /\ MM \notin User
    /\ NoOne \notin Name \cup {"."} /\ "." \notin Name
    /\ Path \subseteq Name \cup {".", "/"} /\ "/" \notin Name
    /\ Archive \in Name /\ Special \in Seq(Name \ {Archive})
    /\ RootCalls \subseteq SUBSET {"O_RDWR", "O_CREAT", "O_TRUNC"}

VARIABLES
    open_file,    \* fsproc[p].open_file, slots of file
    file,         \* the open files: count and slot of inode
    inode,        \* the inodes in memory
    disk,         \* imap, smap, the inodes and the directory
    alive,        \* the user processes that MM knows
    halted        \* "no", or how the file system came to an end

vars == <<open_file, file, inode, disk, alive, halted>>

Proc  == User \cup {MM}
Fd    == 0 .. OPEN_MAX - 1
Slot  == 1 .. NR_FILES
ISlot == 1 .. NR_INODES
Num   == 1 .. NR_BITS - 1
NIL   == 0
ROOT_INODE == 1
RootSlot   == NR_INODES
Entry  == [name : Name \cup {".", NoOne}, num : 0 .. NR_BITS - 1]
DInode == [mode : {"free", "dir", "special", "regular"}, size : 0 .. MaxEntries, start : 0 .. NR_SECTS]

NoInode == [mode |-> "free", size |-> 0, start |-> 0]
NoEntry == [name |-> NoOne, num |-> 0]
Unused  == [count |-> 0, num |-> 0, mode |-> "free", size |-> 0, start |-> 0]

Call    == SUBSET {"O_RDWR", "O_CREAT", "O_TRUNC"}

------------------------------------------------------------------------------
(* mkfs and fs_init.  A sector is named by its bit.                        *)

(* "." and the terminals, and the archive as the last.                     *)
NrFixed == 2 + Len(Special)

(* What mkfs puts on the disk has room there.                              *)
ASSUME MkfsAssumption ==
    /\ NrFixed <= MaxEntries /\ NrFixed < NR_BITS
    /\ FILE_SECTS < INSTALL_BIT /\ INSTALL_BIT + FILE_SECTS <= NR_SECTS

(* The sectors of a file, the archive too: INSTALL_NR_SECTS is             *)
(* NR_DEFAULT_FILE_SECTS.                                                  *)
Run(first) == first .. first + FILE_SECTS - 1

(* mkfs: bit 0 is kept, 1 is "/", then one for every special file and one  *)
(* for the archive.                                                        *)
FreshInodeMap == 0 .. NrFixed

(* mkfs: bit 0, the sectors of "/", and those of the archive far behind.   *)
FreshSectMap == (0 .. FILE_SECTS) \cup Run(INSTALL_BIT)

FreshInodes ==
    [n \in Num |-> CASE n = ROOT_INODE -> [mode |-> "dir", size |-> NrFixed, start |-> 1]
                     [] n \in 2 .. NrFixed - 1 -> [mode |-> "special", size |-> 0, start |-> 0]
                     [] n = NrFixed -> [mode |-> "regular", size |-> 1, start |-> INSTALL_BIT]
                     [] OTHER -> NoInode]

FreshDirectory ==
    [i \in 1 .. MaxEntries |-> CASE i = 1 -> [name |-> ".", num |-> ROOT_INODE]
                                 [] i \in 2 .. NrFixed - 1 -> [name |-> Special[i - 1], num |-> i]
                                 [] i = NrFixed -> [name |-> Archive, num |-> i]
                                 [] OTHER -> NoEntry]

(* The root inode is the first that get_inode loads: the last slot.        *)
Init ==
    /\ open_file = [p \in Proc |-> [fd \in Fd |-> NIL]]
    /\ file = [f \in Slot |-> [count |-> 0, inode |-> NIL]]
    /\ disk = [imap |-> FreshInodeMap, smap |-> FreshSectMap,
               ino |-> FreshInodes, dir |-> FreshDirectory]
    /\ inode = [s \in ISlot |-> IF s = RootSlot
                                THEN [count |-> 1, num |-> ROOT_INODE, mode |-> "dir",
                                      size |-> NrFixed, start |-> 1]
                                ELSE Unused]
    /\ alive = {First}
    /\ halted = "no"

------------------------------------------------------------------------------
(* Inodes in memory.  A handler works on a copy of the tables, t, with the *)
(* fields inode and disk.                                                  *)

Tables == [inode |-> inode, disk |-> disk]

Cached(t, n)   == {s \in ISlot : t.inode[s].count > 0 /\ t.inode[s].num = n}
FreeSlots(t)   == {s \in ISlot : t.inode[s].count <= 0}

(* get_inode: the slot that holds inode n, or the last free one, loaded.   *)
InodeSlot(t, n) ==
    CASE n = 0 -> NIL
      [] n # 0 /\ Cached(t, n) # {} -> Min(Cached(t, n))
      [] n # 0 /\ Cached(t, n) = {} /\ FreeSlots(t) # {} -> Max(FreeSlots(t))
      [] OTHER -> NIL

Loaded(t, n) ==
    [count |-> 1, num |-> n, mode |-> t.disk.ino[n].mode, size |-> t.disk.ino[n].size,
     start |-> t.disk.ino[n].start]

get_inode(t, n) ==
    LET s == InodeSlot(t, n) IN
    CASE s = NIL -> t
      [] s # NIL /\ s \in Cached(t, n) -> [t EXCEPT !.inode[s].count = @ + 1]
      [] OTHER -> [t EXCEPT !.inode[s] = Loaded(t, n)]

(* put_inode; what a free slot held is forgotten here already, for the     *)
(* root only when its slot is taken.                                       *)
put_inode(t, s) ==
    CASE s = NIL -> t
      [] s \notin {NIL, RootSlot} /\ t.inode[s].count = 1 -> [t EXCEPT !.inode[s] = Unused]
      [] OTHER -> [t EXCEPT !.inode[s].count = @ - 1]

(* A mutant that writes a directory's growth to memory only.               *)
sync_inodeFilesOnlyMutant(t, s) ==
    LET i == t.inode[s] IN
    IF s = RootSlot THEN t
    ELSE [t EXCEPT !.disk.ino[i.num] = [mode |-> i.mode, size |-> i.size, start |-> i.start]]

sync_inode(t, s) ==
    LET i == t.inode[s] IN
    [t EXCEPT !.disk.ino[i.num] = [mode |-> i.mode, size |-> i.size, start |-> i.start]]

------------------------------------------------------------------------------
(* The directory                                                           *)

NrEntries(t) == t.inode[RootSlot].size

(* step_dir looks at one entry more than the directory has, and at none of *)
(* an empty one: it reads no sector then.                                  *)
Seen(t) == {i \in 1 .. Min({NrEntries(t) + 1, MaxEntries}) : NrEntries(t) > 0}

Matches(t, name) == {i \in Seen(t) : t.disk.dir[i].name = name}

(* track_path gives the inode number of a name, 0 if there is none.        *)
Lookup(t, name) == IF Matches(t, name) = {} THEN 0 ELSE t.disk.dir[Min(Matches(t, name))].num

(* new_dir_entry: the first empty entry, or one more.                      *)
NewPlace(t) ==
    LET empty == {i \in 1 .. NrEntries(t) : t.disk.dir[i].num = 0} IN
    IF empty = {} THEN NrEntries(t) + 1 ELSE Min(empty)

new_dir_entry(t, n, name) ==
    LET i == NewPlace(t)
        u == [t EXCEPT !.disk.dir[i] = [name |-> name, num |-> n],
                       !.inode[RootSlot].size = Max({@, i})]
    IN  sync_inode(u, RootSlot)

------------------------------------------------------------------------------
(* The bit maps                                                            *)

(* A mutant that takes the highest bit ever set plus one, and starts again.*)
FreeNumsAllMutant(t) == {n \in Num : n > NrFixed}

FreeNums(t)  == Num \ t.disk.imap
FreeSects(t) == (0 .. NR_SECTS - 1) \ t.disk.smap

(* A mutant that forgets that a file starts inside a byte.                 *)
ClearedWholeBytesMutant(first) == (first - (first % BYTE)) .. first + FILE_SECTS - 1

(* do_unlink clears the bits of whole bytes and of the first one; those in *)
(* the last, incomplete byte stay set.                                     *)
Cleared(first) ==
    LET left == FILE_SECTS - Min({FILE_SECTS, BYTE - (first % BYTE)})
    IN  first .. first + FILE_SECTS - (left % BYTE) - 1

(* alloc_imap_bit, alloc_smap_bit and new_inode, with the slot it fills.   *)
NewSlot(t, n) == InodeSlot(t, n)

new_inode(t, n, start) ==
    LET s == NewSlot(t, n)
        u == [t EXCEPT !.inode[s] = [count |-> 1, num |-> n, mode |-> "regular",
                                     size |-> 0, start |-> start],
                       !.disk.imap = @ \cup {n},
                       !.disk.smap = @ \cup Run(start)]
    IN  sync_inode(u, s)

(* alloc_smap_bit: the first free sector and those that follow it, free or *)
(* not.                                                                    *)
create_file(t, name) ==
    LET n == Min(FreeNums(t)) IN new_dir_entry(new_inode(t, n, Min(FreeSects(t))), n, name)

------------------------------------------------------------------------------
(* Requests                                                                *)

FreeFds(p)  == {fd \in Fd : open_file[p][fd] = NIL}
FreeFiles   == {f \in Slot : file[f].count = 0}

(* What MM opens and closes inside exec leaves what any open and close     *)
(* leave, so requests come from user processes here.                       *)
Running(p) == halted = "no" /\ p \in alive

(* The root's slot counts as free once its count is 0; when another inode  *)
(* is loaded there every path leads into that file.  Nothing after this is *)
(* modelled.                                                               *)
RootTaken(t) == t.inode[RootSlot].num # ROOT_INODE

Commit(t, how) ==
    /\ \A s \in ISlot : t.inode[s].count \in 0 .. MaxCount
    /\ inode' = t.inode
    /\ disk' = t.disk
    /\ halted' = IF RootTaken(t) THEN "root lost" ELSE how

Unopened == UNCHANGED <<open_file, file, alive>>

(* get_fd finds no descriptor or no slot: nothing has been done yet.       *)
open_full(p) ==
    /\ Running(p)
    /\ FreeFds(p) = {} \/ FreeFiles = {}
    /\ UNCHANGED vars

(* The descriptor and the slot are taken when all else has worked.         *)
Connect(p, s) ==
    LET fd == Min(FreeFds(p))
        f  == Min(FreeFiles)
    IN  /\ open_file' = [open_file EXCEPT ![p][fd] = f]
        /\ file' = [file EXCEPT ![f] = [count |-> 1, inode |-> s]]
        /\ UNCHANGED alive

Truncated(t, s, oflag) ==
    IF "O_TRUNC" \in oflag THEN sync_inode([t EXCEPT !.inode[s].size = 0], s) ELSE t

(* The combinations that open an existing file.                            *)
OpensExisting == {{"O_RDWR"}, {"O_RDWR", "O_TRUNC"}, {"O_RDWR", "O_CREAT", "O_TRUNC"}}

CanOpen(p) == Running(p) /\ FreeFds(p) # {} /\ FreeFiles # {}

open_existing(p, name, oflag) ==
    LET n == Lookup(Tables, name)
        s == InodeSlot(Tables, n)
        t == get_inode(Tables, n)
    IN  /\ CanOpen(p) /\ s # NIL /\ oflag \in OpensExisting
        /\ Commit(Truncated(t, s, oflag), "no")
        /\ Connect(p, s)

(* The wrong combination with O_RDWR: the inode is given back.             *)
open_inconsistent(p, name, oflag) ==
    LET n == Lookup(Tables, name)
        s == InodeSlot(Tables, n)
    IN  /\ CanOpen(p) /\ s # NIL /\ "O_RDWR" \in oflag /\ oflag \notin OpensExisting
        /\ Commit(put_inode(get_inode(Tables, n), s), "no")
        /\ Unopened

(* Without O_RDWR: an error, and the inode is not given back.              *)
open_refused(p, name, oflag) ==
    LET n == Lookup(Tables, name) IN
    /\ CanOpen(p) /\ InodeSlot(Tables, n) # NIL /\ "O_RDWR" \notin oflag
    /\ Commit(get_inode(Tables, n), "no")
    /\ Unopened

open_absent(p, name, oflag) ==
    /\ CanOpen(p) /\ InodeSlot(Tables, Lookup(Tables, name)) = NIL /\ "O_CREAT" \notin oflag
    /\ UNCHANGED vars

(* A new file; also when the name is there but no slot was free for its    *)
(* inode.                                                                  *)
Creates(p, name, oflag) ==
    /\ CanOpen(p) /\ InodeSlot(Tables, Lookup(Tables, name)) = NIL /\ "O_CREAT" \in oflag
    /\ NewPlace(Tables) <= MaxEntries

(* alloc_smap_bit does not come to the end of the map.                     *)
Room(t) ==
    /\ FreeSects(t) # {}
    /\ Run(Min(FreeSects(t))) \subseteq 0 .. NR_SECTS - 1

(* alloc_imap_bit finds a number (it gives 0 otherwise), and it has a slot.*)
Numbered(t) ==
    /\ FreeNums(t) # {}
    /\ NewSlot(t, Min(FreeNums(t))) # NIL

(* The sectors are marked, or not, before the inode is made: without a     *)
(* number or a slot for it new_inode writes through a null pointer.        *)
create_fails(p, name, oflag) ==
    /\ Creates(p, name, oflag) /\ ~ (Room(Tables) /\ Numbered(Tables))
    /\ halted' = IF Room(Tables) THEN "null pointer" ELSE "panic"
    /\ UNCHANGED <<open_file, file, inode, disk, alive>>

open_create(p, name, oflag) ==
    LET s == NewSlot(Tables, Min(FreeNums(Tables))) IN
    /\ Creates(p, name, oflag) /\ Room(Tables) /\ Numbered(Tables)
    /\ Commit(Truncated(create_file(Tables, name), s, oflag), "no")
    /\ Connect(p, s)

(* The path "/": track_path gives the root inode without counting it.      *)
open_root(p, oflag) ==
    /\ CanOpen(p)
    /\ IF oflag \in OpensExisting
       THEN Commit(Truncated(Tables, RootSlot, oflag), "no") /\ Connect(p, RootSlot)
       ELSE /\ Commit(IF "O_RDWR" \in oflag THEN put_inode(Tables, RootSlot) ELSE Tables, "no")
            /\ Unopened

do_close(p, fd) ==
    LET f == open_file[p][fd] IN
    /\ Running(p) /\ f # NIL
    /\ Commit(put_inode(Tables, file[f].inode), "no")
    /\ file' = [file EXCEPT ![f] = [count |-> @.count - 1,
                                    inode |-> IF @.count = 1 THEN NIL ELSE @.inode]]
    /\ open_file' = [open_file EXCEPT ![p][fd] = NIL]
    /\ UNCHANGED alive

(* do_stat of "/" gives back the root inode, which was not counted.  For   *)
(* any other name what it takes it gives back.                             *)
stat_root(p) ==
    /\ Running(p)
    /\ Commit(put_inode(Tables, RootSlot), "no")
    /\ Unopened

do_stat(p, name) ==
    LET n == Lookup(Tables, name)
        s == InodeSlot(Tables, n)
    IN  /\ Running(p) /\ s # NIL
        /\ Commit(put_inode(get_inode(Tables, n), s), "no")
        /\ Unopened

------------------------------------------------------------------------------
(* do_unlink                                                               *)

(* No such file, or no slot for its inode.                                 *)
unlink_absent(p, name) ==
    /\ Running(p) /\ InodeSlot(Tables, Lookup(Tables, name)) = NIL
    /\ UNCHANGED vars

(* A mutant that looks at the mode only.                                   *)
MayUnlinkOpenMutant(t, s) == t.inode[s].mode = "regular"

(* Open, or not a regular file: an error, and the inode is not given back. *)
MayUnlink(t, s) ==
    /\ t.inode[s].mode = "regular" /\ t.inode[s].count <= 1
    /\ t.inode[s].num \in t.disk.imap

unlink_refused(p, name) ==
    LET n == Lookup(Tables, name)
        t == get_inode(Tables, n)
    IN  /\ Running(p) /\ InodeSlot(Tables, n) # NIL
        /\ ~ MayUnlink(t, InodeSlot(Tables, n))
        /\ Commit(t, "no")
        /\ Unopened

(* The bits and the inode are freed before the directory is searched, this *)
(* time to its end only.                                                   *)
Freed(t, n, s) ==
    LET u == [t EXCEPT !.disk.imap = @ \ {n},
                       !.disk.smap = @ \ Cleared(t.inode[s].start),
                       !.inode[s].mode = "free", !.inode[s].size = 0, !.inode[s].start = 0]
    IN  put_inode(sync_inode(u, s), s)

(* Removing the last entry shortens the directory to the number of entries *)
(* in use before it.                                                       *)
Removed(t, i) ==
    LET used == {j \in 1 .. i - 1 : t.disk.dir[j].num # 0}
        u == [t EXCEPT !.disk.dir[i] = NoEntry]
    IN  IF i = NrEntries(t)
        THEN sync_inode([u EXCEPT !.inode[RootSlot].size = Cardinality(used)], RootSlot)
        ELSE u

do_unlink(p, name) ==
    LET n == Lookup(Tables, name)
        s == InodeSlot(Tables, n)
        t == get_inode(Tables, n)
        places == {i \in 1 .. NrEntries(t) : t.disk.dir[i].num = n}
        freed == Freed(t, n, s)
    IN  /\ Running(p) /\ s # NIL /\ MayUnlink(t, s)
        /\ IF places = {} \/ ~ Run(t.inode[s].start) \subseteq t.disk.smap
           THEN Commit(freed, "panic")
           ELSE Commit(Removed(freed, Min(places)), "no")
        /\ Unopened

------------------------------------------------------------------------------
(* Calls of the memory manager, which has no file open meanwhile.          *)

MmIdle == halted = "no" /\ \A fd \in Fd : open_file[MM][fd] = NIL

Refs(p, f)   == Cardinality({fd \in Fd : open_file[p][fd] = f})
IRefs(p, s)  == Cardinality({fd \in Fd : open_file[p][fd] # NIL /\ file[open_file[p][fd]].inode = s})

(* A mutant that counts the inode and not the open file.                   *)
do_fs_forkInodeOnlyMutant(parent, child) ==
    /\ MmIdle /\ parent \in alive /\ child \in User \ alive
    /\ \A s \in ISlot : inode[s].count + IRefs(parent, s) <= MaxCount
    /\ open_file' = [open_file EXCEPT ![child] = open_file[parent]]
    /\ inode' = [s \in ISlot |-> [inode[s] EXCEPT !.count = @ + IRefs(parent, s)]]
    /\ alive' = alive \cup {child}
    /\ UNCHANGED <<file, disk, halted>>

(* A mutant that counts the open file and not its inode.                   *)
do_fs_forkFileOnlyMutant(parent, child) ==
    /\ MmIdle /\ parent \in alive /\ child \in User \ alive
    /\ open_file' = [open_file EXCEPT ![child] = open_file[parent]]
    /\ file' = [f \in Slot |-> [file[f] EXCEPT !.count = @ + Refs(parent, f)]]
    /\ alive' = alive \cup {child}
    /\ UNCHANGED <<inode, disk, halted>>

do_fs_fork(parent, child) ==
    /\ MmIdle /\ parent \in alive /\ child \in User \ alive
    /\ \A s \in ISlot : inode[s].count + IRefs(parent, s) <= MaxCount
    /\ \A f \in Slot : file[f].count + Refs(parent, f) <= MaxCount
    /\ open_file' = [open_file EXCEPT ![child] = open_file[parent]]
    /\ file' = [f \in Slot |-> [file[f] EXCEPT !.count = @ + Refs(parent, f)]]
    /\ inode' = [s \in ISlot |-> [inode[s] EXCEPT !.count = @ + IRefs(parent, s)]]
    /\ alive' = alive \cup {child}
    /\ UNCHANGED <<disk, halted>>

(* The process is looked up by in_pid, where mm_tell_fs(EXIT, ...) puts 0: *)
(* the slots it closes are MM's.                                           *)
do_fs_exit(p) ==
    /\ MmIdle /\ p \in alive \ {First}
    /\ file' = [f \in Slot |-> [file[f] EXCEPT !.count = @ - Refs(MM, f)]]
    /\ inode' = [s \in ISlot |-> [inode[s] EXCEPT !.count = @ - IRefs(MM, s)]]
    /\ open_file' = [open_file EXCEPT ![MM] = [fd \in Fd |-> NIL]]
    /\ alive' = alive \ {p}
    /\ UNCHANGED <<disk, halted>>

------------------------------------------------------------------------------
Next ==
    \/ \E p \in User : open_full(p)
    \/ \E p \in User, name \in Path \ {"/"}, oflag \in Call :
          \/ open_existing(p, name, oflag)
          \/ open_inconsistent(p, name, oflag)
          \/ open_refused(p, name, oflag)
          \/ open_absent(p, name, oflag)
          \/ create_fails(p, name, oflag)
          \/ open_create(p, name, oflag)
    \/ \E p \in User, name \in Path \ {"/"} :
          do_stat(p, name) \/ unlink_absent(p, name) \/ unlink_refused(p, name) \/ do_unlink(p, name)
    \/ \E p \in User, path \in Path \cap {"/"}, oflag \in RootCalls : open_root(p, oflag)
    \/ \E p \in User, path \in Path \cap {"/"} : stat_root(p)
    \/ \E p \in User, fd \in Fd : do_close(p, fd)
    \/ \E p, q \in User : do_fs_fork(p, q)
    \/ \E p \in User : do_fs_exit(p)

Spec == Init /\ [][Next]_vars

------------------------------------------------------------------------------
(* Every table and what is on the disk hold values of their kinds.       *)
TypeOK ==
    /\ open_file \in [Proc -> [Fd -> Slot \cup {NIL}]]
    /\ file \in [Slot -> [count : Nat, inode : ISlot \cup {NIL}]]
    /\ \A s \in ISlot : inode[s].count \in Int /\ inode[s].num \in Num \cup {0}
    /\ disk.imap \subseteq Num \cup {0} /\ disk.smap \subseteq 0 .. NR_SECTS - 1
    /\ disk.ino \in [Num -> DInode]
    /\ disk.dir \in [1 .. MaxEntries -> Entry]
    /\ alive \subseteq User
    /\ halted \in {"no", "panic", "null pointer", "root lost"}

InUse(s) == inode[s].count > 0

(* The descriptors that name an open file, and those that lead to an inode.*)
FileHolders(f) == {d \in Proc \X Fd : open_file[d[1]][d[2]] = f}
InodeHolders(s) ==
    {d \in Proc \X Fd : LET f == open_file[d[1]][d[2]] IN f # NIL /\ file[f].inode = s}

(* However descriptors were opened, inherited and closed, the slots they   *)
(* name are in use, counted at least as often as they are named, and what  *)
(* they lead to is an inode that the disk still has.  The counts may be    *)
(* higher, and are; if one were lower, a slot would be given to another    *)
(* file under its holder.  The inode of "/" is counted by nobody.          *)
DescriptorsBacked ==
    halted = "no" =>
        /\ \A f \in Slot : file[f].count >= Cardinality(FileHolders(f))
        /\ \A s \in ISlot \ {RootSlot} : inode[s].count >= Cardinality(InodeHolders(s))
        /\ \A p \in Proc, fd \in Fd : open_file[p][fd] # NIL =>
              LET s == file[open_file[p][fd]].inode
              IN  s # NIL /\ inode[s].num \in disk.imap /\ inode[s].mode # "free"

(* An inode is in memory once, and what is in memory is what is on the     *)
(* disk: put_inode writes nothing back, so every handler that changes an   *)
(* inode has to call sync_inode itself.                                    *)
CacheCoherent ==
    halted = "no" =>
        /\ \A s \in ISlot : InUse(s) \/ s = RootSlot =>
              [mode |-> inode[s].mode, size |-> inode[s].size, start |-> inode[s].start]
                  = disk.ino[inode[s].num]
        /\ \A r, s \in ISlot : InUse(r) /\ InUse(s) /\ inode[r].num = inode[s].num => r = s

Files == {n \in Num : disk.ino[n].mode \in {"regular", "dir"}}
BelowArchive(n) == disk.ino[n].start + FILE_SECTS <= INSTALL_BIT

(* No sector of a file that lies below the archive's place, "/" among them, *)
(* belongs to another file, and all of them are marked, although            *)
(* alloc_smap_bit tests the first bit only, do_unlink leaves marks behind,  *)
(* and files that come after may lie over the archive (ArchiveReserved).   *)
SectorsExclusive ==
    halted = "no" => \A m \in Files : BelowArchive(m) =>
        /\ Run(disk.ino[m].start) \subseteq disk.smap
        /\ \A n \in Files \ {m} : Run(disk.ino[m].start) \cap Run(disk.ino[n].start) = {}

(* Every entry that a search can meet, the one behind the end included,    *)
(* names an inode of its own that is marked as used.                       *)
EntriesAllocated ==
    halted = "no" =>
        \A i \in Seen(Tables) : disk.dir[i].num # 0 =>
            /\ disk.dir[i].num \in disk.imap
            /\ disk.ino[disk.dir[i].num].mode # "free"
            /\ \A j \in Seen(Tables) \ {i} : disk.dir[j].num # disk.dir[i].num

(* A descriptor that stays open stays on its file, whatever the others     *)
(* open, close and remove meanwhile.                                       *)
FileOf(p, fd) == inode[file[open_file[p][fd]].inode].num

DescriptorsStable ==
    [][\A p \in Proc, fd \in Fd :
          /\ halted' = "no"
          /\ open_file[p][fd] # NIL /\ open_file'[p][fd] = open_file[p][fd]
          => FileOf(p, fd)' = FileOf(p, fd)]_vars

(* The sectors kept for the archive (include/flyanx/config.h:67) are no    *)
(* other file's while it is there, however many files have been created.   *)
ArchiveReserved ==
    halted = "no" => \A m, n \in Files :
        m # n /\ disk.ino[m].start = INSTALL_BIT
            => Run(disk.ino[m].start) \cap Run(disk.ino[n].start) = {}

(* exit closes what the process has open (fs/misc.c:77).                   *)
ExitCloses ==
    \A p \in User \ alive, fd \in Fd : open_file[p][fd] = NIL

=============================================================================
