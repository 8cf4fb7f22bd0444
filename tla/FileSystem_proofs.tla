------------------------- MODULE FileSystem_proofs -------------------------
(***************************************************************************)
(* The file system's tables stay right for any number of processes,        *)
(* descriptors, inodes and sectors, until it comes to one of its ends:     *)
(* what descriptors lead to is counted and allocated, the inodes in memory *)
(* are those on the disk, files below the place of cmd.tar share their     *)
(* sectors with no file, and the entries of the directory name inodes that *)
(* exist.                                                                  *)
(*                                                                         *)
(* The operators work on a record of tables, and so does the invariant     *)
(* (Sound).  What carries the induction: an inode is in memory once and is *)
(* held by no more descriptors than it counts, so that one that is loaded  *)
(* for unlink is nobody's; and all files have the same size, so that the   *)
(* sectors below the archive are cut into blocks of which the first sector *)
(* says whether the whole is taken.  Of the sectors from the archive on    *)
(* nothing is kept but that they are no part of these blocks.              *)
(*                                                                         *)
(* The last part is about the contents of files (ReadWrite).               *)
(***************************************************************************)
EXTENDS FileSystem, ReadWrite, FiniteSetTheorems, TLAPS

Mode == {"free", "dir", "special", "regular"}
Inode == [count : Int, num : 0 .. NR_BITS - 1, mode : Mode,
          size : 0 .. MaxEntries, start : 0 .. NR_SECTS]
Disk == [imap : SUBSET (0 .. NR_BITS - 1), smap : SUBSET (0 .. NR_SECTS - 1),
         ino : [Num -> DInode], dir : [1 .. MaxEntries -> Entry]]
TablesKind == [inode : [ISlot -> Inode], disk : Disk]

(* The root's slot is held by root_inode, the others by their count.       *)
Held(t, s) == t.inode[s].count > 0 \/ s = RootSlot
OnDisk(i) == [mode |-> i.mode, size |-> i.size, start |-> i.start]

RootKept(t) ==
    /\ t.inode[RootSlot].num = ROOT_INODE
    /\ t.disk.ino[ROOT_INODE].mode = "dir" /\ ROOT_INODE \in t.disk.imap

MemoryRight(t) ==
    /\ \A s \in ISlot : Held(t, s) =>
          /\ t.inode[s].num \in Num \cap t.disk.imap /\ t.inode[s].mode # "free"
          /\ OnDisk(t.inode[s]) = t.disk.ino[t.inode[s].num]
    /\ \A r, s \in ISlot : Held(t, r) /\ Held(t, s) /\ t.inode[r].num = t.inode[s].num => r = s

(* Where files start as long as they end below the archive, and what is    *)
(* behind all of these places.                                             *)
Blocks == {1 + k * FILE_SECTS : k \in Nat}
LowBlocks == {b \in Blocks : b + FILE_SECTS <= INSTALL_BIT}
High(x) == x \in Nat /\ x >= 1 /\ \A b \in LowBlocks : b + FILE_SECTS <= x

FilesOf(d) == {n \in Num : d.ino[n].mode \in {"regular", "dir"}}

SectorsRight(d) ==
    /\ 0 \in d.smap
    /\ \A b \in LowBlocks : b \in d.smap => Run(b) \subseteq d.smap
    /\ \A n \in FilesOf(d) : d.ino[n].start \in LowBlocks \cap d.smap \/ High(d.ino[n].start)
    /\ \A m, n \in FilesOf(d) :
          d.ino[m].start \in LowBlocks /\ d.ino[m].start = d.ino[n].start => m = n

(* An entry that is not empty names an inode of its own.                   *)
EntryRight(d, i) ==
    d.dir[i].num # 0 =>
        /\ d.dir[i].num \in d.imap /\ d.ino[d.dir[i].num].mode # "free"
        /\ \A j \in 1 .. MaxEntries : d.dir[j].num = d.dir[i].num => j = i

Sound(t) ==
    /\ t \in TablesKind /\ RootKept(t) /\ MemoryRight(t) /\ SectorsRight(t.disk)
    /\ \A i \in 1 .. MaxEntries : EntryRight(t.disk, i)

(* Descriptors and what counts them.                                       *)
Counted ==
    /\ \A f \in Slot : file[f].count >= Cardinality(FileHolders(f))
    /\ \A f \in Slot : file[f].count > 0 => file[f].inode # NIL
    /\ \A s \in ISlot \ {RootSlot} : inode[s].count >= Cardinality(InodeHolders(s))

Kinds ==
    /\ open_file \in [Proc -> [Fd -> Slot \cup {NIL}]]
    /\ file \in [Slot -> [count : Nat, inode : ISlot \cup {NIL}]]
    /\ Tables \in TablesKind /\ alive \subseteq User
    /\ halted \in {"no", "panic", "null pointer", "root lost"}

IInv == Kinds /\ (halted = "no" => Sound(Tables) /\ Counted)

-----------------------------------------------------------------------------
(* The parameters, and the names they give.                                *)
LEMMA Params ==
    /\ OPEN_MAX \in Nat \ {0} /\ NR_FILES \in Nat \ {0} /\ NR_INODES \in Nat \ {0}
    /\ NR_BITS \in Nat \ {0} /\ FILE_SECTS \in Nat \ {0} /\ BYTE \in Nat \ {0}
    /\ NR_SECTS \in Nat \ {0} /\ MaxEntries \in Nat \ {0} /\ MaxCount \in Nat \ {0}
    /\ NrFixed \in Nat \ {0} /\ NrFixed = 2 + Len(Special)
    /\ NrFixed <= MaxEntries /\ NrFixed < NR_BITS /\ FILE_SECTS < NR_SECTS
    /\ INSTALL_BIT \in Nat /\ FILE_SECTS < INSTALL_BIT /\ INSTALL_BIT + FILE_SECTS <= NR_SECTS
    /\ NIL = 0 /\ NIL \notin ISlot /\ NIL \notin Slot
    /\ RootSlot = NR_INODES /\ RootSlot \in ISlot /\ ROOT_INODE = 1 /\ ROOT_INODE \in Num
    /\ Slot \subseteq Nat /\ ISlot \subseteq Nat /\ Fd \subseteq Nat /\ Num \subseteq Nat
    /\ Num \subseteq 0 .. NR_BITS - 1 /\ 0 \notin Num
    /\ \A n \in 0 .. NR_BITS - 1 : n # 0 => n \in Num
    /\ MM \in Proc /\ MM \notin User /\ User \subseteq Proc /\ First \in User
<1>1. Len(Special) \in Nat
  BY TablesAssumption
<1>2. /\ OPEN_MAX \in Nat \ {0} /\ NR_FILES \in Nat \ {0} /\ NR_INODES \in Nat \ {0}
      /\ NR_BITS \in Nat \ {0} /\ FILE_SECTS \in Nat \ {0} /\ BYTE \in Nat \ {0}
      /\ NR_SECTS \in Nat \ {0} /\ MaxEntries \in Nat \ {0} /\ MaxCount \in Nat \ {0}
  BY TablesAssumption
<1>3. MM \in Proc /\ MM \notin User /\ User \subseteq Proc /\ First \in User
  BY TablesAssumption DEF Proc
<1>4. INSTALL_BIT \in Nat /\ FILE_SECTS < INSTALL_BIT /\ INSTALL_BIT + FILE_SECTS <= NR_SECTS
  BY TablesAssumption, MkfsAssumption
<1>5. /\ NrFixed \in Nat \ {0} /\ NrFixed = 2 + Len(Special)
      /\ NrFixed <= MaxEntries /\ NrFixed < NR_BITS /\ FILE_SECTS < NR_SECTS
  BY <1>1, <1>2, <1>4, MkfsAssumption DEF NrFixed
<1> QED
  BY <1>2, <1>3, <1>4, <1>5 DEF NIL, RootSlot, ROOT_INODE, ISlot, Slot, Fd, Num

(* The least number of a set of numbers, and what Min makes of it.         *)
LEMMA NatLeast == ASSUME NEW T \in SUBSET Nat, T # {} PROVE \E x \in T : \A y \in T : x <= y
<1> DEFINE R == OpToRel(<, Nat)
<1>1. IsWellFoundedOn(R, Nat)
  BY NatLessThanWellFounded
<1>2. T \subseteq Nat
  OBVIOUS
<1> HIDE DEF R
<1>3. PICK x \in T : \A y \in T : ~ (<<y, x>> \in R)
  BY <1>1, <1>2, WFMin
<1>4. \A y \in T : ~ (y < x)
  BY <1>2, <1>3 DEF R, OpToRel
<1> QED
  BY <1>2, <1>4

(* So it is what Min gives.                                                *)
LEMMA MinIsLeast ==
    ASSUME NEW T \in SUBSET Nat, T # {} PROVE Min(T) \in T /\ \A y \in T : Min(T) <= y
BY NatLeast DEF Min

(* The greatest of a set of inode slots.                                   *)
LEMMA MaxIsGreatest ==
    ASSUME NEW T \in SUBSET ISlot, T # {} PROVE Max(T) \in T /\ \A y \in T : Max(T) >= y
<1>1. NR_INODES \in Nat /\ T \subseteq 1 .. NR_INODES
  BY Params DEF ISlot
<1> DEFINE D == {NR_INODES - x : x \in T}
<1>2. D \in SUBSET Nat /\ D # {}
  <2>1. \A x \in T : NR_INODES - x \in Nat
    BY <1>1
  <2>2. D \subseteq Nat
    BY <2>1
  <2> QED
    BY <2>2
<1>3. PICK d \in D : \A e \in D : d <= e
  BY <1>2, NatLeast
<1>4. PICK x \in T : d = NR_INODES - x
  BY <1>3
<1>5. \A y \in T : x >= y
  <2>1. TAKE y \in T
  <2>2. NR_INODES - y \in D
    OBVIOUS
  <2> QED
    BY <1>1, <1>3, <1>4, <2>2
<1> QED
  BY <1>5 DEF Max

-----------------------------------------------------------------------------
(* Blocks of sectors                                                       *)

(* What comes after a block starts at its end, multiplied out.             *)
LEMMA BlockStep ==
    ASSUME NEW j \in Nat, NEW k \in Nat, j < k
    PROVE  j * FILE_SECTS + FILE_SECTS <= k * FILE_SECTS
<1>1. FILE_SECTS \in Nat
  BY Params
<1>2. PICK d \in Nat : k = j + 1 + d
  <2>1. k - j - 1 \in Nat /\ k = j + 1 + (k - j - 1)
    OBVIOUS
  <2> QED
    BY <2>1
<1>3. (j + 1 + d) * FILE_SECTS = j * FILE_SECTS + FILE_SECTS + d * FILE_SECTS
  BY <1>1
<1>4. d * FILE_SECTS >= 0
  BY <1>1
<1>5. j * FILE_SECTS \in Nat /\ d * FILE_SECTS \in Nat
  BY <1>1
<1> QED
  BY <1>1, <1>2, <1>3, <1>4, <1>5

(* Blocks start at numbers, and no sector is in two.                       *)
LEMMA BlocksApart ==
    ASSUME NEW b \in Blocks, NEW c \in Blocks
    PROVE  /\ b \in Nat /\ b >= 1 /\ b \in Run(b)
           /\ \A x \in Run(b) : x \in Nat /\ x >= b
           /\ b # c => Run(b) \cap Run(c) = {}
<1>1. FILE_SECTS \in Nat /\ FILE_SECTS >= 1
  BY Params
<1>2. PICK j \in Nat : b = 1 + j * FILE_SECTS
  BY DEF Blocks
<1>3. PICK k \in Nat : c = 1 + k * FILE_SECTS
  BY DEF Blocks
<1>4. j * FILE_SECTS \in Nat /\ k * FILE_SECTS \in Nat
  BY <1>1
<1>5. b # c => j < k \/ k < j
  BY <1>2, <1>3
<1>6. j < k => b + FILE_SECTS <= c
  BY <1>1, <1>2, <1>3, <1>4, BlockStep
<1>7. k < j => c + FILE_SECTS <= b
  BY <1>1, <1>2, <1>3, <1>4, BlockStep
<1>8. b \in Nat /\ b >= 1 /\ c \in Nat
  BY <1>2, <1>3, <1>4
<1>9. b \in Run(b) /\ \A x \in Run(b) : x \in Nat /\ x >= b
  BY <1>1, <1>8 DEF Run
<1>10. b # c => Run(b) \cap Run(c) = {}
  BY <1>1, <1>5, <1>6, <1>7, <1>8 DEF Run
<1> QED
  BY <1>8, <1>9, <1>10

(* Every sector but the first is in a block.                               *)
LEMMA BlockOf ==
    ASSUME NEW x \in Nat, x >= 1
    PROVE  \E b \in Blocks : b <= x /\ x \in Run(b)
<1>1. FILE_SECTS \in Nat /\ FILE_SECTS >= 1
  BY Params
<1> DEFINE After == {k \in Nat : 1 + k * FILE_SECTS > x}
<1>2. x \in After
  <2>1. x * FILE_SECTS >= x
    BY <1>1, SMT
  <2>2. x * FILE_SECTS \in Nat
    BY <1>1
  <2> QED
    BY <2>1, <2>2
<1>3. PICK k \in After : \A m \in After : k <= m
  <2>1. After \in SUBSET Nat
    OBVIOUS
  <2> HIDE DEF After
  <2> QED
    BY <1>2, <2>1, NatLeast
<1>4. k # 0
  <2>1. 0 * FILE_SECTS = 0
    BY <1>1
  <2>2. 0 \notin After
    BY <2>1
  <2> QED
    BY <1>3, <2>2
<1>5. k - 1 \in Nat /\ k - 1 \notin After
  BY <1>3, <1>4
<1>6. 1 + (k - 1) * FILE_SECTS <= x
  <2>1. (k - 1) * FILE_SECTS \in Nat
    BY <1>1, <1>5
  <2> QED
    BY <1>5, <2>1
<1>7. (k - 1) * FILE_SECTS + FILE_SECTS = k * FILE_SECTS
  BY <1>1, <1>5
<1>8. PICK b : b = 1 + (k - 1) * FILE_SECTS
  OBVIOUS
<1>9. b \in Blocks
  BY <1>5, <1>8 DEF Blocks
<1>10. b \in Nat /\ b <= x
  BY <1>6, <1>8, <1>9, BlocksApart
<1>11. x <= b + FILE_SECTS - 1
  <2>1. k * FILE_SECTS \in Nat /\ 1 + k * FILE_SECTS > x
    BY <1>1, <1>3
  <2>2. (k - 1) * FILE_SECTS \in Nat
    BY <1>1, <1>5
  <2> QED
    BY <1>1, <1>7, <1>8, <2>1, <2>2
<1> QED
  BY <1>1, <1>9, <1>10, <1>11 DEF Run

(* A file that starts behind the blocks has none of their sectors.         *)
LEMMA HighApart ==
    ASSUME NEW x, High(x), NEW b \in LowBlocks
    PROVE  /\ Run(x) \cap Run(b) = {} /\ b \notin Run(x) /\ 0 \notin Run(x)
           /\ x # b /\ ~ (x + FILE_SECTS <= INSTALL_BIT)
<1>1. FILE_SECTS \in Nat /\ FILE_SECTS >= 1 /\ INSTALL_BIT \in Nat
  BY Params
<1>2. b \in Nat /\ b + FILE_SECTS <= INSTALL_BIT
  BY BlocksApart DEF LowBlocks
<1>3. x \in Nat /\ x >= 1 /\ b + FILE_SECTS <= x /\ \A c \in LowBlocks : c + FILE_SECTS <= x
  BY DEF High
<1>4. Run(x) \cap Run(b) = {} /\ b \notin Run(x) /\ 0 \notin Run(x) /\ x # b
  BY <1>1, <1>2, <1>3 DEF Run
<1>5. ASSUME x + FILE_SECTS <= INSTALL_BIT PROVE FALSE
  <2>1. PICK c \in Blocks : c <= x /\ x \in Run(c)
    BY <1>3, BlockOf
  <2>2. c \in Nat
    BY BlocksApart
  <2>3. c + FILE_SECTS <= INSTALL_BIT
    BY <1>1, <1>3, <1>5, <2>1, <2>2
  <2>4. c + FILE_SECTS <= x
    BY <1>3, <2>3 DEF LowBlocks
  <2> QED
    BY <1>1, <1>3, <2>1, <2>2, <2>4 DEF Run
<1> QED
  BY <1>4, <1>5

(* 1 is a place below the archive.                                         *)
LEMMA RootIsLow == 1 \in LowBlocks
<1>1. 1 = 1 + 0 * FILE_SECTS
  BY Params
<1>2. 1 \in Blocks
  BY <1>1 DEF Blocks
<1>3. 1 + FILE_SECTS <= INSTALL_BIT
  BY Params
<1> QED
  BY <1>2, <1>3 DEF LowBlocks

(* do_unlink clears the first sector of a file and none but its own.       *)
LEMMA ClearedInRun ==
    ASSUME NEW b \in Nat
    PROVE  b \in Cleared(b) /\ Cleared(b) \subseteq Run(b)
<1>1. FILE_SECTS \in Nat \ {0} /\ BYTE \in Nat \ {0}
  BY Params
<1>2. b % BYTE \in Nat /\ b % BYTE < BYTE
  BY <1>1
<1> DEFINE inByte == BYTE - (b % BYTE)
<1> DEFINE m == Min({FILE_SECTS, inByte})
<1>3. inByte \in Nat /\ inByte >= 1
  BY <1>1, <1>2
<1> HIDE DEF inByte
<1>4. m \in {FILE_SECTS, inByte} /\ \A y \in {FILE_SECTS, inByte} : m <= y
  <2>1. {FILE_SECTS, inByte} \in SUBSET Nat /\ {FILE_SECTS, inByte} # {}
    BY <1>1, <1>3
  <2> QED
    BY <2>1, MinIsLeast
<1>5. m \in Nat /\ m >= 1 /\ m <= FILE_SECTS
  BY <1>1, <1>3, <1>4
<1> DEFINE left == FILE_SECTS - m
<1>6. left \in Nat /\ left <= FILE_SECTS - 1
  BY <1>1, <1>5
<1>7. Cleared(b) = b .. b + FILE_SECTS - (left % BYTE) - 1
  BY DEF Cleared, inByte
<1> HIDE DEF m, left
<1>8. left % BYTE \in Nat /\ left % BYTE <= left
  BY <1>1, <1>6
<1> QED
  BY <1>1, <1>6, <1>7, <1>8 DEF Run

-----------------------------------------------------------------------------
(* What the operators change, field by field                               *)

(* Records of tables, taken apart.                                         *)
LEMMA KindParts ==
    ASSUME NEW t
    PROVE  t \in TablesKind <=>
              /\ t = [inode |-> t.inode, disk |-> t.disk]
              /\ t.inode \in [ISlot -> Inode] /\ t.disk \in Disk
BY DEF TablesKind

(* What is on the disk, taken apart.                                       *)
LEMMA DiskParts ==
    ASSUME NEW d
    PROVE  d \in Disk <=>
              /\ d = [imap |-> d.imap, smap |-> d.smap, ino |-> d.ino, dir |-> d.dir]
              /\ d.imap \subseteq 0 .. NR_BITS - 1 /\ d.smap \subseteq 0 .. NR_SECTS - 1
              /\ d.ino \in [Num -> DInode] /\ d.dir \in [1 .. MaxEntries -> Entry]
BY DEF Disk

(* sync_inode writes one inode to the disk.                                *)
LEMMA SyncFields ==
    ASSUME NEW t \in TablesKind, NEW s \in ISlot, t.inode[s].num \in Num,
           NEW u, u = sync_inode(t, s)
    PROVE  /\ u \in TablesKind /\ u.inode = t.inode
           /\ u.disk.imap = t.disk.imap /\ u.disk.smap = t.disk.smap /\ u.disk.dir = t.disk.dir
           /\ u.disk.ino = [t.disk.ino EXCEPT ![t.inode[s].num] = OnDisk(t.inode[s])]
<1>1. t.inode \in [ISlot -> Inode] /\ t.disk \in Disk
  BY DEF TablesKind
<1>2. PICK v : v = OnDisk(t.inode[s])
  OBVIOUS
<1>3. v \in DInode
  BY <1>1, <1>2 DEF OnDisk, Inode, DInode, Mode
<1>4. PICK n : n = t.inode[s].num
  OBVIOUS
<1>5. u = [t EXCEPT !.disk.ino[n] = v]
  BY <1>2, <1>4 DEF sync_inode, OnDisk
<1>6. /\ u.inode = t.inode /\ u.disk = [t.disk EXCEPT !.ino[n] = v]
      /\ u = [inode |-> u.inode, disk |-> u.disk]
  BY <1>5 DEF TablesKind
<1>7. /\ u.disk.imap = t.disk.imap /\ u.disk.smap = t.disk.smap /\ u.disk.dir = t.disk.dir
      /\ u.disk.ino = [t.disk.ino EXCEPT ![n] = v]
      /\ u.disk \in Disk
  BY <1>1, <1>3, <1>6 DEF Disk
<1> QED
  BY <1>1, <1>2, <1>4, <1>6, <1>7, KindParts

(* get_inode counts the slot that holds the inode, or loads it into one    *)
(* that is free, into the root's if that is free too.                      *)
LEMMA GetFields ==
    ASSUME NEW t \in TablesKind, NEW n \in 0 .. NR_BITS - 1, NEW s, s = InodeSlot(t, n), s # NIL,
           NEW u, u = get_inode(t, n)
    PROVE  /\ u \in TablesKind /\ u.disk = t.disk /\ s \in ISlot /\ n \in Num
           /\ \A r \in ISlot : r # s => u.inode[r] = t.inode[r]
           /\ u.inode[s].num = n
           /\ \/ /\ t.inode[s].count > 0 /\ t.inode[s].num = n
                 /\ u.inode[s] = [t.inode[s] EXCEPT !.count = t.inode[s].count + 1]
              \/ /\ t.inode[s].count <= 0
                 /\ \A r \in ISlot : t.inode[r].count > 0 => t.inode[r].num # n
                 /\ u.inode[s] = Loaded(t, n)
                 /\ t.inode[RootSlot].count <= 0 => s = RootSlot
<1>1. t.inode \in [ISlot -> Inode] /\ t.disk \in Disk
  BY DEF TablesKind
<1>2. n # 0
  BY DEF InodeSlot
<1>3. n \in Num
  BY <1>2, Params
<1>4. CASE Cached(t, n) # {}
  <2>1. s = Min(Cached(t, n))
    BY <1>2, <1>4 DEF InodeSlot
  <2>2. Cached(t, n) \in SUBSET Nat
    BY Params DEF Cached
  <2>3. s \in Cached(t, n)
    BY <1>4, <2>1, <2>2, MinIsLeast
  <2>4. PICK i : i = [t.inode[s] EXCEPT !.count = t.inode[s].count + 1]
    OBVIOUS
  <2>5. s \in ISlot /\ t.inode[s].count > 0 /\ t.inode[s].num = n
    BY <2>3 DEF Cached
  <2>6. i \in Inode /\ i.num = n
    BY <1>1, <2>4, <2>5 DEF Inode
  <2>7. u = [t EXCEPT !.inode[s].count = @ + 1]
    BY <2>3, <2>5 DEF get_inode
  <2>8. u.disk = t.disk /\ u.inode = [t.inode EXCEPT ![s] = i] /\ u = [inode |-> u.inode, disk |-> u.disk]
    BY <2>4, <2>7 DEF TablesKind
  <2>9. u.inode \in [ISlot -> Inode]
    BY <1>1, <2>6, <2>8
  <2> QED
    BY <1>1, <1>3, <2>4, <2>5, <2>6, <2>8, <2>9, KindParts
<1>5. CASE Cached(t, n) = {}
  <2>1. FreeSlots(t) # {} /\ s = Max(FreeSlots(t))
    BY <1>2, <1>5 DEF InodeSlot
  <2>2. FreeSlots(t) \in SUBSET ISlot
    BY DEF FreeSlots
  <2>3. s \in FreeSlots(t) /\ \A y \in FreeSlots(t) : s >= y
    BY <2>1, <2>2, MaxIsGreatest
  <2>4. s \in ISlot /\ t.inode[s].count <= 0
    BY <2>3 DEF FreeSlots
  <2>5. t.inode[RootSlot].count <= 0 => s = RootSlot
    <3>1. s \in 1 .. NR_INODES /\ RootSlot = NR_INODES /\ NR_INODES \in Nat
      BY <2>4, Params DEF ISlot
    <3>2. t.inode[RootSlot].count <= 0 => RootSlot \in FreeSlots(t)
      BY Params DEF FreeSlots
    <3> QED
      BY <2>3, <3>1, <3>2
  <2>6. PICK i : i = Loaded(t, n)
    OBVIOUS
  <2>7. i \in Inode /\ i.num = n
    BY <1>1, <1>3, <2>6, Params DEF Loaded, Inode, Disk, DInode, Mode
  <2>8. u = [t EXCEPT !.inode[s] = i]
    BY <1>5, <2>6 DEF get_inode
  <2>9. u.disk = t.disk /\ u.inode = [t.inode EXCEPT ![s] = i] /\ u = [inode |-> u.inode, disk |-> u.disk]
    BY <2>8 DEF TablesKind
  <2>10. u.inode \in [ISlot -> Inode]
    BY <1>1, <2>7, <2>9
  <2>11. \A r \in ISlot : t.inode[r].count > 0 => t.inode[r].num # n
    BY <1>5 DEF Cached
  <2> QED
    BY <1>1, <1>3, <2>4, <2>5, <2>6, <2>7, <2>9, <2>10, <2>11, KindParts
<1> QED
  BY <1>4, <1>5

(* put_inode takes one from the count of a slot, and forgets what a slot   *)
(* held that is free now.                                                  *)
LEMMA PutFields ==
    ASSUME NEW t \in TablesKind, NEW s \in ISlot, NEW u, u = put_inode(t, s)
    PROVE  /\ u \in TablesKind /\ u.disk = t.disk
           /\ \A r \in ISlot : r # s => u.inode[r] = t.inode[r]
           /\ u.inode[s] = IF s # RootSlot /\ t.inode[s].count = 1 THEN Unused
                           ELSE [t.inode[s] EXCEPT !.count = t.inode[s].count - 1]
<1>1. t.inode \in [ISlot -> Inode] /\ t.disk \in Disk /\ s # NIL
  BY Params DEF TablesKind
<1>2. PICK i : i = IF s # RootSlot /\ t.inode[s].count = 1 THEN Unused
                   ELSE [t.inode[s] EXCEPT !.count = t.inode[s].count - 1]
  OBVIOUS
<1>3. Unused \in Inode
  BY Params DEF Unused, Inode, Mode
<1>4. i \in Inode
  <2>1. [t.inode[s] EXCEPT !.count = t.inode[s].count - 1] \in Inode
    BY <1>1 DEF Inode
  <2> QED
    BY <1>2, <1>3, <2>1
<1>5. /\ u.disk = t.disk /\ u.inode = [t.inode EXCEPT ![s] = i]
      /\ u = [inode |-> u.inode, disk |-> u.disk]
  <2>1. CASE s # RootSlot /\ t.inode[s].count = 1
    <3>1. u = [t EXCEPT !.inode[s] = i]
      BY <1>1, <1>2, <2>1 DEF put_inode
    <3> QED
      BY <3>1 DEF TablesKind
  <2>2. CASE ~ (s # RootSlot /\ t.inode[s].count = 1)
    <3>1. u = [t EXCEPT !.inode[s].count = @ - 1]
      BY <1>1, <2>2 DEF put_inode
    <3> QED
      BY <1>2, <2>2, <3>1 DEF TablesKind
  <2> QED
    BY <2>1, <2>2
<1>6. u.inode \in [ISlot -> Inode]
  BY <1>1, <1>4, <1>5
<1> QED
  BY <1>1, <1>2, <1>4, <1>5, <1>6, KindParts

(* The greater of two numbers.                                             *)
LEMMA MaxOfTwo == ASSUME NEW a \in Nat, NEW b \in Nat PROVE Max({a, b}) \in {a, b}
<1>1. \E x \in {a, b} : \A y \in {a, b} : x >= y
  <2>1. CASE a >= b
    BY <2>1
  <2>2. CASE ~ (a >= b)
    BY <2>2
  <2> QED
    BY <2>1, <2>2
<1> QED
  BY <1>1 DEF Max

(* The place of a new entry is not beyond the one behind the last.         *)
LEMMA NewPlaceIsNext ==
    ASSUME NEW t \in TablesKind
    PROVE  NewPlace(t) \in Nat /\ NewPlace(t) >= 1 /\ (NrEntries(t) = 0 => NewPlace(t) = 1)
<1>1. NrEntries(t) \in Nat
  BY Params DEF NrEntries, TablesKind, Inode
<1> DEFINE empty == {i \in 1 .. NrEntries(t) : t.disk.dir[i].num = 0}
<1>2. NewPlace(t) = IF empty = {} THEN NrEntries(t) + 1 ELSE Min(empty)
  BY DEF NewPlace
<1>3. \A i \in empty : i \in Nat /\ i >= 1 /\ i <= NrEntries(t)
  BY <1>1
<1>4. empty \in SUBSET Nat
  BY <1>3
<1> HIDE DEF empty
<1>5. empty # {} => Min(empty) \in empty
  BY <1>4, MinIsLeast
<1> QED
  BY <1>1, <1>2, <1>3, <1>5

(* new_dir_entry sets one entry, and the size of "/" in memory and on disk.*)
LEMMA EntryFields ==
    ASSUME NEW t \in TablesKind, NEW n \in 0 .. NR_BITS - 1, NEW name \in Name \cup {"."},
           NewPlace(t) <= MaxEntries, t.inode[RootSlot].num \in Num,
           NEW u, u = new_dir_entry(t, n, name)
    PROVE  /\ u \in TablesKind
           /\ \A r \in ISlot : r # RootSlot => u.inode[r] = t.inode[r]
           /\ \E z \in 0 .. MaxEntries : u.inode[RootSlot] = [t.inode[RootSlot] EXCEPT !.size = z]
           /\ u.disk.imap = t.disk.imap /\ u.disk.smap = t.disk.smap
           /\ u.disk.dir = [t.disk.dir EXCEPT ![NewPlace(t)] = [name |-> name, num |-> n]]
           /\ u.disk.ino = [t.disk.ino EXCEPT ![t.inode[RootSlot].num] = OnDisk(u.inode[RootSlot])]
<1>1. t.inode \in [ISlot -> Inode] /\ t.disk \in Disk /\ RootSlot \in ISlot
  BY Params DEF TablesKind
<1>2. PICK i : i = NewPlace(t)
  OBVIOUS
<1>3. i \in 1 .. MaxEntries
  BY <1>2, NewPlaceIsNext, Params
<1>4. PICK z : z = Max({t.inode[RootSlot].size, i})
  OBVIOUS
<1>5. z \in 0 .. MaxEntries
  <2>1. t.inode[RootSlot].size \in 0 .. MaxEntries
    BY <1>1 DEF Inode
  <2>2. z \in {t.inode[RootSlot].size, i}
    BY <1>3, <1>4, <2>1, MaxOfTwo, Params
  <2> QED
    BY <1>3, <2>1, <2>2, Params
<1>6. PICK e : e = [name |-> name, num |-> n]
  OBVIOUS
<1>7. e \in Entry
  BY <1>6 DEF Entry
<1>8. PICK v : v = [t EXCEPT !.disk.dir[i] = e, !.inode[RootSlot].size = z]
  OBVIOUS
<1>9. u = sync_inode(v, RootSlot)
  BY <1>2, <1>4, <1>6, <1>8 DEF new_dir_entry
<1>10. PICK w : w = [t.inode[RootSlot] EXCEPT !.size = z]
  OBVIOUS
<1>11. w \in Inode /\ w.num = t.inode[RootSlot].num
  BY <1>1, <1>5, <1>10 DEF Inode
<1>12. /\ v = [inode |-> v.inode, disk |-> v.disk]
       /\ v.inode = [t.inode EXCEPT ![RootSlot] = w]
       /\ v.disk = [t.disk EXCEPT !.dir[i] = e]
  BY <1>8, <1>10 DEF TablesKind
<1>13. v.inode \in [ISlot -> Inode]
  BY <1>1, <1>11, <1>12
<1>14. /\ v.disk \in Disk /\ v.disk.dir = [t.disk.dir EXCEPT ![i] = e]
       /\ v.disk.imap = t.disk.imap /\ v.disk.smap = t.disk.smap /\ v.disk.ino = t.disk.ino
  <2>1. /\ t.disk.imap \subseteq 0 .. NR_BITS - 1 /\ t.disk.smap \subseteq 0 .. NR_SECTS - 1
        /\ t.disk.ino \in [Num -> DInode] /\ t.disk.dir \in [1 .. MaxEntries -> Entry]
    BY <1>1, DiskParts
  <2>2. /\ v.disk.dir = [t.disk.dir EXCEPT ![i] = e]
        /\ v.disk.imap = t.disk.imap /\ v.disk.smap = t.disk.smap /\ v.disk.ino = t.disk.ino
        /\ v.disk = [imap |-> v.disk.imap, smap |-> v.disk.smap, ino |-> v.disk.ino, dir |-> v.disk.dir]
    BY <1>1, <1>12 DEF Disk
  <2>3. v.disk.dir \in [1 .. MaxEntries -> Entry]
    BY <1>7, <2>1, <2>2
  <2> QED
    BY <2>1, <2>2, <2>3, DiskParts
<1>15. v \in TablesKind
  BY <1>12, <1>13, <1>14, KindParts
<1>16. v.inode[RootSlot] = w /\ \A r \in ISlot : r # RootSlot => v.inode[r] = t.inode[r]
  BY <1>1, <1>12
<1>17. /\ u \in TablesKind /\ u.inode = v.inode
       /\ u.disk.imap = v.disk.imap /\ u.disk.smap = v.disk.smap /\ u.disk.dir = v.disk.dir
       /\ u.disk.ino = [v.disk.ino EXCEPT ![v.inode[RootSlot].num] = OnDisk(v.inode[RootSlot])]
  BY <1>1, <1>9, <1>11, <1>15, <1>16, SyncFields
<1> QED
  BY <1>2, <1>5, <1>6, <1>10, <1>11, <1>14, <1>16, <1>17

(* new_inode marks the number and the sectors, and makes the inode.        *)
LEMMA NewInodeFields ==
    ASSUME NEW t \in TablesKind, NEW n \in Num, NEW start \in 0 .. NR_SECTS - 1,
           Run(start) \subseteq 0 .. NR_SECTS - 1,
           NEW s \in ISlot, s = NewSlot(t, n), NEW u, u = new_inode(t, n, start)
    PROVE  /\ u \in TablesKind
           /\ \A r \in ISlot : r # s => u.inode[r] = t.inode[r]
           /\ u.inode[s] = [count |-> 1, num |-> n, mode |-> "regular", size |-> 0, start |-> start]
           /\ u.disk.imap = t.disk.imap \cup {n} /\ u.disk.smap = t.disk.smap \cup Run(start)
           /\ u.disk.dir = t.disk.dir
           /\ u.disk.ino = [t.disk.ino EXCEPT ![n] = OnDisk(u.inode[s])]
<1>1. t.inode \in [ISlot -> Inode] /\ t.disk \in Disk
  BY DEF TablesKind
<1>2. PICK w : w = [count |-> 1, num |-> n, mode |-> "regular", size |-> 0, start |-> start]
  OBVIOUS
<1>3. w \in Inode /\ w.num = n
  BY <1>2, Params DEF Inode, Mode
<1>4. PICK v : v = [t EXCEPT !.inode[s] = w, !.disk.imap = t.disk.imap \cup {n},
                             !.disk.smap = t.disk.smap \cup Run(start)]
  OBVIOUS
<1>5. u = sync_inode(v, s)
  BY <1>2, <1>4 DEF new_inode, TablesKind
<1>6. /\ v = [inode |-> v.inode, disk |-> v.disk]
      /\ v.inode = [t.inode EXCEPT ![s] = w]
      /\ v.disk = [t.disk EXCEPT !.imap = t.disk.imap \cup {n}, !.smap = t.disk.smap \cup Run(start)]
  BY <1>4 DEF TablesKind
<1>7. v.inode \in [ISlot -> Inode]
  BY <1>1, <1>3, <1>6
<1>8. /\ v.disk.imap = t.disk.imap \cup {n} /\ v.disk.smap = t.disk.smap \cup Run(start)
      /\ v.disk.ino = t.disk.ino /\ v.disk.dir = t.disk.dir
      /\ v.disk = [imap |-> v.disk.imap, smap |-> v.disk.smap, ino |-> v.disk.ino, dir |-> v.disk.dir]
  BY <1>1, <1>6 DEF Disk
<1>9. v.disk \in Disk
  <2>1. /\ t.disk.imap \subseteq 0 .. NR_BITS - 1 /\ t.disk.smap \subseteq 0 .. NR_SECTS - 1
        /\ t.disk.ino \in [Num -> DInode] /\ t.disk.dir \in [1 .. MaxEntries -> Entry]
    BY <1>1, DiskParts
  <2>2. n \in 0 .. NR_BITS - 1
    BY Params
  <2> QED
    BY <1>8, <2>1, <2>2, DiskParts
<1>10. v \in TablesKind
  BY <1>6, <1>7, <1>9, KindParts
<1>11. v.inode[s] = w /\ \A r \in ISlot : r # s => v.inode[r] = t.inode[r]
  BY <1>1, <1>6
<1>12. /\ u \in TablesKind /\ u.inode = v.inode
       /\ u.disk.imap = v.disk.imap /\ u.disk.smap = v.disk.smap /\ u.disk.dir = v.disk.dir
       /\ u.disk.ino = [v.disk.ino EXCEPT ![v.inode[s].num] = OnDisk(v.inode[s])]
  BY <1>3, <1>5, <1>10, <1>11, SyncFields
<1> QED
  BY <1>2, <1>3, <1>8, <1>11, <1>12

(* Truncation sets a size in memory and on the disk.                       *)
LEMMA TruncateFields ==
    ASSUME NEW t \in TablesKind, NEW s \in ISlot, t.inode[s].num \in Num, NEW oflag,
           NEW u, u = Truncated(t, s, oflag)
    PROVE  \/ u = t
           \/ /\ u \in TablesKind /\ \A r \in ISlot : r # s => u.inode[r] = t.inode[r]
              /\ u.inode[s] = [t.inode[s] EXCEPT !.size = 0]
              /\ u.disk.imap = t.disk.imap /\ u.disk.smap = t.disk.smap /\ u.disk.dir = t.disk.dir
              /\ u.disk.ino = [t.disk.ino EXCEPT ![t.inode[s].num] = OnDisk(u.inode[s])]
<1>1. t.inode \in [ISlot -> Inode] /\ t.disk \in Disk
  BY DEF TablesKind
<1>2. PICK w : w = [t.inode[s] EXCEPT !.size = 0]
  OBVIOUS
<1>3. w \in Inode /\ w.num = t.inode[s].num
  <2>1. 0 \in 0 .. MaxEntries /\ t.inode[s] \in Inode
    BY <1>1, Params
  <2> QED
    BY <1>2, <2>1 DEF Inode
<1>4. PICK v : v = [t EXCEPT !.inode[s].size = 0]
  OBVIOUS
<1>5. u # t => u = sync_inode(v, s)
  BY <1>4 DEF Truncated
<1>6. v.inode = [t.inode EXCEPT ![s] = w] /\ v.disk = t.disk /\ v = [inode |-> v.inode, disk |-> v.disk]
  BY <1>2, <1>4 DEF TablesKind
<1>7. v.inode \in [ISlot -> Inode]
  BY <1>1, <1>3, <1>6
<1>8. v \in TablesKind
  BY <1>1, <1>6, <1>7, KindParts
<1>9. v.inode[s] = w /\ \A r \in ISlot : r # s => v.inode[r] = t.inode[r]
  BY <1>1, <1>6
<1>10. u # t =>
         /\ u \in TablesKind /\ u.inode = v.inode
         /\ u.disk.imap = v.disk.imap /\ u.disk.smap = v.disk.smap /\ u.disk.dir = v.disk.dir
         /\ u.disk.ino = [v.disk.ino EXCEPT ![v.inode[s].num] = OnDisk(v.inode[s])]
  BY <1>3, <1>5, <1>8, <1>9, SyncFields
<1> QED
  BY <1>2, <1>3, <1>6, <1>9, <1>10

(* do_unlink takes the marks away and clears the inode on the disk and in  *)
(* memory.                                                                 *)
LEMMA FreedFields ==
    ASSUME NEW t \in TablesKind, NEW s \in ISlot, NEW n \in Num, t.inode[s].num = n,
           NEW u, u = Freed(t, n, s)
    PROVE  /\ u \in TablesKind
           /\ \A r \in ISlot : r # s => u.inode[r] = t.inode[r]
           /\ s = RootSlot => u.inode[s].num = n
           /\ s # RootSlot /\ t.inode[s].count = 1 => u.inode[s] = Unused
           /\ u.disk.imap = t.disk.imap \ {n}
           /\ u.disk.smap = t.disk.smap \ Cleared(t.inode[s].start)
           /\ u.disk.dir = t.disk.dir /\ u.disk.ino = [t.disk.ino EXCEPT ![n] = NoInode]
<1>1. t.inode \in [ISlot -> Inode] /\ t.disk \in Disk
  BY DEF TablesKind
<1>2. PICK w : w = [count |-> t.inode[s].count, num |-> n, mode |-> "free", size |-> 0, start |-> 0]
  OBVIOUS
<1>3. w \in Inode
  BY <1>1, <1>2, Params DEF Inode, Mode
<1>4. PICK c : c = Cleared(t.inode[s].start)
  OBVIOUS
<1>5. PICK v : v = [t EXCEPT !.disk.imap = t.disk.imap \ {n}, !.disk.smap = t.disk.smap \ c,
                             !.inode[s].mode = "free", !.inode[s].size = 0, !.inode[s].start = 0]
  OBVIOUS
<1>6. u = put_inode(sync_inode(v, s), s)
  BY <1>4, <1>5 DEF Freed, TablesKind
<1>7. /\ v = [inode |-> v.inode, disk |-> v.disk]
      /\ v.disk = [t.disk EXCEPT !.imap = t.disk.imap \ {n}, !.smap = t.disk.smap \ c]
  BY <1>5 DEF TablesKind
<1>8. v.inode = [t.inode EXCEPT ![s] = w]
  <2>1. v.inode = [t.inode EXCEPT ![s].mode = "free", ![s].size = 0, ![s].start = 0]
    BY <1>5 DEF TablesKind
  <2>2. t.inode[s] \in Inode
    BY <1>1
  <2>3. v.inode = [t.inode EXCEPT ![s] = [[[t.inode[s] EXCEPT !.mode = "free"] EXCEPT !.size = 0] EXCEPT !.start = 0]]
    BY <1>1, <2>1
  <2>4. [[[t.inode[s] EXCEPT !.mode = "free"] EXCEPT !.size = 0] EXCEPT !.start = 0] = w
    <3>1. PICK i : i = t.inode[s]
      OBVIOUS
    <3>2. i = [count |-> i.count, num |-> i.num, mode |-> i.mode, size |-> i.size, start |-> i.start]
      BY <2>2, <3>1 DEF Inode
    <3>3. [[[i EXCEPT !.mode = "free"] EXCEPT !.size = 0] EXCEPT !.start = 0]
             = [count |-> i.count, num |-> i.num, mode |-> "free", size |-> 0, start |-> 0]
      <4>1. PICK a : a = [i EXCEPT !.mode = "free"]
        OBVIOUS
      <4>2. a = [count |-> i.count, num |-> i.num, mode |-> "free", size |-> i.size, start |-> i.start]
        BY <3>2, <4>1
      <4>3. PICK b : b = [a EXCEPT !.size = 0]
        OBVIOUS
      <4>4. b = [count |-> i.count, num |-> i.num, mode |-> "free", size |-> 0, start |-> i.start]
        BY <4>2, <4>3
      <4>5. [b EXCEPT !.start = 0]
              = [count |-> i.count, num |-> i.num, mode |-> "free", size |-> 0, start |-> 0]
        BY <4>4
      <4> QED
        BY <4>1, <4>3, <4>5
    <3> QED
      BY <1>2, <3>1, <3>3
  <2> QED
    BY <2>3, <2>4
<1>9. v.inode \in [ISlot -> Inode]
  BY <1>1, <1>3, <1>8
<1>10. /\ v.disk.imap = t.disk.imap \ {n} /\ v.disk.smap = t.disk.smap \ c
       /\ v.disk.ino = t.disk.ino /\ v.disk.dir = t.disk.dir
       /\ v.disk = [imap |-> v.disk.imap, smap |-> v.disk.smap, ino |-> v.disk.ino, dir |-> v.disk.dir]
  BY <1>1, <1>7 DEF Disk
<1>11. v.disk \in Disk
  <2>1. /\ t.disk.imap \subseteq 0 .. NR_BITS - 1 /\ t.disk.smap \subseteq 0 .. NR_SECTS - 1
        /\ t.disk.ino \in [Num -> DInode] /\ t.disk.dir \in [1 .. MaxEntries -> Entry]
    BY <1>1, DiskParts
  <2> QED
    BY <1>10, <2>1, DiskParts
<1>12. v \in TablesKind
  BY <1>7, <1>9, <1>11, KindParts
<1>13. v.inode[s] = w /\ \A r \in ISlot : r # s => v.inode[r] = t.inode[r]
  BY <1>1, <1>8
<1>14. PICK x : x = sync_inode(v, s)
  OBVIOUS
<1>15. /\ x \in TablesKind /\ x.inode = v.inode
       /\ x.disk.imap = v.disk.imap /\ x.disk.smap = v.disk.smap /\ x.disk.dir = v.disk.dir
       /\ x.disk.ino = [v.disk.ino EXCEPT ![n] = OnDisk(w)]
  BY <1>2, <1>12, <1>13, <1>14, SyncFields
<1>16. OnDisk(w) = NoInode
  BY <1>2 DEF OnDisk, NoInode
<1>17. /\ u \in TablesKind /\ u.disk = x.disk
       /\ \A r \in ISlot : r # s => u.inode[r] = x.inode[r]
       /\ u.inode[s] = IF s # RootSlot /\ x.inode[s].count = 1 THEN Unused
                       ELSE [x.inode[s] EXCEPT !.count = x.inode[s].count - 1]
  BY <1>6, <1>14, <1>15, PutFields
<1>18. s = RootSlot => u.inode[s].num = n
  BY <1>2, <1>13, <1>15, <1>17
<1>19. s # RootSlot /\ t.inode[s].count = 1 => u.inode[s] = Unused
  BY <1>2, <1>13, <1>15, <1>17
<1> QED
  BY <1>4, <1>10, <1>13, <1>15, <1>16, <1>17, <1>18, <1>19

(* Removing an entry empties it, and may shorten "/".                      *)
LEMMA RemovedFields ==
    ASSUME NEW t \in TablesKind, NEW i \in 1 .. MaxEntries, t.inode[RootSlot].num \in Num,
           NEW u, u = Removed(t, i)
    PROVE  /\ u \in TablesKind
           /\ \A r \in ISlot : r # RootSlot => u.inode[r] = t.inode[r]
           /\ u.disk.imap = t.disk.imap /\ u.disk.smap = t.disk.smap
           /\ u.disk.dir = [t.disk.dir EXCEPT ![i] = NoEntry]
           /\ \/ u.inode = t.inode /\ u.disk.ino = t.disk.ino
              \/ /\ \E z \in 0 .. MaxEntries : u.inode[RootSlot] = [t.inode[RootSlot] EXCEPT !.size = z]
                 /\ u.disk.ino = [t.disk.ino EXCEPT ![t.inode[RootSlot].num] = OnDisk(u.inode[RootSlot])]
<1>1. t.inode \in [ISlot -> Inode] /\ t.disk \in Disk /\ RootSlot \in ISlot
  BY Params DEF TablesKind
<1>2. NoEntry \in Entry
  BY Params DEF NoEntry, Entry
<1>3. PICK v : v = [t EXCEPT !.disk.dir[i] = NoEntry]
  OBVIOUS
<1>4. /\ v = [inode |-> v.inode, disk |-> v.disk] /\ v.inode = t.inode
      /\ v.disk = [t.disk EXCEPT !.dir[i] = NoEntry]
  BY <1>3 DEF TablesKind
<1>5. /\ v.disk.dir = [t.disk.dir EXCEPT ![i] = NoEntry]
      /\ v.disk.imap = t.disk.imap /\ v.disk.smap = t.disk.smap /\ v.disk.ino = t.disk.ino
      /\ v.disk = [imap |-> v.disk.imap, smap |-> v.disk.smap, ino |-> v.disk.ino, dir |-> v.disk.dir]
  BY <1>1, <1>4 DEF Disk
<1>6. v.disk \in Disk
  <2>1. /\ t.disk.imap \subseteq 0 .. NR_BITS - 1 /\ t.disk.smap \subseteq 0 .. NR_SECTS - 1
        /\ t.disk.ino \in [Num -> DInode] /\ t.disk.dir \in [1 .. MaxEntries -> Entry]
    BY <1>1, DiskParts
  <2>2. v.disk.dir \in [1 .. MaxEntries -> Entry]
    BY <1>2, <1>5, <2>1
  <2> QED
    BY <1>5, <2>1, <2>2, DiskParts
<1>7. v \in TablesKind
  BY <1>1, <1>4, <1>6, KindParts
<1>8. CASE i # NrEntries(t)
  <2>1. u = v
    BY <1>3, <1>8 DEF Removed
  <2> QED
    BY <1>4, <1>5, <1>7, <2>1
<1>9. CASE i = NrEntries(t)
  <2> DEFINE used == {j \in 1 .. i - 1 : t.disk.dir[j].num # 0}
  <2>1. PICK z : z = Cardinality(used)
    OBVIOUS
  <2>2. z \in 0 .. MaxEntries
    <3>1. i \in Nat /\ i >= 1 /\ i <= MaxEntries
      BY Params
    <3>2. IsFiniteSet(1 .. i - 1) /\ Cardinality(1 .. i - 1) <= i - 1
      <4>1. 1 \in Int /\ i - 1 \in Int
        BY <3>1
      <4>2. /\ IsFiniteSet(1 .. i - 1)
            /\ Cardinality(1 .. i - 1) = IF 1 > i - 1 THEN 0 ELSE i - 1 - 1 + 1
        BY <4>1, FS_Interval
      <4> QED
        BY <3>1, <4>2
    <3>3. used \in SUBSET (1 .. i - 1)
      OBVIOUS
    <3> HIDE DEF used
    <3>4. IsFiniteSet(used) /\ z <= Cardinality(1 .. i - 1)
      BY <2>1, <3>2, <3>3, FS_Subset
    <3>5. z \in Nat /\ Cardinality(1 .. i - 1) \in Nat
      BY <2>1, <3>2, <3>4, FS_CardinalityType
    <3> QED
      BY <3>1, <3>2, <3>4, <3>5, Params
  <2>3. PICK x : x = [v EXCEPT !.inode[RootSlot].size = z]
    OBVIOUS
  <2>4. u = sync_inode(x, RootSlot)
    BY <1>3, <1>9, <2>1, <2>3 DEF Removed
  <2>5. PICK w : w = [t.inode[RootSlot] EXCEPT !.size = z]
    OBVIOUS
  <2>6. w \in Inode /\ w.num = t.inode[RootSlot].num
    BY <1>1, <2>2, <2>5 DEF Inode
  <2>7. /\ x = [inode |-> x.inode, disk |-> x.disk] /\ x.disk = v.disk
        /\ x.inode = [t.inode EXCEPT ![RootSlot] = w]
    BY <1>4, <1>7, <2>3, <2>5 DEF TablesKind
  <2>8. x.inode \in [ISlot -> Inode] /\ x.inode[RootSlot] = w
    BY <1>1, <2>6, <2>7
  <2>9. x \in TablesKind
    BY <1>6, <2>7, <2>8, KindParts
  <2>10. /\ u \in TablesKind /\ u.inode = x.inode
         /\ u.disk.imap = x.disk.imap /\ u.disk.smap = x.disk.smap /\ u.disk.dir = x.disk.dir
         /\ u.disk.ino = [x.disk.ino EXCEPT ![x.inode[RootSlot].num] = OnDisk(x.inode[RootSlot])]
    BY <1>1, <2>4, <2>6, <2>8, <2>9, SyncFields
  <2>11. \A r \in ISlot : r # RootSlot => u.inode[r] = t.inode[r]
    BY <1>1, <2>7, <2>10
  <2>12. u.inode[RootSlot] = [t.inode[RootSlot] EXCEPT !.size = z]
    BY <2>5, <2>8, <2>10
  <2> QED
    BY <1>5, <2>2, <2>6, <2>7, <2>8, <2>10, <2>11, <2>12
<1> QED
  BY <1>8, <1>9

-----------------------------------------------------------------------------
(* Sound tables stay sound                                                 *)

(* What is held on both sides of a step is the same inode.                 *)
Steady(t, u) == \A r \in ISlot : Held(t, r) /\ Held(u, r) => u.inode[r].num = t.inode[r].num

(* No count of a slot that is held goes down, and that of s goes up.       *)
Grown(t, u, s) ==
    \A r \in ISlot \ {RootSlot} :
        /\ t.inode[r].count > 0 => u.inode[r].count >= t.inode[r].count
        /\ r = s => u.inode[r].count >= 1 /\ (t.inode[r].count > 0 => u.inode[r].count > t.inode[r].count)

(* The counts of slots are numbers, and so on.                             *)
LEMMA InodeKinds ==
    ASSUME NEW t \in TablesKind
    PROVE  /\ \A s \in ISlot : /\ t.inode[s] \in Inode /\ t.inode[s].count \in Int
                               /\ t.inode[s].num \in 0 .. NR_BITS - 1
                               /\ t.inode[s].size \in 0 .. MaxEntries
           /\ t.disk.imap \subseteq 0 .. NR_BITS - 1 /\ t.disk.smap \subseteq 0 .. NR_SECTS - 1
           /\ t.disk.ino \in [Num -> DInode] /\ t.disk.dir \in [1 .. MaxEntries -> Entry]
           /\ \A i \in 1 .. MaxEntries : t.disk.dir[i].num \in 0 .. NR_BITS - 1
BY DEF TablesKind, Disk, Inode, Entry

(* A search gives the number of an entry.                                  *)
LEMMA LookupRight ==
    ASSUME NEW t, Sound(t), NEW name, NEW n, n = Lookup(t, name)
    PROVE  /\ n \in 0 .. NR_BITS - 1
           /\ n # 0 => n \in Num \cap t.disk.imap /\ t.disk.ino[n].mode # "free"
<1>1. t \in TablesKind
  BY DEF Sound
<1>2. 0 \in 0 .. NR_BITS - 1
  BY Params
<1>3. CASE Matches(t, name) = {}
  BY <1>2, <1>3 DEF Lookup
<1>4. CASE Matches(t, name) # {}
  <2>1. NrEntries(t) \in Nat
    BY <1>1, InodeKinds, Params DEF NrEntries
  <2> DEFINE m == Min({NrEntries(t) + 1, MaxEntries})
  <2>2. m \in Nat /\ m <= MaxEntries
    <3>1. {NrEntries(t) + 1, MaxEntries} \in SUBSET Nat /\ {NrEntries(t) + 1, MaxEntries} # {}
      BY <2>1, Params
    <3>2. m \in {NrEntries(t) + 1, MaxEntries} /\ \A y \in {NrEntries(t) + 1, MaxEntries} : m <= y
      BY <3>1, MinIsLeast
    <3> QED
      BY <3>1, <3>2
  <2>3. Matches(t, name) \subseteq 1 .. m
    BY DEF Matches, Seen
  <2> HIDE DEF m
  <2>4. Matches(t, name) \subseteq 1 .. MaxEntries /\ Matches(t, name) \in SUBSET Nat
    BY <2>2, <2>3, Params
  <2>5. PICK i : i = Min(Matches(t, name))
    OBVIOUS
  <2>6. i \in 1 .. MaxEntries
    BY <1>4, <2>4, <2>5, MinIsLeast
  <2>7. n = t.disk.dir[i].num
    BY <1>4, <2>5 DEF Lookup
  <2>8. n \in 0 .. NR_BITS - 1
    BY <1>1, <2>6, <2>7, InodeKinds
  <2>9. EntryRight(t.disk, i)
    BY <2>6 DEF Sound
  <2> QED
    BY <2>7, <2>8, <2>9, Params DEF EntryRight
<1> QED
  BY <1>3, <1>4

(* Counting or loading an inode keeps the tables sound, unless the root's  *)
(* slot is taken.                                                          *)
LEMMA GetSound ==
    ASSUME NEW t, Sound(t), NEW n \in Num \cap t.disk.imap, t.disk.ino[n].mode # "free",
           NEW s, s = InodeSlot(t, n), s # NIL, NEW u, u = get_inode(t, n), ~ RootTaken(u)
    PROVE  Sound(u) /\ Steady(t, u) /\ Grown(t, u, s)
<1>1. t \in TablesKind /\ RootKept(t) /\ MemoryRight(t) /\ SectorsRight(t.disk)
  BY DEF Sound
<1>2. n \in 0 .. NR_BITS - 1
  BY Params
<1>3. /\ u \in TablesKind /\ u.disk = t.disk /\ s \in ISlot
      /\ \A r \in ISlot : r # s => u.inode[r] = t.inode[r]
      /\ u.inode[s].num = n
      /\ \/ /\ t.inode[s].count > 0 /\ t.inode[s].num = n
            /\ u.inode[s] = [t.inode[s] EXCEPT !.count = t.inode[s].count + 1]
         \/ /\ t.inode[s].count <= 0
            /\ \A r \in ISlot : t.inode[r].count > 0 => t.inode[r].num # n
            /\ u.inode[s] = Loaded(t, n)
            /\ t.inode[RootSlot].count <= 0 => s = RootSlot
  BY <1>1, <1>2, GetFields
<1>4. RootKept(u)
  BY <1>1, <1>3 DEF RootKept, RootTaken
<1>5. \A r \in ISlot : t.inode[r] \in Inode /\ u.inode[r] \in Inode
  BY <1>1, <1>3, InodeKinds
<1>6. CASE t.inode[s].count > 0
  <2>1. t.inode[s].num = n /\ u.inode[s] = [t.inode[s] EXCEPT !.count = t.inode[s].count + 1]
    BY <1>3, <1>5, <1>6 DEF Inode
  <2>2. /\ u.inode[s].count = t.inode[s].count + 1 /\ u.inode[s].mode = t.inode[s].mode
        /\ OnDisk(u.inode[s]) = OnDisk(t.inode[s])
    BY <1>3, <1>5, <2>1 DEF Inode, OnDisk
  <2>3. t.inode[s].count \in Int /\ u.inode[s].count > 0
    BY <1>3, <1>5, <1>6, <2>2 DEF Inode
  <2>4. \A r \in ISlot : Held(u, r) <=> Held(t, r)
    BY <1>3, <1>6, <2>3 DEF Held
  <2>5. \A r \in ISlot : u.inode[r].num = t.inode[r].num /\ u.inode[r].mode = t.inode[r].mode
                         /\ OnDisk(u.inode[r]) = OnDisk(t.inode[r])
    BY <1>3, <2>1, <2>2
  <2>6. MemoryRight(u)
    BY <1>1, <1>3, <2>4, <2>5 DEF MemoryRight
  <2>7. Grown(t, u, s)
    BY <1>3, <1>5, <2>2, <2>3 DEF Grown, Inode
  <2> QED
    BY <1>1, <1>3, <1>4, <2>5, <2>6, <2>7 DEF Sound, Steady
<1>7. CASE ~ (t.inode[s].count > 0)
  <2>1. /\ t.inode[s].count <= 0
        /\ \A r \in ISlot : t.inode[r].count > 0 => t.inode[r].num # n
        /\ u.inode[s] = Loaded(t, n)
        /\ t.inode[RootSlot].count <= 0 => s = RootSlot
    BY <1>3, <1>7
  <2>2. u.inode[s].count = 1 /\ u.inode[s].mode = t.disk.ino[n].mode /\ OnDisk(u.inode[s]) = t.disk.ino[n]
    <3>1. t.disk.ino[n] \in DInode
      BY <1>1, InodeKinds
    <3> QED
      BY <2>1, <3>1 DEF Loaded, OnDisk, DInode
  <2>3. \A r \in ISlot : Held(u, r) /\ r # s => Held(t, r) /\ u.inode[r].num # n
    <3>1. TAKE r \in ISlot
    <3>2. ASSUME Held(u, r), r # s PROVE Held(t, r) /\ u.inode[r].num # n
      <4>1. u.inode[r] = t.inode[r] /\ Held(t, r)
        BY <1>3, <3>2 DEF Held
      <4>2. t.inode[r].count > 0
        BY <1>5, <2>1, <3>2, <4>1 DEF Held, Inode
      <4> QED
        BY <2>1, <4>1, <4>2
    <3> QED
      BY <3>2
  <2>4. MemoryRight(u)
    <3>1. \A r \in ISlot : Held(u, r) =>
             /\ u.inode[r].num \in Num \cap u.disk.imap /\ u.inode[r].mode # "free"
             /\ OnDisk(u.inode[r]) = u.disk.ino[u.inode[r].num]
      <4>1. TAKE r \in ISlot
      <4>2. CASE r = s
        BY <1>3, <2>2, <4>2
      <4>3. CASE r # s
        BY <1>1, <1>3, <2>3, <4>3 DEF MemoryRight
      <4> QED
        BY <4>2, <4>3
    <3>2. \A q, r \in ISlot : Held(u, q) /\ Held(u, r) /\ u.inode[q].num = u.inode[r].num => q = r
      <4>1. TAKE q, r \in ISlot
      <4>2. CASE q # s /\ r # s
        BY <1>1, <1>3, <2>3, <4>2 DEF MemoryRight
      <4>3. CASE q = s \/ r = s
        BY <1>3, <2>3, <4>3
      <4> QED
        BY <4>2, <4>3
    <3> QED
      BY <3>1, <3>2 DEF MemoryRight
  <2>5. Steady(t, u)
    <3>1. s = RootSlot => u.inode[s].num = t.inode[s].num
      BY <1>1, <1>4 DEF RootKept
    <3>2. Held(t, s) => s = RootSlot
      BY <1>7 DEF Held
    <3> QED
      BY <1>3, <3>1, <3>2 DEF Steady
  <2>6. Grown(t, u, s)
    BY <1>3, <1>5, <1>7, <2>2 DEF Grown, Inode
  <2> QED
    BY <1>1, <1>3, <1>4, <2>4, <2>5, <2>6 DEF Sound
<1> QED
  BY <1>6, <1>7

(* Nothing goes wrong with giving back what is counted.                    *)
LEMMA PutSound ==
    ASSUME NEW t, Sound(t), NEW s \in ISlot, Held(t, s), NEW u, u = put_inode(t, s)
    PROVE  /\ Sound(u) /\ Steady(t, u) /\ ~ RootTaken(u)
           /\ \A r \in ISlot : u.inode[r].count = IF r = s THEN t.inode[r].count - 1 ELSE t.inode[r].count
<1>1. t \in TablesKind /\ RootKept(t) /\ MemoryRight(t) /\ SectorsRight(t.disk)
  BY DEF Sound
<1>2. /\ u \in TablesKind /\ u.disk = t.disk
      /\ \A r \in ISlot : r # s => u.inode[r] = t.inode[r]
      /\ u.inode[s] = IF s # RootSlot /\ t.inode[s].count = 1 THEN Unused
                      ELSE [t.inode[s] EXCEPT !.count = t.inode[s].count - 1]
  BY <1>1, PutFields
<1>3. \A r \in ISlot : t.inode[r] \in Inode /\ u.inode[r] \in Inode
  BY <1>1, <1>2, InodeKinds
<1>4. u.inode[s].count = t.inode[s].count - 1
  <2>1. CASE s # RootSlot /\ t.inode[s].count = 1
    BY <1>2, <2>1 DEF Unused
  <2>2. CASE ~ (s # RootSlot /\ t.inode[s].count = 1)
    BY <1>2, <1>3, <2>2 DEF Inode
  <2> QED
    BY <2>1, <2>2
<1>5. \A r \in ISlot : Held(u, r) =>
         /\ Held(t, r) /\ u.inode[r].num = t.inode[r].num /\ u.inode[r].mode = t.inode[r].mode
         /\ OnDisk(u.inode[r]) = OnDisk(t.inode[r])
  <2>1. TAKE r \in ISlot
  <2>2. CASE r # s
    BY <1>2, <2>2 DEF Held
  <2>3. CASE r = s /\ s # RootSlot /\ t.inode[s].count = 1
    BY <1>4, <2>3 DEF Held
  <2>4. CASE r = s /\ ~ (s # RootSlot /\ t.inode[s].count = 1)
    <3>1. u.inode[r] = [t.inode[r] EXCEPT !.count = t.inode[r].count - 1]
      BY <1>2, <2>4
    <3> QED
      BY <1>3, <2>4, <3>1 DEF Inode, OnDisk
  <2> QED
    BY <2>2, <2>3, <2>4
<1>6. MemoryRight(u)
  BY <1>1, <1>2, <1>5 DEF MemoryRight
<1>7. RootKept(u)
  <2>1. Held(u, RootSlot) /\ RootSlot \in ISlot
    BY Params DEF Held
  <2> QED
    BY <1>1, <1>2, <1>5, <2>1 DEF RootKept
<1>8. Sound(u)
  BY <1>1, <1>2, <1>6, <1>7 DEF Sound
<1>9. Steady(t, u)
  BY <1>5 DEF Steady
<1> QED
  BY <1>2, <1>4, <1>7, <1>8, <1>9 DEF RootKept, RootTaken

(* u is t with another size of the inode in slot s, in memory and on disk. *)
Resized(t, u, s) ==
    /\ u \in TablesKind /\ \A r \in ISlot : r # s => u.inode[r] = t.inode[r]
    /\ \E z \in 0 .. MaxEntries : u.inode[s] = [t.inode[s] EXCEPT !.size = z]
    /\ u.disk.imap = t.disk.imap /\ u.disk.smap = t.disk.smap
    /\ u.disk.ino = [t.disk.ino EXCEPT ![t.inode[s].num] = OnDisk(u.inode[s])]

(* Sizes do not matter, but for being the same in memory and on disk.      *)
LEMMA ResizedRight ==
    ASSUME NEW t \in TablesKind, RootKept(t), MemoryRight(t), SectorsRight(t.disk),
           NEW s \in ISlot, Held(t, s), NEW u, Resized(t, u, s)
    PROVE  /\ RootKept(u) /\ MemoryRight(u) /\ SectorsRight(u.disk)
           /\ \A r \in ISlot : u.inode[r].count = t.inode[r].count /\ u.inode[r].num = t.inode[r].num
           /\ \A n \in Num : u.disk.ino[n].mode = t.disk.ino[n].mode
<1>1. /\ u \in TablesKind /\ \A r \in ISlot : r # s => u.inode[r] = t.inode[r]
      /\ u.disk.imap = t.disk.imap /\ u.disk.smap = t.disk.smap
      /\ u.disk.ino = [t.disk.ino EXCEPT ![t.inode[s].num] = OnDisk(u.inode[s])]
  BY DEF Resized
<1>2. PICK z \in 0 .. MaxEntries : u.inode[s] = [t.inode[s] EXCEPT !.size = z]
  BY DEF Resized
<1>3. PICK n : n = t.inode[s].num
  OBVIOUS
<1>4. n \in Num \cap t.disk.imap /\ t.inode[s].mode # "free" /\ OnDisk(t.inode[s]) = t.disk.ino[n]
  BY <1>3 DEF MemoryRight
<1>5. t.inode[s] \in Inode /\ t.disk.ino \in [Num -> DInode]
  BY InodeKinds
<1>6. /\ u.inode[s].count = t.inode[s].count /\ u.inode[s].num = n
      /\ u.inode[s].mode = t.inode[s].mode /\ u.inode[s].start = t.inode[s].start
  BY <1>2, <1>3, <1>5 DEF Inode
<1>7. \A r \in ISlot : u.inode[r].count = t.inode[r].count /\ u.inode[r].num = t.inode[r].num
  BY <1>1, <1>3, <1>6
<1>8. \A r \in ISlot : Held(u, r) <=> Held(t, r)
  BY <1>7 DEF Held
<1>9. \A m \in Num : u.disk.ino[m] = IF m = n THEN OnDisk(u.inode[s]) ELSE t.disk.ino[m]
  BY <1>1, <1>3, <1>5
<1>10. \A m \in Num : u.disk.ino[m].mode = t.disk.ino[m].mode /\ u.disk.ino[m].start = t.disk.ino[m].start
  <2>1. TAKE m \in Num
  <2>2. CASE m = n
    BY <1>4, <1>6, <1>9, <2>2 DEF OnDisk
  <2>3. CASE m # n
    BY <1>9, <2>3
  <2> QED
    BY <2>2, <2>3
<1>11. RootKept(u)
  BY <1>1, <1>7, <1>10, Params DEF RootKept
<1>12. MemoryRight(u)
  <2>1. \A r \in ISlot : Held(u, r) =>
           /\ u.inode[r].num \in Num \cap u.disk.imap /\ u.inode[r].mode # "free"
           /\ OnDisk(u.inode[r]) = u.disk.ino[u.inode[r].num]
    <3>1. TAKE r \in ISlot
    <3>2. CASE r = s
      BY <1>1, <1>4, <1>6, <1>9, <3>2
    <3>3. ASSUME r # s, Held(u, r)
          PROVE  /\ u.inode[r].num \in Num \cap u.disk.imap /\ u.inode[r].mode # "free"
                 /\ OnDisk(u.inode[r]) = u.disk.ino[u.inode[r].num]
      <4>1. Held(t, r) /\ u.inode[r] = t.inode[r]
        BY <1>1, <1>8, <3>3
      <4>2. t.inode[r].num # n
        BY <1>3, <3>3, <4>1 DEF MemoryRight
      <4> QED
        BY <1>1, <1>9, <4>1, <4>2 DEF MemoryRight
    <3> QED
      BY <3>2, <3>3
  <2> QED
    BY <1>7, <1>8, <2>1 DEF MemoryRight
<1>13. SectorsRight(u.disk)
  <2>1. FilesOf(u.disk) = FilesOf(t.disk) /\ FilesOf(t.disk) \subseteq Num
    BY <1>10 DEF FilesOf
  <2> QED
    BY <1>1, <1>10, <2>1 DEF SectorsRight
<1> QED
  BY <1>7, <1>10, <1>11, <1>12, <1>13

(* Truncation keeps the tables sound.                                      *)
LEMMA TruncateSound ==
    ASSUME NEW t, Sound(t), NEW s \in ISlot, Held(t, s), NEW oflag, NEW u, u = Truncated(t, s, oflag)
    PROVE  /\ Sound(u)
           /\ \A r \in ISlot : u.inode[r].count = t.inode[r].count /\ u.inode[r].num = t.inode[r].num
<1>1. t \in TablesKind /\ RootKept(t) /\ MemoryRight(t) /\ SectorsRight(t.disk)
  BY DEF Sound
<1>2. t.inode[s].num \in Num
  BY <1>1 DEF MemoryRight
<1>3. CASE u = t
  BY <1>3
<1>4. CASE u # t
  <2>1. /\ u \in TablesKind /\ \A r \in ISlot : r # s => u.inode[r] = t.inode[r]
        /\ u.inode[s] = [t.inode[s] EXCEPT !.size = 0]
        /\ u.disk.imap = t.disk.imap /\ u.disk.smap = t.disk.smap /\ u.disk.dir = t.disk.dir
        /\ u.disk.ino = [t.disk.ino EXCEPT ![t.inode[s].num] = OnDisk(u.inode[s])]
    BY <1>1, <1>2, <1>4, TruncateFields
  <2>2. Resized(t, u, s)
    BY <2>1, Params, SMTT(40) DEF Resized
  <2>3. /\ RootKept(u) /\ MemoryRight(u) /\ SectorsRight(u.disk)
        /\ \A r \in ISlot : u.inode[r].count = t.inode[r].count /\ u.inode[r].num = t.inode[r].num
        /\ \A n \in Num : u.disk.ino[n].mode = t.disk.ino[n].mode
    BY <1>1, <2>2, ResizedRight
  <2>4. \A i \in 1 .. MaxEntries : t.disk.dir[i].num # 0 => t.disk.dir[i].num \in Num
    BY <1>1, InodeKinds, Params
  <2>5. \A i \in 1 .. MaxEntries : EntryRight(u.disk, i)
    BY <2>1, <2>3, <2>4 DEF Sound, EntryRight
  <2> QED
    BY <2>1, <2>3, <2>5 DEF Sound
<1> QED
  BY <1>3, <1>4

(* A new file starts at a block that nobody has, or behind the blocks.     *)
LEMMA FirstFreeIsABlock ==
    ASSUME NEW t, Sound(t), Room(t)
    PROVE  /\ Min(FreeSects(t)) \in LowBlocks \/ High(Min(FreeSects(t)))
           /\ Min(FreeSects(t)) \in 0 .. NR_SECTS - 1 /\ Min(FreeSects(t)) \notin t.disk.smap
<1>1. SectorsRight(t.disk)
  BY DEF Sound
<1>2. PICK m : m = Min(FreeSects(t))
  OBVIOUS
<1>3. m \in FreeSects(t) /\ \A y \in FreeSects(t) : m <= y
  <2>1. FreeSects(t) \in SUBSET Nat
    BY Params DEF FreeSects
  <2> QED
    BY <1>2, <2>1, MinIsLeast DEF Room
<1>4. m \in 0 .. NR_SECTS - 1 /\ m \notin t.disk.smap
  BY <1>3 DEF FreeSects
<1>5. m \in Nat /\ m >= 1
  BY <1>1, <1>4, Params DEF SectorsRight
<1>6. PICK b \in Blocks : b <= m /\ m \in Run(b)
  BY <1>5, BlockOf
<1>7. b \in Nat /\ b \in 0 .. NR_SECTS - 1
  BY <1>4, <1>6, BlocksApart, Params
<1>8. CASE b \in LowBlocks
  <2>1. b \notin t.disk.smap
    BY <1>1, <1>4, <1>6, <1>8 DEF SectorsRight
  <2>2. b \in FreeSects(t)
    BY <1>7, <2>1 DEF FreeSects
  <2>3. b = m
    BY <1>3, <1>5, <1>6, <1>7, <2>2
  <2> QED
    BY <1>2, <1>4, <1>8, <2>3
<1>9. CASE b \notin LowBlocks
  <2>1. b + FILE_SECTS > INSTALL_BIT
    BY <1>7, <1>9, Params DEF LowBlocks
  <2>2. ASSUME NEW c \in LowBlocks PROVE c + FILE_SECTS <= m
    <3>1. c \in Blocks /\ c + FILE_SECTS <= INSTALL_BIT
      BY DEF LowBlocks
    <3>2. c \in Nat /\ Run(c) \cap Run(b) = {} /\ b \in Run(b)
      BY <1>9, <3>1, BlocksApart
    <3>3. b \notin Run(c)
      BY <3>2
    <3> QED
      BY <1>5, <1>6, <1>7, <2>1, <3>1, <3>2, <3>3, Params DEF Run
  <2> QED
    BY <1>2, <1>4, <1>5, <2>2 DEF High
<1> QED
  BY <1>8, <1>9

(* A number and the sectors of a file more: no file below has them.        *)
LEMMA MarkedRight ==
    ASSUME NEW d \in Disk, NEW e \in Disk, SectorsRight(d), NEW n \in Num,
           NEW b, b \in LowBlocks \/ High(b), b \notin d.smap,
           e.smap = d.smap \cup Run(b), \A m \in Num : m # n => e.ino[m] = d.ino[m], e.ino[n].start = b
    PROVE  SectorsRight(e)
<1>1. b \in LowBlocks => b \in Run(b)
  BY BlocksApart DEF LowBlocks
<1>2. \A c \in LowBlocks : c \in e.smap => Run(c) \subseteq e.smap
  <2>1. TAKE c \in LowBlocks
  <2>2. CASE c = b
    BY <2>2
  <2>3. CASE c # b
    <3>1. c \notin Run(b)
      <4>1. CASE b \in LowBlocks
        <5>1. b \in Blocks /\ c \in Blocks
          BY <4>1 DEF LowBlocks
        <5>2. c \in Run(c) /\ Run(c) \cap Run(b) = {}
          BY <2>3, <5>1, BlocksApart
        <5> QED
          BY <5>2
      <4>2. CASE High(b)
        BY <4>2, HighApart
      <4> QED
        BY <4>1, <4>2
    <3> QED
      BY <3>1 DEF SectorsRight
  <2> QED
    BY <2>2, <2>3
<1>3. \A m \in FilesOf(e) : m = n \/ (m \in FilesOf(d) /\ e.ino[m] = d.ino[m])
  BY DEF FilesOf
<1>4. \A m \in FilesOf(e) : e.ino[m].start \in LowBlocks \cap e.smap \/ High(e.ino[m].start)
  BY <1>1, <1>3 DEF SectorsRight
<1>5. ASSUME NEW l \in FilesOf(e), NEW m \in FilesOf(e),
             e.ino[l].start \in LowBlocks, e.ino[l].start = e.ino[m].start
      PROVE  l = m
  <2>1. CASE l # n /\ m # n
    BY <1>3, <1>5, <2>1 DEF SectorsRight
  <2>2. ASSUME NEW k \in FilesOf(d), d.ino[k].start = b, b \in LowBlocks PROVE FALSE
    <3>1. ~ High(b)
      BY <2>2, HighApart
    <3> QED
      BY <2>2, <3>1 DEF SectorsRight
  <2> QED
    BY <1>3, <1>5, <2>1, <2>2
<1>6. 0 \in e.smap
  BY DEF SectorsRight
<1> QED
  BY <1>2, <1>4, <1>5, <1>6 DEF SectorsRight

(* Making a file keeps the tables sound, unless the root's slot is taken.  *)
LEMMA CreateSound ==
    ASSUME NEW t, Sound(t), Room(t), Numbered(t), NewPlace(t) <= MaxEntries,
           NEW name \in Name \cup {"."}, NEW s, s = NewSlot(t, Min(FreeNums(t))),
           NEW u, u = create_file(t, name)
    PROVE  /\ u \in TablesKind /\ s \in ISlot /\ u.inode[s].num \in Num
           /\ RootTaken(u) <=> s = RootSlot
           /\ ~ RootTaken(u) => Sound(u) /\ Held(u, s) /\ Steady(t, u) /\ Grown(t, u, s)
<1>1. /\ t \in TablesKind /\ RootKept(t) /\ MemoryRight(t) /\ SectorsRight(t.disk)
      /\ \A i \in 1 .. MaxEntries : EntryRight(t.disk, i)
  BY DEF Sound
<1>2. PICK n : n = Min(FreeNums(t))
  OBVIOUS
<1>3. n \in Num /\ n \notin t.disk.imap
  <2>1. FreeNums(t) \in SUBSET Nat /\ FreeNums(t) # {}
    BY Params DEF FreeNums, Numbered
  <2>2. n \in FreeNums(t)
    BY <1>2, <2>1, MinIsLeast
  <2> QED
    BY <2>2 DEF FreeNums
<1>4. PICK b : b = Min(FreeSects(t))
  OBVIOUS
<1>5. /\ b \in LowBlocks \/ High(b)
      /\ b \in 0 .. NR_SECTS - 1 /\ b \notin t.disk.smap /\ Run(b) \subseteq 0 .. NR_SECTS - 1
  BY <1>4, FirstFreeIsABlock DEF Room
<1>6. s = NewSlot(t, n) /\ s = InodeSlot(t, n) /\ s # NIL
  BY <1>2 DEF NewSlot, Numbered
<1>7. s \in ISlot /\ t.inode[s].count <= 0
  <2>1. n \in 0 .. NR_BITS - 1
    BY <1>3, Params
  <2>2. PICK g : g = get_inode(t, n)
    OBVIOUS
  <2>3. t \in TablesKind /\ s = InodeSlot(t, n) /\ s # NIL
    BY <1>1, <1>6
  <2>4. s \in ISlot /\ (t.inode[s].count <= 0 \/ (t.inode[s].count > 0 /\ t.inode[s].num = n))
    <3>1. /\ s \in ISlot
          /\ \/ /\ t.inode[s].count > 0 /\ t.inode[s].num = n
                /\ g.inode[s] = [t.inode[s] EXCEPT !.count = t.inode[s].count + 1]
             \/ /\ t.inode[s].count <= 0
                /\ \A r \in ISlot : t.inode[r].count > 0 => t.inode[r].num # n
                /\ g.inode[s] = Loaded(t, n)
                /\ t.inode[RootSlot].count <= 0 => s = RootSlot
      BY <2>1, <2>2, <2>3, GetFields
    <3> QED
      BY <3>1
  <2> QED
    BY <1>1, <1>3, <2>4 DEF MemoryRight, Held
<1>8. PICK v : v = new_inode(t, n, b)
  OBVIOUS
<1>9. u = new_dir_entry(v, n, name)
  BY <1>2, <1>4, <1>8 DEF create_file
<1>10. /\ v \in TablesKind
       /\ \A r \in ISlot : r # s => v.inode[r] = t.inode[r]
       /\ v.inode[s] = [count |-> 1, num |-> n, mode |-> "regular", size |-> 0, start |-> b]
       /\ v.disk.imap = t.disk.imap \cup {n} /\ v.disk.smap = t.disk.smap \cup Run(b)
       /\ v.disk.dir = t.disk.dir
       /\ v.disk.ino = [t.disk.ino EXCEPT ![n] = OnDisk(v.inode[s])]
  <2>1. t \in TablesKind /\ n \in Num /\ s \in ISlot /\ s = NewSlot(t, n)
    BY <1>1, <1>3, <1>6, <1>7
  <2> QED
    BY <1>5, <1>8, <2>1, NewInodeFields
<1>11. v.inode[s].count = 1 /\ v.inode[s].num = n /\ v.inode[s].mode = "regular" /\ v.inode[s].size = 0
  BY <1>10
<1>12. n # ROOT_INODE
  BY <1>1, <1>3 DEF RootKept
<1>13. v.inode[RootSlot].num = (IF s = RootSlot THEN n ELSE ROOT_INODE)
  BY <1>1, <1>10, <1>11, Params DEF RootKept
<1>14. v.inode[RootSlot].num \in Num
  BY <1>3, <1>13, Params
<1>15. NewPlace(v) <= MaxEntries
  <2>1. CASE s = RootSlot
    <3>1. NrEntries(v) = 0
      BY <1>11, <2>1 DEF NrEntries
    <3> QED
      BY <1>10, <3>1, NewPlaceIsNext, Params
  <2>2. CASE s # RootSlot
    <3>1. NrEntries(v) = NrEntries(t)
      BY <1>10, <2>2, Params DEF NrEntries
    <3>2. NewPlace(v) = NewPlace(t)
      BY <1>10, <3>1 DEF NewPlace
    <3> QED
      BY <3>2
  <2> QED
    BY <2>1, <2>2
<1>16. PICK i : i = NewPlace(v)
  OBVIOUS
<1>17. i \in 1 .. MaxEntries
  BY <1>10, <1>15, <1>16, NewPlaceIsNext, Params
<1>18. n \in 0 .. NR_BITS - 1
  BY <1>3, Params
<1>19. /\ u \in TablesKind
       /\ \A r \in ISlot : r # RootSlot => u.inode[r] = v.inode[r]
       /\ \E z \in 0 .. MaxEntries : u.inode[RootSlot] = [v.inode[RootSlot] EXCEPT !.size = z]
       /\ u.disk.imap = v.disk.imap /\ u.disk.smap = v.disk.smap
       /\ u.disk.dir = [v.disk.dir EXCEPT ![i] = [name |-> name, num |-> n]]
       /\ u.disk.ino = [v.disk.ino EXCEPT ![v.inode[RootSlot].num] = OnDisk(u.inode[RootSlot])]
  <2>1. v \in TablesKind
    BY <1>10
  <2> QED
    BY <1>9, <1>14, <1>15, <1>16, <1>18, <2>1, EntryFields
<1>20. u.inode[RootSlot].num = v.inode[RootSlot].num
  BY <1>10, <1>19, InodeKinds, Params DEF Inode
<1>21. u.inode[s].num = n
  BY <1>7, <1>11, <1>19, <1>20
<1>22. RootTaken(u) <=> s = RootSlot
  BY <1>12, <1>13, <1>20 DEF RootTaken
<1>23. ASSUME s # RootSlot
       PROVE  Sound(u) /\ Held(u, s) /\ Steady(t, u) /\ Grown(t, u, s)
  <2>1. /\ t.disk.ino \in [Num -> DInode] /\ t.disk.dir \in [1 .. MaxEntries -> Entry]
        /\ \A r \in ISlot : t.inode[r] \in Inode
    BY <1>1, InodeKinds
  <2>2. \A m \in Num : v.disk.ino[m] = IF m = n THEN OnDisk(v.inode[s]) ELSE t.disk.ino[m]
    BY <1>10, <2>1
  <2>3. RootKept(v)
    BY <1>1, <1>10, <1>12, <1>13, <1>23, <2>2, Params DEF RootKept
  <2>4. \A r \in ISlot : Held(v, r) /\ r # s =>
           /\ Held(t, r) /\ v.inode[r] = t.inode[r]
           /\ v.inode[r].num \in t.disk.imap /\ v.inode[r].num \in Num /\ v.inode[r].num # n
    BY <1>1, <1>3, <1>10 DEF Held, MemoryRight
  <2>5. MemoryRight(v)
    <3>1. \A r \in ISlot : Held(v, r) =>
             /\ v.inode[r].num \in Num \cap v.disk.imap /\ v.inode[r].mode # "free"
             /\ OnDisk(v.inode[r]) = v.disk.ino[v.inode[r].num]
      <4>1. TAKE r \in ISlot
      <4>2. CASE r = s
        BY <1>3, <1>10, <1>11, <2>2, <4>2
      <4>3. ASSUME r # s, Held(v, r)
            PROVE  /\ v.inode[r].num \in Num \cap v.disk.imap /\ v.inode[r].mode # "free"
                   /\ OnDisk(v.inode[r]) = v.disk.ino[v.inode[r].num]
        BY <1>1, <1>10, <2>2, <2>4, <4>3 DEF MemoryRight
      <4> QED
        BY <4>2, <4>3
    <3>2. \A q, r \in ISlot : Held(v, q) /\ Held(v, r) /\ v.inode[q].num = v.inode[r].num => q = r
      <4>1. TAKE q, r \in ISlot
      <4>2. CASE q # s /\ r # s
        BY <1>1, <2>4, <4>2 DEF MemoryRight
      <4>3. CASE q = s \/ r = s
        BY <1>11, <2>4, <4>3
      <4> QED
        BY <4>2, <4>3
    <3> QED
      BY <3>1, <3>2 DEF MemoryRight
  <2>6. SectorsRight(v.disk)
    <3>1. v.disk.ino[n].start = b
      BY <1>3, <1>10, <2>2 DEF OnDisk
    <3>2. \A m \in Num : m # n => v.disk.ino[m] = t.disk.ino[m]
      BY <2>2
    <3>3. v.disk \in Disk /\ t.disk \in Disk
      BY <1>1, <1>10 DEF TablesKind
    <3> QED
      BY <1>1, <1>3, <1>5, <1>10, <3>1, <3>2, <3>3, MarkedRight
  <2>7. Resized(v, u, RootSlot)
    BY <1>19 DEF Resized
  <2>8. /\ RootKept(u) /\ MemoryRight(u) /\ SectorsRight(u.disk)
        /\ \A r \in ISlot : u.inode[r].count = v.inode[r].count /\ u.inode[r].num = v.inode[r].num
        /\ \A m \in Num : u.disk.ino[m].mode = v.disk.ino[m].mode
    <3>1. v \in TablesKind /\ RootSlot \in ISlot /\ Held(v, RootSlot)
      BY <1>10, Params DEF Held
    <3> QED
      BY <2>3, <2>5, <2>6, <2>7, <3>1, ResizedRight
  <2>9. \A j \in 1 .. MaxEntries :
           u.disk.dir[j].num = IF j = i THEN n ELSE t.disk.dir[j].num
    <3>1. u.disk.dir = [t.disk.dir EXCEPT ![i] = [name |-> name, num |-> n]]
      BY <1>10, <1>19
    <3>2. PICK e : e = [name |-> name, num |-> n]
      OBVIOUS
    <3>3. e.num = n /\ \A j \in 1 .. MaxEntries : u.disk.dir[j] = IF j = i THEN e ELSE t.disk.dir[j]
      BY <1>17, <2>1, <3>1, <3>2
    <3> QED
      BY <3>3
  <2>10. \A j \in 1 .. MaxEntries : t.disk.dir[j].num # 0 =>
            /\ t.disk.dir[j].num \in t.disk.imap /\ t.disk.dir[j].num \in Num /\ t.disk.dir[j].num # n
            /\ u.disk.ino[t.disk.dir[j].num].mode # "free"
    <3>1. TAKE j \in 1 .. MaxEntries
    <3>2. ASSUME t.disk.dir[j].num # 0
          PROVE  /\ t.disk.dir[j].num \in t.disk.imap /\ t.disk.dir[j].num \in Num
                 /\ t.disk.dir[j].num # n /\ u.disk.ino[t.disk.dir[j].num].mode # "free"
      <4>1. t.disk.dir[j].num \in Num
        BY <1>1, <3>2, InodeKinds, Params
      <4>2. t.disk.dir[j].num \in t.disk.imap /\ t.disk.ino[t.disk.dir[j].num].mode # "free"
        BY <1>1, <3>2 DEF EntryRight
      <4> QED
        BY <1>3, <2>2, <2>8, <4>1, <4>2
    <3> QED
      BY <3>2
  <2>11. u.disk.ino[n].mode # "free"
    BY <1>3, <1>11, <2>2, <2>8 DEF OnDisk
  <2>12. \A j \in 1 .. MaxEntries : EntryRight(u.disk, j)
    <3>1. TAKE j \in 1 .. MaxEntries
    <3>2. CASE j = i
      BY <1>10, <1>17, <1>19, <2>9, <2>10, <2>11, <3>2, Params, ZenonT(60) DEF EntryRight
    <3>3. CASE j # i
      <4>1. ASSUME t.disk.dir[j].num # 0
            PROVE  \A k \in 1 .. MaxEntries : u.disk.dir[k].num = t.disk.dir[j].num => k = j
        BY <1>1, <2>9, <2>10, <4>1 DEF EntryRight
      <4> QED
        BY <1>10, <1>19, <2>9, <2>10, <3>3, <4>1 DEF EntryRight
    <3> QED
      BY <3>2, <3>3
  <2>13. Held(u, s)
    BY <1>7, <1>11, <2>8 DEF Held
  <2>14. Steady(t, u)
    <3>1. \A r \in ISlot : Held(t, r) => r # s
      BY <1>1, <1>7, <1>23, InodeKinds DEF Held
    <3> QED
      BY <1>10, <2>8, <3>1 DEF Steady
  <2>15. Grown(t, u, s)
    <3>1. \A r \in ISlot : t.inode[r].count \in Int
      BY <1>1, InodeKinds
    <3> QED
      BY <1>7, <1>10, <1>11, <2>8, <3>1 DEF Grown
  <2> QED
    BY <1>19, <2>8, <2>12, <2>13, <2>14, <2>15 DEF Sound
<1> QED
  BY <1>3, <1>7, <1>19, <1>21, <1>22, <1>23

(* A file's marks taken away: nobody else's were.                          *)
LEMMA UnmarkedRight ==
    ASSUME NEW d \in Disk, NEW e \in Disk, SectorsRight(d), NEW n \in FilesOf(d),
           e.smap = d.smap \ Cleared(d.ino[n].start), \A m \in Num : m # n => e.ino[m] = d.ino[m],
           e.ino[n].mode = "free"
    PROVE  SectorsRight(e)
<1>1. PICK b : b = d.ino[n].start
  OBVIOUS
<1>2. b \in LowBlocks \/ High(b)
  BY <1>1 DEF SectorsRight
<1>3. b \in Nat /\ 0 \notin Run(b)
  <2>1. b \in LowBlocks => b \in Nat /\ b >= 1
    BY BlocksApart DEF LowBlocks
  <2>2. b \in Nat /\ b >= 1
    BY <1>2, <2>1 DEF High
  <2> QED
    BY <2>2, Params DEF Run
<1>4. b \in Cleared(b) /\ Cleared(b) \subseteq Run(b)
  BY <1>3, ClearedInRun
<1>5. e.smap = d.smap \ Cleared(b)
  BY <1>1
<1>6. ASSUME NEW c \in LowBlocks, c # b
      PROVE  c \in Run(c) /\ Run(c) \cap Cleared(b) = {}
  <2>1. c \in Blocks /\ c \in Run(c)
    BY BlocksApart DEF LowBlocks
  <2>2. Run(b) \cap Run(c) = {}
    <3>1. CASE b \in LowBlocks
      <4>1. b \in Blocks
        BY <3>1 DEF LowBlocks
      <4> QED
        BY <1>6, <2>1, <4>1, BlocksApart
    <3>2. CASE High(b)
      BY <3>2, HighApart
    <3> QED
      BY <1>2, <3>1, <3>2
  <2> QED
    BY <1>4, <2>1, <2>2
<1>7. 0 \in e.smap
  BY <1>3, <1>4, <1>5 DEF SectorsRight
<1>8. \A c \in LowBlocks : c \in e.smap => Run(c) \subseteq e.smap
  <2>1. TAKE c \in LowBlocks
  <2>2. ASSUME c \in e.smap PROVE Run(c) \subseteq e.smap
    <3>1. c # b /\ c \in d.smap
      BY <1>4, <1>5, <2>2
    <3>2. Run(c) \subseteq d.smap
      BY <3>1 DEF SectorsRight
    <3> QED
      BY <1>5, <1>6, <3>1, <3>2
  <2> QED
    BY <2>2
<1>9. \A m \in FilesOf(e) : m \in FilesOf(d) /\ m # n /\ e.ino[m] = d.ino[m]
  BY DEF FilesOf
<1>10. \A m \in FilesOf(e) : d.ino[m].start \in LowBlocks => d.ino[m].start # b
  BY <1>1, <1>9 DEF SectorsRight
<1>11. \A m \in FilesOf(e) : e.ino[m].start \in LowBlocks \cap e.smap \/ High(e.ino[m].start)
  <2>1. TAKE m \in FilesOf(e)
  <2>2. PICK c : c = d.ino[m].start
    OBVIOUS
  <2>3. (c \in LowBlocks /\ c \in d.smap) \/ High(c)
    BY <1>9, <2>2 DEF SectorsRight
  <2>4. c \in LowBlocks => c # b
    BY <1>10, <2>2
  <2>5. c \in LowBlocks /\ c \in d.smap => c \in e.smap
    BY <1>5, <1>6, <2>4
  <2>6. e.ino[m].start = c
    BY <1>9, <2>2
  <2> QED
    BY <2>3, <2>5, <2>6
<1>12. \A l, m \in FilesOf(e) :
          e.ino[l].start \in LowBlocks /\ e.ino[l].start = e.ino[m].start => l = m
  BY <1>9 DEF SectorsRight
<1> QED
  BY <1>7, <1>8, <1>11, <1>12 DEF SectorsRight

(* What do_unlink leaves before it comes to the directory: only the entry  *)
(* of the file is wrong then.  The file was in nobody's hands.             *)
LEMMA FreedRight ==
    ASSUME NEW t, Sound(t), NEW name, NEW n, n = Lookup(t, name),
           NEW s, s = InodeSlot(t, n), s # NIL, NEW g, g = get_inode(t, n), MayUnlink(g, s),
           NEW u, u = Freed(g, n, s)
    PROVE  /\ u \in TablesKind /\ u.inode[RootSlot].num \in Num /\ u.disk.dir = t.disk.dir
           /\ g \in TablesKind /\ g.disk = t.disk
           /\ u.inode[RootSlot].num = ROOT_INODE =>
                 /\ RootKept(u) /\ MemoryRight(u) /\ SectorsRight(u.disk)
                 /\ \A r \in ISlot : t.inode[r].count > 0 \/ r = RootSlot => u.inode[r] = t.inode[r]
                 /\ \A i \in 1 .. MaxEntries : t.disk.dir[i].num \notin {0, n} =>
                       /\ t.disk.dir[i].num \in u.disk.imap
                       /\ u.disk.ino[t.disk.dir[i].num].mode # "free"
<1>1. t \in TablesKind
  BY DEF Sound
<1>2. RootKept(t) /\ MemoryRight(t) /\ SectorsRight(t.disk) /\ \A i \in 1 .. MaxEntries : EntryRight(t.disk, i)
  BY DEF Sound
<1>3. n \in 0 .. NR_BITS - 1 /\ (n # 0 => n \in Num \cap t.disk.imap /\ t.disk.ino[n].mode # "free")
  BY LookupRight
<1>4. /\ g \in TablesKind /\ g.disk = t.disk /\ s \in ISlot /\ n \in Num
      /\ \A r \in ISlot : r # s => g.inode[r] = t.inode[r]
      /\ g.inode[s].num = n
      /\ \/ /\ t.inode[s].count > 0 /\ t.inode[s].num = n
            /\ g.inode[s] = [t.inode[s] EXCEPT !.count = t.inode[s].count + 1]
         \/ /\ t.inode[s].count <= 0
            /\ \A r \in ISlot : t.inode[r].count > 0 => t.inode[r].num # n
            /\ g.inode[s] = Loaded(t, n)
            /\ t.inode[RootSlot].count <= 0 => s = RootSlot
  BY <1>1, <1>3, GetFields
<1>5. n \in Num \cap t.disk.imap /\ t.disk.ino[n].mode # "free"
  BY <1>3, <1>4, Params
<1>6. g \in TablesKind /\ s \in ISlot /\ n \in Num /\ g.inode[s].num = n
  BY <1>4
<1>7. /\ u \in TablesKind
      /\ \A r \in ISlot : r # s => u.inode[r] = g.inode[r]
      /\ s = RootSlot => u.inode[s].num = n
      /\ s # RootSlot /\ g.inode[s].count = 1 => u.inode[s] = Unused
      /\ u.disk.imap = g.disk.imap \ {n}
      /\ u.disk.smap = g.disk.smap \ Cleared(g.inode[s].start)
      /\ u.disk.dir = g.disk.dir /\ u.disk.ino = [g.disk.ino EXCEPT ![n] = NoInode]
  BY <1>6, FreedFields, SMTT(40)
<1>8. /\ u.disk.imap = t.disk.imap \ {n} /\ u.disk.dir = t.disk.dir
      /\ u.disk.smap = t.disk.smap \ Cleared(g.inode[s].start)
      /\ u.disk.ino = [t.disk.ino EXCEPT ![n] = NoInode]
  BY <1>4, <1>7
<1>9. u.inode[RootSlot].num = (IF s = RootSlot THEN n ELSE ROOT_INODE)
  BY <1>2, <1>4, <1>7, Params DEF RootKept
<1>10. \A r \in ISlot : t.inode[r].count \in Int
  BY <1>1, InodeKinds
<1>11. t.inode[s].count <= 0 /\ g.inode[s] = Loaded(t, n)
  <2>1. g.inode[s].count <= 1
    BY DEF MayUnlink
  <2>2. ~ (/\ t.inode[s].count > 0
           /\ g.inode[s] = [t.inode[s] EXCEPT !.count = t.inode[s].count + 1])
    <3>1. t.inode[s] \in Inode /\ t.inode[s].count \in Int
      BY <1>1, <1>4, InodeKinds
    <3>2. g.inode[s] = [t.inode[s] EXCEPT !.count = t.inode[s].count + 1]
             => g.inode[s].count = t.inode[s].count + 1
      BY <3>1 DEF Inode
    <3> QED
      BY <2>1, <3>1, <3>2
  <2> QED
    BY <1>4, <2>2
<1>12. ASSUME u.inode[RootSlot].num = ROOT_INODE
       PROVE  /\ RootKept(u) /\ MemoryRight(u) /\ SectorsRight(u.disk)
              /\ \A r \in ISlot : t.inode[r].count > 0 \/ r = RootSlot => u.inode[r] = t.inode[r]
              /\ \A i \in 1 .. MaxEntries : t.disk.dir[i].num \notin {0, n} =>
                    /\ t.disk.dir[i].num \in u.disk.imap
                    /\ u.disk.ino[t.disk.dir[i].num].mode # "free"
  <2>1. g.inode[s].count = 1 /\ g.inode[s].mode = "regular"
        /\ g.inode[s].mode = t.disk.ino[n].mode /\ g.inode[s].start = t.disk.ino[n].start
    BY <1>11 DEF Loaded, MayUnlink
  <2>2. n # ROOT_INODE
    BY <1>2, <2>1 DEF RootKept
  <2>3. s # RootSlot
    BY <1>9, <1>12, <2>2
  <2>4. u.inode[s] = Unused /\ ~ Held(u, s)
    BY <1>7, <2>1, <2>3 DEF Unused, Held
  <2>5. \A r \in ISlot : r # s => u.inode[r] = t.inode[r]
    BY <1>4, <1>7
  <2>6. \A r \in ISlot : Held(t, r) => r # s /\ t.inode[r].num # n
    <3>1. TAKE r \in ISlot
    <3>2. CASE r = RootSlot
      BY <1>2, <2>2, <2>3, <3>2 DEF RootKept
    <3>3. ASSUME Held(t, r), r # RootSlot PROVE r # s /\ t.inode[r].num # n
      <4>1. t.inode[r].count > 0
        BY <3>3 DEF Held
      <4>2. r # s
        BY <1>10, <1>11, <4>1
      <4>3. \A q \in ISlot : t.inode[q].count > 0 => t.inode[q].num # n
        BY <1>4, <1>10, <1>11
      <4> QED
        BY <4>1, <4>2, <4>3
    <3> QED
      BY <3>2, <3>3
  <2>7. \A r \in ISlot : Held(u, r) => Held(t, r) /\ u.inode[r] = t.inode[r]
    BY <2>4, <2>5 DEF Held
  <2>8. t.disk.ino \in [Num -> DInode]
    BY <1>1, InodeKinds
  <2>9. \A m \in Num : u.disk.ino[m] = IF m = n THEN NoInode ELSE t.disk.ino[m]
    BY <1>8, <2>8
  <2>10. RootKept(u)
    BY <1>2, <1>8, <1>12, <2>2, <2>9, Params DEF RootKept
  <2>11. MemoryRight(u)
    <3>1. \A r \in ISlot : Held(u, r) =>
             /\ u.inode[r].num \in Num \cap u.disk.imap /\ u.inode[r].mode # "free"
             /\ OnDisk(u.inode[r]) = u.disk.ino[u.inode[r].num]
      BY <1>2, <1>8, <2>6, <2>7, <2>9 DEF MemoryRight
    <3>2. \A q, r \in ISlot : Held(u, q) /\ Held(u, r) /\ u.inode[q].num = u.inode[r].num => q = r
      BY <1>2, <2>7 DEF MemoryRight
    <3> QED
      BY <3>1, <3>2 DEF MemoryRight
  <2>12. SectorsRight(u.disk)
    <3>1. t.disk \in Disk /\ u.disk \in Disk
      BY <1>1, <1>7 DEF TablesKind
    <3>2. n \in FilesOf(t.disk)
      BY <1>5, <2>1 DEF FilesOf
    <3>3. u.disk.ino[n].mode = "free"
      BY <1>5, <2>9 DEF NoInode
    <3>4. u.disk.smap = t.disk.smap \ Cleared(t.disk.ino[n].start)
      BY <1>8, <2>1
    <3>5. \A m \in Num : m # n => u.disk.ino[m] = t.disk.ino[m]
      BY <2>9
    <3> QED
      BY <1>2, <3>1, <3>2, <3>3, <3>4, <3>5, UnmarkedRight
  <2>13. \A r \in ISlot : t.inode[r].count > 0 \/ r = RootSlot => u.inode[r] = t.inode[r]
    BY <2>5, <2>6 DEF Held
  <2>14. \A i \in 1 .. MaxEntries : t.disk.dir[i].num \notin {0, n} =>
            /\ t.disk.dir[i].num \in u.disk.imap
            /\ u.disk.ino[t.disk.dir[i].num].mode # "free"
    <3>1. TAKE i \in 1 .. MaxEntries
    <3>2. PICK m : m = t.disk.dir[i].num
      OBVIOUS
    <3>3. ASSUME m # 0, m # n PROVE m \in u.disk.imap /\ u.disk.ino[m].mode # "free"
      <4>1. m \in Num
        BY <1>1, <3>2, <3>3, InodeKinds, Params
      <4>2. m \in t.disk.imap /\ t.disk.ino[m].mode # "free"
        BY <1>2, <3>2, <3>3 DEF EntryRight
      <4> QED
        BY <1>8, <2>9, <3>3, <4>1, <4>2
    <3> QED
      BY <3>2, <3>3
  <2> QED
    BY <2>10, <2>11, <2>12, <2>13, <2>14
<1>13. u.inode[RootSlot].num \in Num
  BY <1>4, <1>9, Params
<1> QED
  BY <1>4, <1>7, <1>8, <1>12, <1>13

(* With its entry removed the file is gone without a trace.                *)
LEMMA RemovedSound ==
    ASSUME NEW t, Sound(t), NEW name, NEW n, n = Lookup(t, name),
           NEW s, s = InodeSlot(t, n), s # NIL, NEW g, g = get_inode(t, n), MayUnlink(g, s),
           NEW f, f = Freed(g, n, s),
           NEW i \in 1 .. MaxEntries, t.disk.dir[i].num = n, NEW u, u = Removed(f, i)
    PROVE  /\ u \in TablesKind
           /\ ~ RootTaken(u) => Sound(u) /\ Steady(t, u) /\ Grown(t, u, NIL)
<1>1. /\ f \in TablesKind /\ f.inode[RootSlot].num \in Num /\ f.disk.dir = t.disk.dir
      /\ f.inode[RootSlot].num = ROOT_INODE =>
            /\ RootKept(f) /\ MemoryRight(f) /\ SectorsRight(f.disk)
            /\ \A r \in ISlot : t.inode[r].count > 0 \/ r = RootSlot => f.inode[r] = t.inode[r]
            /\ \A j \in 1 .. MaxEntries : t.disk.dir[j].num \notin {0, n} =>
                  /\ t.disk.dir[j].num \in f.disk.imap
                  /\ f.disk.ino[t.disk.dir[j].num].mode # "free"
  BY FreedRight
<1>2. t \in TablesKind /\ \A j \in 1 .. MaxEntries : EntryRight(t.disk, j)
  BY DEF Sound
<1>3. /\ u \in TablesKind
      /\ \A r \in ISlot : r # RootSlot => u.inode[r] = f.inode[r]
      /\ u.disk.imap = f.disk.imap /\ u.disk.smap = f.disk.smap
      /\ u.disk.dir = [f.disk.dir EXCEPT ![i] = NoEntry]
      /\ \/ u.inode = f.inode /\ u.disk.ino = f.disk.ino
         \/ /\ \E z \in 0 .. MaxEntries : u.inode[RootSlot] = [f.inode[RootSlot] EXCEPT !.size = z]
            /\ u.disk.ino = [f.disk.ino EXCEPT ![f.inode[RootSlot].num] = OnDisk(u.inode[RootSlot])]
  <2>1. f \in TablesKind
    BY <1>1
  <2>2. f.inode[RootSlot].num \in Num
    BY <1>1
  <2>3. u = Removed(f, i) /\ i \in 1 .. MaxEntries
    OBVIOUS
  <2> QED
    BY ONLY <2>1, <2>2, <2>3, RemovedFields
<1>4. u.inode[RootSlot].num = f.inode[RootSlot].num
  <2>1. f.inode[RootSlot] \in Inode
    BY <1>1, InodeKinds, Params
  <2>2. \A z : [f.inode[RootSlot] EXCEPT !.size = z].num = f.inode[RootSlot].num
    BY <2>1 DEF Inode
  <2>3. CASE u.inode = f.inode
    BY <2>3
  <2>4. CASE u.inode # f.inode
    <3>1. PICK z \in 0 .. MaxEntries : u.inode[RootSlot] = [f.inode[RootSlot] EXCEPT !.size = z]
      BY <1>3, <2>4
    <3> QED
      BY <2>2, <3>1
  <2> QED
    BY <2>3, <2>4
<1>5. ASSUME ~ RootTaken(u) PROVE Sound(u) /\ Steady(t, u) /\ Grown(t, u, NIL)
  <2>1. f.inode[RootSlot].num = ROOT_INODE
    BY <1>4, <1>5 DEF RootTaken
  <2>2. RootKept(f) /\ MemoryRight(f) /\ SectorsRight(f.disk)
    BY <1>1, <2>1
  <2>3. \A r \in ISlot : t.inode[r].count > 0 \/ r = RootSlot => f.inode[r] = t.inode[r]
    BY <1>1, <2>1
  <2>4. /\ RootKept(u) /\ MemoryRight(u) /\ SectorsRight(u.disk)
        /\ \A r \in ISlot : u.inode[r].count = f.inode[r].count /\ u.inode[r].num = f.inode[r].num
        /\ \A m \in Num : u.disk.ino[m].mode = f.disk.ino[m].mode
    <3>1. CASE u.inode = f.inode /\ u.disk.ino = f.disk.ino
      <4>1. RootKept(u)
        BY <1>3, <2>2, <3>1 DEF RootKept
      <4>2. MemoryRight(u)
        BY <1>3, <2>2, <3>1 DEF MemoryRight, Held
      <4>3. SectorsRight(u.disk)
        BY <1>3, <2>2, <3>1 DEF SectorsRight, FilesOf
      <4> QED
        BY <3>1, <4>1, <4>2, <4>3
    <3>2. CASE ~ (u.inode = f.inode /\ u.disk.ino = f.disk.ino)
      <4>1. Resized(f, u, RootSlot)
        BY <1>3, <3>2 DEF Resized
      <4>2. f \in TablesKind /\ RootSlot \in ISlot /\ Held(f, RootSlot)
        BY <1>1, Params DEF Held
      <4> QED
        BY <2>2, <4>1, <4>2, ResizedRight
    <3> QED
      BY <3>1, <3>2
  <2>5. t.disk.dir \in [1 .. MaxEntries -> Entry]
    BY <1>2, InodeKinds
  <2>6. \A j \in 1 .. MaxEntries : u.disk.dir[j].num = IF j = i THEN 0 ELSE t.disk.dir[j].num
    <3>1. u.disk.dir = [t.disk.dir EXCEPT ![i] = NoEntry]
      BY <1>1, <1>3
    <3>2. NoEntry.num = 0 /\ \A j \in 1 .. MaxEntries : u.disk.dir[j] = IF j = i THEN NoEntry ELSE t.disk.dir[j]
      BY <2>5, <3>1 DEF NoEntry
    <3> QED
      BY <3>2
  <2>7. \A j \in 1 .. MaxEntries : EntryRight(u.disk, j)
    <3>1. TAKE j \in 1 .. MaxEntries
    <3>2. PICK m : m = u.disk.dir[j].num
      OBVIOUS
    <3>3. ASSUME m # 0
          PROVE  /\ m \in u.disk.imap /\ u.disk.ino[m].mode # "free"
                 /\ \A k \in 1 .. MaxEntries : u.disk.dir[k].num = m => k = j
      <4>1. j # i /\ m = t.disk.dir[j].num
        BY <2>6, <3>2, <3>3
      <4>2. \A k \in 1 .. MaxEntries : t.disk.dir[k].num = m => k = j
        BY <1>2, <3>3, <4>1 DEF EntryRight
      <4>3. m # n
        BY <4>1, <4>2
      <4>4. m \in f.disk.imap /\ f.disk.ino[m].mode # "free"
        BY <1>1, <2>1, <3>3, <4>1, <4>3
      <4>5. m \in Num
        BY <1>2, <3>3, <4>1, InodeKinds, Params
      <4>6. \A k \in 1 .. MaxEntries : u.disk.dir[k].num = m => k = j
        BY <2>6, <3>3, <4>2
      <4> QED
        BY <1>3, <2>4, <4>4, <4>5, <4>6
    <3> QED
      BY <3>2, <3>3 DEF EntryRight
  <2>8. Sound(u)
    BY <1>3, <2>4, <2>7 DEF Sound
  <2>9. Steady(t, u)
    BY <2>3, <2>4 DEF Steady, Held
  <2>10. Grown(t, u, NIL)
    <3>1. \A r \in ISlot : t.inode[r].count \in Int
      BY <1>2, InodeKinds
    <3> QED
      BY <2>3, <2>4, <3>1, Params DEF Grown
  <2> QED
    BY <2>8, <2>9, <2>10
<1> QED
  BY <1>3, <1>5

-----------------------------------------------------------------------------
(* Descriptors and counts                                                  *)

(* Processes have finitely many descriptors together.                      *)
LEMMA HoldersFinite ==
    /\ IsFiniteSet(Proc \X Fd)
    /\ \A S \in SUBSET (Proc \X Fd) : IsFiniteSet(S) /\ Cardinality(S) \in Nat
<1>1. IsFiniteSet(Proc)
  BY TablesAssumption, FS_AddElement DEF Proc
<1>2. IsFiniteSet(Fd)
  <2>1. 0 \in Int /\ OPEN_MAX - 1 \in Int
    BY Params
  <2> QED
    BY <2>1, FS_Interval DEF Fd
<1>3. IsFiniteSet(Proc \X Fd)
  BY <1>1, <1>2, FS_Product
<1>4. \A S \in SUBSET (Proc \X Fd) : IsFiniteSet(S)
  BY <1>3, FS_Subset
<1> QED
  BY <1>3, <1>4, FS_CardinalityType

(* A part has no more members than the whole.                              *)
LEMMA HoldersFewer ==
    ASSUME NEW S \in SUBSET (Proc \X Fd), NEW T \in SUBSET S
    PROVE  Cardinality(T) \in Nat /\ Cardinality(S) \in Nat /\ Cardinality(T) <= Cardinality(S)
<1>1. IsFiniteSet(S) /\ Cardinality(S) \in Nat
  BY HoldersFinite
<1>2. IsFiniteSet(T) /\ Cardinality(T) <= Cardinality(S)
  BY <1>1, FS_Subset
<1> QED
  BY <1>1, <1>2, FS_CardinalityType

(* With one descriptor more there is at most one more.                     *)
LEMMA HoldersOneMore ==
    ASSUME NEW S \in SUBSET (Proc \X Fd), NEW d \in Proc \X Fd, NEW T \in SUBSET (S \cup {d})
    PROVE  /\ Cardinality(T) \in Nat /\ Cardinality(S) \in Nat
           /\ Cardinality(T) <= Cardinality(S) + 1
<1>1. IsFiniteSet(S) /\ Cardinality(S) \in Nat
  BY HoldersFinite
<1>2. IsFiniteSet(S \cup {d}) /\ Cardinality(S \cup {d}) <= Cardinality(S) + 1
  <2>1. /\ IsFiniteSet(S \cup {d})
        /\ Cardinality(S \cup {d}) = IF d \in S THEN Cardinality(S) ELSE Cardinality(S) + 1
    BY <1>1, FS_AddElement
  <2> QED
    BY <1>1, <2>1
<1>3. IsFiniteSet(T) /\ Cardinality(T) <= Cardinality(S \cup {d})
  BY <1>2, FS_Subset
<1>4. Cardinality(T) \in Nat /\ Cardinality(S \cup {d}) \in Nat
  BY <1>2, <1>3, FS_CardinalityType
<1> QED
  BY <1>1, <1>2, <1>3, <1>4

(* Without one that was among them there is one less.                      *)
LEMMA HoldersOneLess ==
    ASSUME NEW S \in SUBSET (Proc \X Fd), NEW d \in S, NEW T \in SUBSET (S \ {d})
    PROVE  /\ Cardinality(T) \in Nat /\ Cardinality(S) \in Nat
           /\ Cardinality(T) <= Cardinality(S) - 1
<1>1. IsFiniteSet(S) /\ Cardinality(S) \in Nat
  BY HoldersFinite
<1>2. IsFiniteSet(S \ {d}) /\ Cardinality(S \ {d}) = Cardinality(S) - 1
  BY <1>1, FS_RemoveElement
<1>3. IsFiniteSet(T) /\ Cardinality(T) <= Cardinality(S \ {d})
  BY <1>2, FS_Subset
<1>4. Cardinality(T) \in Nat /\ Cardinality(S \ {d}) \in Nat
  BY <1>2, <1>3, FS_CardinalityType
<1> QED
  BY <1>1, <1>2, <1>3, <1>4

(* A count that is not positive is of something that nobody holds.         *)
LEMMA NobodyHolds ==
    ASSUME Kinds, Counted
    PROVE  /\ \A f \in Slot : FileHolders(f) # {} => file[f].count > 0 /\ file[f].inode \in ISlot
           /\ \A s \in ISlot : InodeHolders(s) # {} => Held(Tables, s)
           /\ \A f \in Slot : FileHolders(f) \in SUBSET (Proc \X Fd)
           /\ \A s \in ISlot : InodeHolders(s) \in SUBSET (Proc \X Fd)
<1>1. \A f : FileHolders(f) \in SUBSET (Proc \X Fd)
  BY DEF FileHolders
<1>2. \A s : InodeHolders(s) \in SUBSET (Proc \X Fd)
  BY DEF InodeHolders
<1>3. \A f \in Slot : FileHolders(f) # {} => file[f].count > 0 /\ file[f].inode \in ISlot
  <2>1. TAKE f \in Slot
  <2>2. ASSUME FileHolders(f) # {} PROVE file[f].count > 0 /\ file[f].inode \in ISlot
    <3>1. IsFiniteSet(FileHolders(f)) /\ Cardinality(FileHolders(f)) \in Nat
      BY <1>1, HoldersFinite
    <3>2. Cardinality(FileHolders(f)) # 0
      BY <2>2, <3>1, FS_EmptySet
    <3>3. file[f].count >= Cardinality(FileHolders(f)) /\ (file[f].count > 0 => file[f].inode # NIL)
      BY DEF Counted
    <3>4. file[f].count \in Nat /\ file[f].inode \in ISlot \cup {NIL}
      BY DEF Kinds
    <3> QED
      BY <3>1, <3>2, <3>3, <3>4
  <2> QED
    BY <2>2
<1>4. \A s \in ISlot : InodeHolders(s) # {} => Held(Tables, s)
  <2>1. TAKE s \in ISlot
  <2>2. ASSUME InodeHolders(s) # {}, s # RootSlot PROVE inode[s].count > 0
    <3>1. IsFiniteSet(InodeHolders(s)) /\ Cardinality(InodeHolders(s)) \in Nat
      BY <1>2, HoldersFinite
    <3>2. Cardinality(InodeHolders(s)) # 0
      BY <2>2, <3>1, FS_EmptySet
    <3>3. inode[s].count >= Cardinality(InodeHolders(s))
      BY <2>2 DEF Counted
    <3>4. inode[s].count \in Int
      BY InodeKinds DEF Kinds, Tables
    <3> QED
      BY <3>1, <3>2, <3>3, <3>4
  <2> QED
    BY <2>2 DEF Held, Tables
<1> QED
  BY <1>1, <1>2, <1>3, <1>4

-----------------------------------------------------------------------------
(* What a step does to the whole state                                     *)

(* Nobody's descriptor changes its file in the step.                       *)
FilesSteady ==
    halted' = "no" =>
        /\ \A r \in ISlot : Held(Tables, r) /\ Held(Tables, r)' => inode'[r].num = inode[r].num
        /\ \A f \in Slot : file[f].count > 0 /\ file'[f].count > 0 => file'[f].inode = file[f].inode

(* What a handler hands to Commit.                                         *)
Handed(u, s) ==
    /\ u \in TablesKind
    /\ ~ RootTaken(u) => Sound(u) /\ Steady(Tables, u) /\ Grown(Tables, u, s)

(* What is committed is what there is afterwards.                          *)
LEMMA Committed ==
    ASSUME NEW u \in TablesKind, NEW how \in {"no", "panic"}, Commit(u, how)
    PROVE  /\ Tables' = u /\ inode' = u.inode /\ disk' = u.disk
           /\ halted' \in {"no", "panic", "root lost"}
           /\ halted' = "no" => ~ RootTaken(u) /\ how = "no"
           /\ \A s \in ISlot : inode'[s].count \in 0 .. MaxCount
<1>1. inode' = u.inode /\ disk' = u.disk /\ halted' = IF RootTaken(u) THEN "root lost" ELSE how
  BY DEF Commit
<1>2. u = [inode |-> u.inode, disk |-> u.disk]
  BY DEF TablesKind
<1>3. Tables' = u
  BY <1>1, <1>2 DEF Tables
<1> QED
  BY <1>1, <1>3 DEF Commit

(* The counts of inodes are numbers.                                       *)
LEMMA CountKinds ==
    ASSUME Kinds
    PROVE  \A s \in ISlot : inode[s].count \in Int /\ inode[s].num \in 0 .. NR_BITS - 1
BY InodeKinds DEF Kinds, Tables

(* A request that opens nothing.                                           *)
LEMMA QuietStep ==
    ASSUME IInv, halted = "no", NEW u \in TablesKind, NEW how \in {"no", "panic"}, how = "no" => Handed(u, NIL),
           Commit(u, how), Unopened
    PROVE  IInv' /\ FilesSteady
<1>1. Kinds /\ Sound(Tables) /\ Counted
  BY DEF IInv
<1>2. UNCHANGED <<open_file, file, alive>>
  BY DEF Unopened
<1>3. /\ Tables' = u /\ inode' = u.inode /\ disk' = u.disk
      /\ halted' \in {"no", "panic", "root lost"}
      /\ halted' = "no" => ~ RootTaken(u) /\ how = "no"
      /\ \A s \in ISlot : inode'[s].count \in 0 .. MaxCount
  BY Committed
<1>4. Kinds'
  BY <1>1, <1>2, <1>3 DEF Kinds
<1>5. ASSUME halted' = "no" PROVE Sound(Tables)' /\ Counted' /\ FilesSteady
  <2>1. Sound(u) /\ Steady(Tables, u) /\ Grown(Tables, u, NIL)
    BY <1>3, <1>5 DEF Handed
  <2>2. Sound(Tables)'
    BY <1>3, <2>1
  <2>3. /\ \A f \in Slot : FileHolders(f)' = FileHolders(f)
        /\ \A s \in ISlot : InodeHolders(s)' = InodeHolders(s)
    BY <1>2 DEF FileHolders, InodeHolders
  <2>4. ASSUME NEW s \in ISlot \ {RootSlot} PROVE inode'[s].count >= Cardinality(InodeHolders(s))
    <3>1. Cardinality(InodeHolders(s)) \in Nat /\ inode[s].count >= Cardinality(InodeHolders(s))
      BY <1>1, HoldersFinite, NobodyHolds DEF Counted
    <3>2. inode[s].count \in Int /\ inode'[s].count \in Nat
      <4>1. inode[s].count \in Int
        BY <1>1, CountKinds
      <4>2. inode'[s].count \in 0 .. MaxCount
        BY <1>3
      <4> QED
        BY <4>1, <4>2, Params
    <3>3. inode[s].count > 0 => inode'[s].count >= inode[s].count
      BY <1>3, <2>1 DEF Grown, Tables
    <3> QED
      BY <3>1, <3>2, <3>3
  <2>5. Counted'
    BY <1>1, <1>2, <2>3, <2>4 DEF Counted
  <2>6. FilesSteady
    <3>1. \A r \in ISlot : Held(Tables, r)' <=> Held(u, r)
      BY <1>3 DEF Held, Tables
    <3> QED
      BY <1>2, <1>3, <2>1, <3>1 DEF FilesSteady, Steady, Tables
  <2> QED
    BY <2>2, <2>5, <2>6
<1>6. halted' # "no" => FilesSteady
  BY DEF FilesSteady
<1> QED
  BY <1>4, <1>5, <1>6 DEF IInv

(* A request that opens the inode in slot s: a descriptor and an open file *)
(* that nobody had lead to it now.                                         *)
LEMMA OpenStep ==
    ASSUME IInv, halted = "no", NEW p \in User, CanOpen(p), NEW s \in ISlot,
           NEW u \in TablesKind, Handed(u, s), Commit(u, "no"), Connect(p, s)
    PROVE  IInv' /\ FilesSteady
<1>1. Kinds /\ Sound(Tables) /\ Counted
  BY DEF IInv
<1>2. PICK fd : fd = Min(FreeFds(p))
  OBVIOUS
<1>3. fd \in Fd /\ open_file[p][fd] = NIL
  <2>1. FreeFds(p) \in SUBSET Nat /\ FreeFds(p) # {}
    BY Params DEF FreeFds, CanOpen
  <2>2. fd \in FreeFds(p)
    BY <1>2, <2>1, MinIsLeast
  <2> QED
    BY <2>2 DEF FreeFds
<1>4. PICK f : f = Min(FreeFiles)
  OBVIOUS
<1>5. f \in Slot /\ file[f].count = 0
  <2>1. FreeFiles \in SUBSET Nat /\ FreeFiles # {}
    BY Params DEF FreeFiles, CanOpen
  <2>2. f \in FreeFiles
    BY <1>4, <2>1, MinIsLeast
  <2> QED
    BY <2>2 DEF FreeFiles
<1>6. /\ open_file' = [open_file EXCEPT ![p][fd] = f]
      /\ file' = [file EXCEPT ![f] = [count |-> 1, inode |-> s]]
      /\ alive' = alive
  BY <1>2, <1>4 DEF Connect
<1>7. /\ Tables' = u /\ inode' = u.inode /\ disk' = u.disk
      /\ halted' \in {"no", "panic", "root lost"}
      /\ halted' = "no" => ~ RootTaken(u)
      /\ \A r \in ISlot : inode'[r].count \in 0 .. MaxCount
  BY Committed
<1>8. p \in Proc /\ f # NIL /\ s # NIL
  BY <1>5, Params
<1>9. /\ open_file \in [Proc -> [Fd -> Slot \cup {NIL}]]
      /\ file \in [Slot -> [count : Nat, inode : ISlot \cup {NIL}]]
  BY <1>1 DEF Kinds
<1>10. /\ \A q \in Proc, k \in Fd :
             open_file'[q][k] = IF q = p /\ k = fd THEN f ELSE open_file[q][k]
       /\ open_file' \in [Proc -> [Fd -> Slot \cup {NIL}]]
  BY <1>3, <1>5, <1>6, <1>8, <1>9
<1>11. /\ \A g \in Slot : g # f => file'[g] = file[g]
       /\ file'[f].count = 1 /\ file'[f].inode = s
       /\ file' \in [Slot -> [count : Nat, inode : ISlot \cup {NIL}]]
  BY <1>5, <1>6, <1>9
<1>12. Kinds'
  BY <1>1, <1>6, <1>7, <1>10, <1>11 DEF Kinds
<1> DEFINE d == <<p, fd>>
<1>13. d \in Proc \X Fd /\ d[1] = p /\ d[2] = fd
  BY <1>3, <1>8
<1>14. FileHolders(f) = {}
  BY <1>1, <1>5, NobodyHolds
<1>15. \A e \in Proc \X Fd : e # d => open_file'[e[1]][e[2]] = open_file[e[1]][e[2]]
  BY <1>10
<1>16. open_file[d[1]][d[2]] = NIL /\ open_file'[d[1]][d[2]] = f
  BY <1>3, <1>8, <1>10
<1> HIDE DEF d
<1>17. \A g \in Slot : g # f => FileHolders(g)' \subseteq FileHolders(g)
  BY <1>15, <1>16 DEF FileHolders
<1>18. FileHolders(f)' \subseteq {} \cup {d}
  BY <1>14, <1>15 DEF FileHolders
<1>19. \A r \in ISlot : /\ r # s => InodeHolders(r)' \subseteq InodeHolders(r)
                        /\ InodeHolders(r)' \subseteq InodeHolders(r) \cup {d}
  <2>1. TAKE r \in ISlot
  <2>2. ASSUME NEW e \in Proc \X Fd, e \in InodeHolders(r)', e # d PROVE e \in InodeHolders(r)
    <3>1. PICK g : g = open_file[e[1]][e[2]]
      OBVIOUS
    <3>2. g # NIL /\ file'[g].inode = r /\ g \in Slot
      BY <1>9, <1>15, <2>2, <3>1 DEF InodeHolders
    <3>3. g # f
      BY <1>14, <3>1, <2>2 DEF FileHolders
    <3> QED
      BY <1>11, <2>2, <3>1, <3>2, <3>3 DEF InodeHolders
  <2>3. d \in InodeHolders(r)' => r = s
    BY <1>11, <1>16 DEF InodeHolders
  <2>4. InodeHolders(r)' \subseteq Proc \X Fd
    BY DEF InodeHolders
  <2> QED
    BY <2>2, <2>3, <2>4
<1>20. ASSUME halted' = "no" PROVE Sound(Tables)' /\ Counted' /\ FilesSteady
  <2>1. Sound(u) /\ Steady(Tables, u) /\ Grown(Tables, u, s)
    BY <1>7, <1>20 DEF Handed
  <2>2. Sound(Tables)'
    BY <1>7, <2>1
  <2>3. ASSUME NEW g \in Slot
        PROVE  /\ file'[g].count >= Cardinality(FileHolders(g)')
               /\ file'[g].count > 0 => file'[g].inode # NIL
    <3>1. CASE g = f
      <4>1. {} \in SUBSET (Proc \X Fd) /\ FileHolders(g)' \in SUBSET ({} \cup {d})
        BY <1>18, <3>1
      <4>2. Cardinality(FileHolders(g)') \in Nat /\ Cardinality(FileHolders(g)') <= Cardinality({}) + 1
        BY <1>13, <4>1, HoldersOneMore
      <4> QED
        BY <1>8, <1>11, <3>1, <4>2, FS_EmptySet
    <3>2. CASE g # f
      <4>1. FileHolders(g)' \in SUBSET FileHolders(g) /\ FileHolders(g) \in SUBSET (Proc \X Fd)
        BY <1>1, <1>17, <3>2, NobodyHolds
      <4>2. /\ Cardinality(FileHolders(g)') \in Nat /\ Cardinality(FileHolders(g)) \in Nat
            /\ Cardinality(FileHolders(g)') <= Cardinality(FileHolders(g))
        BY <4>1, HoldersFewer
      <4>3. /\ file[g].count >= Cardinality(FileHolders(g)) /\ file[g].count \in Nat
            /\ file[g].count > 0 => file[g].inode # NIL
        BY <1>1, <1>9 DEF Counted
      <4> QED
        BY <1>11, <3>2, <4>2, <4>3
    <3> QED
      BY <3>1, <3>2
  <2>4. ASSUME NEW r \in ISlot \ {RootSlot} PROVE inode'[r].count >= Cardinality(InodeHolders(r)')
    <3>1. InodeHolders(r) \in SUBSET (Proc \X Fd) /\ inode[r].count >= Cardinality(InodeHolders(r))
      BY <1>1, NobodyHolds DEF Counted
    <3>2. inode[r].count \in Int
      BY <1>1, CountKinds
    <3>3. inode'[r].count \in 0 .. MaxCount
      BY <1>7
    <3>4. /\ inode[r].count > 0 => inode'[r].count >= inode[r].count
          /\ r = s => inode'[r].count >= 1 /\ (inode[r].count > 0 => inode'[r].count > inode[r].count)
      BY <1>7, <2>1 DEF Grown, Tables
    <3>5. CASE r = s
      <4>1. InodeHolders(r)' \in SUBSET (InodeHolders(r) \cup {d})
        BY <1>19
      <4>2. /\ Cardinality(InodeHolders(r)') \in Nat /\ Cardinality(InodeHolders(r)) \in Nat
            /\ Cardinality(InodeHolders(r)') <= Cardinality(InodeHolders(r)) + 1
        BY <1>13, <3>1, <4>1, HoldersOneMore
      <4> QED
        BY <3>1, <3>2, <3>3, <3>4, <3>5, <4>2, Params, SMTT(40)
    <3>6. CASE r # s
      <4>1. InodeHolders(r)' \in SUBSET InodeHolders(r)
        BY <1>19, <3>6
      <4>2. /\ Cardinality(InodeHolders(r)') \in Nat /\ Cardinality(InodeHolders(r)) \in Nat
            /\ Cardinality(InodeHolders(r)') <= Cardinality(InodeHolders(r))
        BY <3>1, <4>1, HoldersFewer
      <4> QED
        BY <3>1, <3>2, <3>3, <3>4, <4>2, Params, SMTT(40)
    <3> QED
      BY <3>5, <3>6
  <2>5. Counted'
    BY <2>3, <2>4 DEF Counted
  <2>6. FilesSteady
    <3>1. \A r \in ISlot : Held(Tables, r)' <=> Held(u, r)
      BY <1>7 DEF Held, Tables
    <3>2. \A r \in ISlot : Held(Tables, r) /\ Held(Tables, r)' => inode'[r].num = inode[r].num
      BY <1>7, <2>1, <3>1 DEF Steady, Tables
    <3>3. \A g \in Slot : file[g].count > 0 /\ file'[g].count > 0 => file'[g].inode = file[g].inode
      BY <1>5, <1>11
    <3> QED
      BY <3>2, <3>3 DEF FilesSteady
  <2> QED
    BY <2>2, <2>5, <2>6
<1>21. halted' # "no" => FilesSteady
  BY DEF FilesSteady
<1> QED
  BY <1>12, <1>20, <1>21 DEF IInv

-----------------------------------------------------------------------------
(* The requests, one by one                                                *)

(* At the start every count is 0 but the one of "/", which has the first   *)
(* block of sectors; the archive is behind the blocks.                     *)
LEMMA InitInv == Init => IInv
<1> SUFFICES ASSUME Init PROVE IInv
  OBVIOUS
<1>1. NrFixed \in Nat \ {0} /\ NrFixed <= MaxEntries /\ NrFixed < NR_BITS
  BY Params
<1>2. FreshDirectory \in [1 .. MaxEntries -> Entry]
  <2>1. ASSUME NEW i \in 2 .. NrFixed - 1 PROVE Special[i - 1] \in Name
    <3>1. i - 1 \in 1 .. Len(Special)
      BY <2>1, Params
    <3> QED
      BY <3>1, TablesAssumption
  <2>2. ASSUME NEW i \in 1 .. MaxEntries PROVE FreshDirectory[i] \in Entry
    <3>1. ROOT_INODE \in 0 .. NR_BITS - 1 /\ 0 \in 0 .. NR_BITS - 1
      BY Params
    <3>2. i \in 2 .. NrFixed => i \in 0 .. NR_BITS - 1
      BY <1>1, Params
    <3> QED
      BY <1>1, <2>1, <3>1, <3>2, TablesAssumption DEF FreshDirectory, Entry, NoEntry
  <2> QED
    BY <2>2 DEF FreshDirectory
<1>3. FreshInodes \in [Num -> DInode]
  <2>1. 1 \in 0 .. NR_SECTS /\ 0 \in 0 .. NR_SECTS /\ 0 \in 0 .. MaxEntries /\ NrFixed \in 0 .. MaxEntries
    BY <1>1, Params
  <2>2. INSTALL_BIT \in 0 .. NR_SECTS /\ (1 \in 0 .. MaxEntries)
    BY Params
  <2>3. \A n \in Num : FreshInodes[n] \in DInode
    BY <2>1, <2>2 DEF FreshInodes, DInode, NoInode
  <2> QED
    BY <2>3 DEF FreshInodes
<1>4. FreshInodeMap \subseteq 0 .. NR_BITS - 1 /\ FreshSectMap \subseteq 0 .. NR_SECTS - 1
  BY <1>1, Params DEF FreshInodeMap, FreshSectMap, Run
<1>5. /\ disk.imap = FreshInodeMap /\ disk.smap = FreshSectMap
      /\ disk.ino = FreshInodes /\ disk.dir = FreshDirectory
      /\ disk \in Disk
  BY <1>2, <1>3, <1>4 DEF Init, Disk
<1>6. inode \in [ISlot -> Inode]
  <2>1. 1 \in 0 .. NR_SECTS /\ 0 \in 0 .. NR_SECTS /\ 0 \in 0 .. MaxEntries /\ NrFixed \in 0 .. MaxEntries
    BY <1>1, Params
  <2>2. ROOT_INODE \in 0 .. NR_BITS - 1 /\ 0 \in 0 .. NR_BITS - 1
    BY Params
  <2>3. /\ [count |-> 1, num |-> ROOT_INODE, mode |-> "dir", size |-> NrFixed, start |-> 1] \in Inode
        /\ Unused \in Inode
    BY <2>1, <2>2 DEF Inode, Mode, Unused
  <2> QED
    BY <2>3 DEF Init
<1>7. Tables.inode = inode /\ Tables.disk = disk /\ Tables \in TablesKind
  BY <1>5, <1>6 DEF Tables, TablesKind
<1>8. Kinds
  <2>1. open_file \in [Proc -> [Fd -> Slot \cup {NIL}]] /\ file \in [Slot -> [count : Nat, inode : ISlot \cup {NIL}]]
    BY DEF Init
  <2>2. alive \subseteq User /\ halted = "no"
    BY Params DEF Init
  <2> QED
    BY <1>7, <2>1, <2>2 DEF Kinds
<1>9. /\ \A s \in ISlot : Held(Tables, s) <=> s = RootSlot
      /\ inode[RootSlot].num = ROOT_INODE /\ inode[RootSlot].mode = "dir"
      /\ OnDisk(inode[RootSlot]) = FreshInodes[ROOT_INODE] /\ FreshInodes[ROOT_INODE].mode = "dir"
      /\ FreshInodes[ROOT_INODE].start = 1 /\ ROOT_INODE \in FreshInodeMap
      /\ \A s \in ISlot \ {RootSlot} : inode[s].count = 0
  <2>1. inode[RootSlot] = [count |-> 1, num |-> ROOT_INODE, mode |-> "dir", size |-> NrFixed, start |-> 1]
    BY Params DEF Init
  <2>2. \A s \in ISlot \ {RootSlot} : inode[s].count = 0
    BY DEF Init, Unused
  <2>3. FreshInodes[ROOT_INODE] = [mode |-> "dir", size |-> NrFixed, start |-> 1]
    BY Params DEF FreshInodes
  <2>4. ROOT_INODE \in FreshInodeMap
    BY <1>1, Params DEF FreshInodeMap
  <2>5. \A s \in ISlot : Held(Tables, s) <=> s = RootSlot
    BY <1>7, <2>2 DEF Held
  <2>6. OnDisk(inode[RootSlot]) = FreshInodes[ROOT_INODE]
    BY <2>1, <2>3 DEF OnDisk
  <2> QED
    BY <2>1, <2>2, <2>3, <2>4, <2>5, <2>6
<1>10. RootKept(Tables)
  BY <1>5, <1>7, <1>9 DEF RootKept
<1>11. MemoryRight(Tables)
  <2>1. ROOT_INODE \in Num
    BY Params
  <2> QED
    BY <1>5, <1>7, <1>9, <2>1 DEF MemoryRight
<1>12. SectorsRight(disk)
  <2>1. 0 \in FreshSectMap
    BY Params DEF FreshSectMap
  <2>2. NrFixed \in Num /\ NrFixed # ROOT_INODE
    BY Params DEF Num, ROOT_INODE
  <2>3. \A n \in FilesOf(disk) : n = ROOT_INODE \/ (n = NrFixed /\ disk.ino[n].start = INSTALL_BIT)
    <3>1. \A n \in Num : n # ROOT_INODE /\ n # NrFixed =>
             FreshInodes[n].mode \notin {"regular", "dir"}
      BY DEF FreshInodes, NoInode
    <3>2. FreshInodes[NrFixed].start = INSTALL_BIT
      BY <2>2, Params DEF FreshInodes
    <3> QED
      BY <1>5, <3>1, <3>2 DEF FilesOf
  <2>4. High(INSTALL_BIT)
    BY Params DEF High, LowBlocks
  <2>5. 1 \in FreshSectMap /\ Run(1) \subseteq FreshSectMap
    BY Params DEF FreshSectMap, Run
  <2>6. ASSUME NEW b \in LowBlocks, b \in FreshSectMap PROVE b = 1
    <3>1. b \in Blocks /\ 1 \in Blocks
      BY RootIsLow DEF LowBlocks
    <3>2. b \in Nat /\ b >= 1 /\ b \in Run(b)
      BY <3>1, BlocksApart
    <3>3. b \notin Run(INSTALL_BIT)
      BY <2>4, HighApart
    <3>4. b \in Run(1)
      BY <2>6, <3>2, <3>3, Params DEF FreshSectMap, Run
    <3> QED
      BY <3>1, <3>2, <3>4, BlocksApart
  <2>7. ASSUME NEW m \in FilesOf(disk), NEW n \in FilesOf(disk),
               disk.ino[m].start \in LowBlocks, disk.ino[m].start = disk.ino[n].start
        PROVE  m = n
    <3>1. INSTALL_BIT \notin LowBlocks
      BY <2>4, HighApart
    <3> QED
      BY <2>3, <2>7, <3>1
  <2>8. \A n \in FilesOf(disk) :
           disk.ino[n].start \in LowBlocks \cap disk.smap \/ High(disk.ino[n].start)
    BY <1>5, <1>9, <2>3, <2>4, <2>5, RootIsLow
  <2>9. \A b \in LowBlocks : b \in disk.smap => Run(b) \subseteq disk.smap
    BY <1>5, <2>5, <2>6
  <2> QED
    BY <1>5, <2>1, <2>7, <2>8, <2>9 DEF SectorsRight
<1>13. ASSUME NEW i \in 1 .. MaxEntries PROVE EntryRight(disk, i)
  <2>1. \A j \in 1 .. MaxEntries : FreshDirectory[j].num = IF j <= NrFixed THEN j ELSE 0
    BY <1>1 DEF FreshDirectory, NoEntry, ROOT_INODE
  <2>2. i <= NrFixed => i \in FreshInodeMap /\ i \in Num
    BY <1>1, Params DEF FreshInodeMap, Num
  <2>3. i <= NrFixed => FreshInodes[i].mode # "free"
    BY <1>1, <2>2 DEF FreshInodes, ROOT_INODE
  <2>4. \A j \in 1 .. MaxEntries : FreshDirectory[j].num = FreshDirectory[i].num /\ FreshDirectory[i].num # 0 => j = i
    BY <1>1, <2>1
  <2> QED
    BY <1>1, <1>5, <2>1, <2>2, <2>3, <2>4 DEF EntryRight
<1>14. Counted
  <2>1. /\ \A p \in Proc, fd \in Fd : open_file[p][fd] = NIL
        /\ \A f \in Slot : file[f].count = 0
    BY DEF Init
  <2>2. \A f \in Slot : FileHolders(f) = {}
    BY <2>1, Params DEF FileHolders
  <2>3. \A s \in ISlot : InodeHolders(s) = {}
    BY <2>1 DEF InodeHolders
  <2>4. Cardinality({}) = 0
    BY FS_EmptySet
  <2>5. \A f \in Slot : /\ file[f].count >= Cardinality(FileHolders(f))
                       /\ ~ (file[f].count > 0)
    BY <2>1, <2>2, <2>4
  <2>6. \A s \in ISlot \ {RootSlot} : inode[s].count >= Cardinality(InodeHolders(s))
    BY <1>9, <2>3, <2>4
  <2> QED
    BY <2>5, <2>6 DEF Counted
<1> QED
  BY <1>7, <1>8, <1>10, <1>11, <1>12, <1>13, <1>14 DEF IInv, Sound

(* An inode that a request finds by its name and takes.                    *)
LEMMA Found ==
    ASSUME IInv, halted = "no", NEW name, NEW n, n = Lookup(Tables, name),
           NEW s, s = InodeSlot(Tables, n), s # NIL, NEW t, t = get_inode(Tables, n)
    PROVE  /\ t \in TablesKind /\ s \in ISlot /\ n \in Num /\ t.inode[s].num = n /\ Held(t, s)
           /\ ~ RootTaken(t) => Sound(t) /\ Steady(Tables, t) /\ Grown(Tables, t, s)
<1>1. Sound(Tables)
  BY DEF IInv
<1>2. Tables \in TablesKind
  BY <1>1 DEF Sound
<1>3. /\ n \in 0 .. NR_BITS - 1
      /\ n # 0 => n \in Num \cap Tables.disk.imap /\ Tables.disk.ino[n].mode # "free"
  BY <1>1, LookupRight
<1>4. /\ t \in TablesKind /\ s \in ISlot /\ n \in Num /\ t.inode[s].num = n
      /\ \/ /\ Tables.inode[s].count > 0 /\ Tables.inode[s].num = n
            /\ t.inode[s] = [Tables.inode[s] EXCEPT !.count = Tables.inode[s].count + 1]
         \/ /\ Tables.inode[s].count <= 0
            /\ t.inode[s] = Loaded(Tables, n)
  BY <1>2, <1>3, GetFields
<1>5. Held(t, s)
  <2>1. Tables.inode[s] \in Inode /\ Tables.inode[s].count \in Int
    BY <1>2, <1>4, InodeKinds
  <2>2. t.inode[s].count > 0
    BY <1>4, <2>1 DEF Loaded, Inode
  <2> QED
    BY <2>2 DEF Held
<1>6. n # 0
  BY <1>4, Params
<1>7. ~ RootTaken(t) => Sound(t) /\ Steady(Tables, t) /\ Grown(Tables, t, s)
  BY <1>1, <1>3, <1>6, GetSound
<1> QED
  BY <1>4, <1>5, <1>7

(* open of a file that is there, perhaps shortened to nothing.             *)
LEMMA OpenExistingRight ==
    ASSUME IInv, NEW p \in User, NEW name, NEW oflag, open_existing(p, name, oflag)
    PROVE  IInv' /\ FilesSteady
<1>1. PICK n : n = Lookup(Tables, name)
  OBVIOUS
<1>2. PICK s : s = InodeSlot(Tables, n)
  OBVIOUS
<1>3. PICK t : t = get_inode(Tables, n)
  OBVIOUS
<1>4. PICK u : u = Truncated(t, s, oflag)
  OBVIOUS
<1>5. CanOpen(p) /\ s # NIL /\ Commit(u, "no") /\ Connect(p, s)
  BY <1>1, <1>2, <1>3, <1>4 DEF open_existing
<1>6. halted = "no"
  BY <1>5 DEF CanOpen, Running
<1>7. /\ t \in TablesKind /\ s \in ISlot /\ n \in Num /\ t.inode[s].num = n /\ Held(t, s)
      /\ ~ RootTaken(t) => Sound(t) /\ Steady(Tables, t) /\ Grown(Tables, t, s)
  BY <1>1, <1>2, <1>3, <1>5, <1>6, Found
<1>8. /\ u \in TablesKind
      /\ u.inode[RootSlot].num = t.inode[RootSlot].num
  <2>1. t.inode[s].num \in Num
    BY <1>7
  <2>2. \/ u = t
        \/ /\ u \in TablesKind /\ \A r \in ISlot : r # s => u.inode[r] = t.inode[r]
           /\ u.inode[s] = [t.inode[s] EXCEPT !.size = 0]
           /\ u.disk.imap = t.disk.imap /\ u.disk.smap = t.disk.smap /\ u.disk.dir = t.disk.dir
           /\ u.disk.ino = [t.disk.ino EXCEPT ![t.inode[s].num] = OnDisk(u.inode[s])]
    BY <1>4, <1>7, <2>1, TruncateFields
  <2>3. t.inode[s] \in Inode
    BY <1>7, InodeKinds
  <2> QED
    BY <1>7, <2>2, <2>3, Params DEF Inode
<1>9. ASSUME ~ RootTaken(u) PROVE Sound(u) /\ Steady(Tables, u) /\ Grown(Tables, u, s)
  <2>1. Sound(t) /\ Steady(Tables, t) /\ Grown(Tables, t, s)
    BY <1>7, <1>8, <1>9 DEF RootTaken
  <2>2. /\ Sound(u)
        /\ \A r \in ISlot : u.inode[r].count = t.inode[r].count /\ u.inode[r].num = t.inode[r].num
    BY <1>4, <1>7, <2>1, TruncateSound
  <2> QED
    BY <2>1, <2>2 DEF Steady, Grown, Held
<1>10. Handed(u, s)
  BY <1>8, <1>9 DEF Handed
<1> QED
  BY <1>5, <1>6, <1>7, <1>8, <1>10, OpenStep

(* An inode that is taken and given back.                                  *)
LEMMA FoundAndGiven ==
    ASSUME IInv, halted = "no", NEW name, NEW n, n = Lookup(Tables, name),
           NEW s, s = InodeSlot(Tables, n), s # NIL,
           NEW u, u = put_inode(get_inode(Tables, n), s), Commit(u, "no"), Unopened
    PROVE  IInv' /\ FilesSteady
<1>1. PICK t : t = get_inode(Tables, n)
  OBVIOUS
<1>2. /\ t \in TablesKind /\ s \in ISlot /\ n \in Num /\ t.inode[s].num = n /\ Held(t, s)
      /\ ~ RootTaken(t) => Sound(t) /\ Steady(Tables, t) /\ Grown(Tables, t, s)
  BY <1>1, Found
<1>3. u = put_inode(t, s)
  BY <1>1
<1>4. u \in TablesKind /\ u.inode[RootSlot].num = t.inode[RootSlot].num
  <2>1. /\ u \in TablesKind /\ u.disk = t.disk
        /\ \A r \in ISlot : r # s => u.inode[r] = t.inode[r]
        /\ u.inode[s] = IF s # RootSlot /\ t.inode[s].count = 1 THEN Unused
                        ELSE [t.inode[s] EXCEPT !.count = t.inode[s].count - 1]
    BY <1>2, <1>3, PutFields
  <2>2. CASE s = RootSlot
    <3>1. u.inode[s] = [t.inode[s] EXCEPT !.count = t.inode[s].count - 1]
      BY <2>1, <2>2
    <3>2. t.inode[s] \in Inode
      BY <1>2, InodeKinds
    <3>3. u.inode[s].num = t.inode[s].num
      BY <3>1, <3>2 DEF Inode
    <3> QED
      BY <2>1, <2>2, <3>3
  <2>3. CASE s # RootSlot
    BY <2>1, <2>3, Params
  <2> QED
    BY <2>2, <2>3
<1>5. ASSUME ~ RootTaken(u) PROVE Sound(u) /\ Steady(Tables, u) /\ Grown(Tables, u, NIL)
  <2>1. Sound(t) /\ Steady(Tables, t) /\ Grown(Tables, t, s)
    BY <1>2, <1>4, <1>5 DEF RootTaken
  <2>2. /\ Sound(u) /\ Steady(t, u) /\ ~ RootTaken(u)
        /\ \A r \in ISlot : u.inode[r].count = IF r = s THEN t.inode[r].count - 1 ELSE t.inode[r].count
    BY <1>2, <1>3, <2>1, PutSound
  <2>3. \A r \in ISlot : /\ Tables.inode[r].count \in Int /\ t.inode[r].count \in Int
                         /\ Held(Tables, r) => Held(t, r)
    <3>1. Tables \in TablesKind
      BY DEF IInv, Kinds
    <3>2. \A r \in ISlot : Tables.inode[r].count \in Int /\ t.inode[r].count \in Int
      BY <1>2, <3>1, InodeKinds
    <3> QED
      BY <2>1, <3>2 DEF Grown, Held
  <2>4. Steady(Tables, u)
    BY <2>1, <2>2, <2>3 DEF Steady
  <2>5. ASSUME NEW r \in ISlot \ {RootSlot}
        PROVE  /\ Tables.inode[r].count > 0 => u.inode[r].count >= Tables.inode[r].count
               /\ r # NIL
    <3>1. Tables.inode[r].count > 0 =>
             /\ t.inode[r].count >= Tables.inode[r].count
             /\ r = s => t.inode[r].count > Tables.inode[r].count
      BY <2>1 DEF Grown
    <3>2. u.inode[r].count = IF r = s THEN t.inode[r].count - 1 ELSE t.inode[r].count
      BY <2>2
    <3>3. Tables.inode[r].count \in Int /\ t.inode[r].count \in Int /\ r # NIL
      BY <2>3, Params
    <3>4. CASE r = s
      BY <3>1, <3>2, <3>3, <3>4
    <3>5. CASE r # s
      BY <3>1, <3>2, <3>3, <3>5
    <3> QED
      BY <3>4, <3>5
  <2>6. Grown(Tables, u, NIL)
    BY <2>5 DEF Grown
  <2> QED
    BY <2>2, <2>4, <2>6
<1>6. Handed(u, NIL)
  BY <1>4, <1>5 DEF Handed
<1> QED
  BY <1>4, <1>6, QuietStep

(* stat takes the inode and gives it back.                                 *)
LEMMA StatRight ==
    ASSUME IInv, NEW p \in User, NEW name, do_stat(p, name)
    PROVE  IInv' /\ FilesSteady
<1>1. PICK n : n = Lookup(Tables, name)
  OBVIOUS
<1>2. PICK s : s = InodeSlot(Tables, n)
  OBVIOUS
<1>3. PICK u : u = put_inode(get_inode(Tables, n), s)
  OBVIOUS
<1>4. Running(p) /\ s # NIL /\ Commit(u, "no") /\ Unopened
  BY <1>1, <1>2, <1>3 DEF do_stat
<1> QED
  BY <1>1, <1>2, <1>3, <1>4, FoundAndGiven DEF Running

(* An open with flags that do not go together does so too.                 *)
LEMMA OpenInconsistentRight ==
    ASSUME IInv, NEW p \in User, NEW name, NEW oflag, open_inconsistent(p, name, oflag)
    PROVE  IInv' /\ FilesSteady
<1>1. PICK n : n = Lookup(Tables, name)
  OBVIOUS
<1>2. PICK s : s = InodeSlot(Tables, n)
  OBVIOUS
<1>3. PICK u : u = put_inode(get_inode(Tables, n), s)
  OBVIOUS
<1>4. CanOpen(p) /\ s # NIL /\ Commit(u, "no") /\ Unopened
  BY <1>1, <1>2, <1>3 DEF open_inconsistent
<1> QED
  BY <1>1, <1>2, <1>3, <1>4, FoundAndGiven DEF CanOpen, Running

(* An inode that is taken and, although the request fails, kept.           *)
LEMMA FoundAndKept ==
    ASSUME IInv, halted = "no", NEW name, NEW n, n = Lookup(Tables, name),
           NEW s, s = InodeSlot(Tables, n), s # NIL,
           NEW t, t = get_inode(Tables, n), Commit(t, "no"), Unopened
    PROVE  IInv' /\ FilesSteady
<1>1. /\ t \in TablesKind /\ s \in ISlot /\ n \in Num /\ t.inode[s].num = n /\ Held(t, s)
      /\ ~ RootTaken(t) => Sound(t) /\ Steady(Tables, t) /\ Grown(Tables, t, s)
  BY Found
<1>2. Grown(Tables, t, s) => Grown(Tables, t, NIL)
  BY Params DEF Grown
<1>3. Handed(t, NIL)
  BY <1>1, <1>2 DEF Handed
<1> QED
  BY <1>1, <1>3, QuietStep

(* An open without O_RDWR gives an error and keeps the inode.              *)
LEMMA OpenRefusedRight ==
    ASSUME IInv, NEW p \in User, NEW name, NEW oflag, open_refused(p, name, oflag)
    PROVE  IInv' /\ FilesSteady
<1>1. PICK n : n = Lookup(Tables, name)
  OBVIOUS
<1>2. PICK t : t = get_inode(Tables, n)
  OBVIOUS
<1>3. CanOpen(p) /\ InodeSlot(Tables, n) # NIL /\ Commit(t, "no") /\ Unopened
  BY <1>1, <1>2 DEF open_refused
<1> QED
  BY <1>1, <1>2, <1>3, FoundAndKept DEF CanOpen, Running

(* An unlink of a file that is open, or of no regular file, keeps it too.  *)
LEMMA UnlinkRefusedRight ==
    ASSUME IInv, NEW p \in User, NEW name, unlink_refused(p, name)
    PROVE  IInv' /\ FilesSteady
<1>1. PICK n : n = Lookup(Tables, name)
  OBVIOUS
<1>2. PICK t : t = get_inode(Tables, n)
  OBVIOUS
<1>3. Running(p) /\ InodeSlot(Tables, n) # NIL /\ Commit(t, "no") /\ Unopened
  BY <1>1, <1>2 DEF unlink_refused
<1> QED
  BY <1>1, <1>2, <1>3, FoundAndKept DEF Running

(* open of a new file.                                                     *)
LEMMA OpenCreateRight ==
    ASSUME IInv, NEW p \in User, NEW name \in Name \cup {"."}, NEW oflag, open_create(p, name, oflag)
    PROVE  IInv' /\ FilesSteady
<1>1. PICK s : s = NewSlot(Tables, Min(FreeNums(Tables)))
  OBVIOUS
<1>2. PICK t : t = create_file(Tables, name)
  OBVIOUS
<1>3. PICK u : u = Truncated(t, s, oflag)
  OBVIOUS
<1>4. /\ CanOpen(p) /\ NewPlace(Tables) <= MaxEntries /\ Room(Tables) /\ Numbered(Tables)
      /\ Commit(u, "no") /\ Connect(p, s)
  BY <1>1, <1>2, <1>3 DEF open_create, Creates
<1>5. halted = "no"
  BY <1>4 DEF CanOpen, Running
<1>6. Sound(Tables)
  BY <1>5 DEF IInv
<1>7. /\ t \in TablesKind /\ s \in ISlot /\ t.inode[s].num \in Num
      /\ RootTaken(t) <=> s = RootSlot
      /\ ~ RootTaken(t) => Sound(t) /\ Held(t, s) /\ Steady(Tables, t) /\ Grown(Tables, t, s)
  BY <1>1, <1>2, <1>4, <1>6, CreateSound
<1>8. /\ u \in TablesKind
      /\ u.inode[RootSlot].num = t.inode[RootSlot].num
  <2>1. \/ u = t
        \/ /\ u \in TablesKind /\ \A r \in ISlot : r # s => u.inode[r] = t.inode[r]
           /\ u.inode[s] = [t.inode[s] EXCEPT !.size = 0]
           /\ u.disk.imap = t.disk.imap /\ u.disk.smap = t.disk.smap /\ u.disk.dir = t.disk.dir
           /\ u.disk.ino = [t.disk.ino EXCEPT ![t.inode[s].num] = OnDisk(u.inode[s])]
    BY <1>3, <1>7, TruncateFields
  <2>2. t.inode[s] \in Inode
    BY <1>7, InodeKinds
  <2> QED
    BY <1>7, <2>1, <2>2, Params, ZenonT(60) DEF Inode
<1>9. ASSUME ~ RootTaken(u) PROVE Sound(u) /\ Steady(Tables, u) /\ Grown(Tables, u, s)
  <2>1. Sound(t) /\ Held(t, s) /\ Steady(Tables, t) /\ Grown(Tables, t, s)
    BY <1>7, <1>8, <1>9 DEF RootTaken
  <2>2. /\ Sound(u)
        /\ \A r \in ISlot : u.inode[r].count = t.inode[r].count /\ u.inode[r].num = t.inode[r].num
    BY <1>3, <1>7, <2>1, TruncateSound
  <2> QED
    BY <2>1, <2>2 DEF Steady, Grown, Held
<1>10. Handed(u, s)
  BY <1>8, <1>9 DEF Handed
<1> QED
  BY <1>4, <1>5, <1>7, <1>8, <1>10, OpenStep

(* A new file for which something is missing: the file system ends.        *)
LEMMA CreateFailsRight ==
    ASSUME IInv, NEW p \in User, NEW name, NEW oflag, create_fails(p, name, oflag)
    PROVE  IInv' /\ FilesSteady
<1>1. halted' \in {"panic", "null pointer"} /\ UNCHANGED <<open_file, file, inode, disk, alive>>
  BY DEF create_fails
<1>2. Kinds'
  BY <1>1 DEF IInv, Kinds, Tables
<1>3. halted' # "no"
  BY <1>1
<1> QED
  BY <1>2, <1>3 DEF IInv, FilesSteady

(* Giving back the inode of "/", which was not counted.                    *)
LEMMA RootGiven ==
    ASSUME IInv, halted = "no", NEW u, u = put_inode(Tables, RootSlot), Commit(u, "no"), Unopened
    PROVE  IInv' /\ FilesSteady
<1>1. Sound(Tables) /\ Tables \in TablesKind
  BY DEF IInv, Kinds
<1>2. RootSlot \in ISlot /\ Held(Tables, RootSlot)
  BY Params DEF Held
<1>3. /\ Sound(u) /\ Steady(Tables, u) /\ ~ RootTaken(u)
      /\ \A r \in ISlot : u.inode[r].count = IF r = RootSlot THEN Tables.inode[r].count - 1
                                             ELSE Tables.inode[r].count
  BY <1>1, <1>2, PutSound
<1>4. Grown(Tables, u, NIL)
  <2>1. \A r \in ISlot : Tables.inode[r].count \in Int
    BY <1>1, InodeKinds
  <2> QED
    BY <1>3, <2>1, Params DEF Grown
<1>5. u \in TablesKind /\ Handed(u, NIL)
  BY <1>3, <1>4 DEF Handed, Sound
<1> QED
  BY <1>5, QuietStep

(* open of "/": without a count it is opened, or given back, or left.      *)
LEMMA OpenRootRight ==
    ASSUME IInv, NEW p \in User, NEW oflag, open_root(p, oflag)
    PROVE  IInv' /\ FilesSteady
<1>1. halted = "no" /\ CanOpen(p)
  BY DEF open_root, CanOpen, Running
<1>2. Sound(Tables) /\ Tables \in TablesKind
  BY <1>1 DEF IInv, Kinds
<1>3. RootSlot \in ISlot /\ Held(Tables, RootSlot)
  BY Params DEF Held
<1>4. CASE oflag \in OpensExisting
  <2>1. PICK u : u = Truncated(Tables, RootSlot, oflag)
    OBVIOUS
  <2>2. Commit(u, "no") /\ Connect(p, RootSlot)
    BY <1>4, <2>1 DEF open_root
  <2>3. /\ Sound(u)
        /\ \A r \in ISlot : u.inode[r].count = Tables.inode[r].count /\ u.inode[r].num = Tables.inode[r].num
    BY <1>2, <1>3, <2>1, TruncateSound
  <2>4. Steady(Tables, u)
    BY <2>3 DEF Steady
  <2>5. Grown(Tables, u, RootSlot)
    <3>1. \A r \in ISlot : Tables.inode[r].count \in Int
      BY <1>2, InodeKinds
    <3> QED
      BY <2>3, <3>1 DEF Grown
  <2>6. u \in TablesKind /\ Handed(u, RootSlot)
    BY <2>3, <2>4, <2>5 DEF Handed, Sound
  <2> QED
    BY <1>1, <1>3, <2>2, <2>6, OpenStep
<1>5. CASE oflag \notin OpensExisting /\ "O_RDWR" \in oflag
  <2>1. PICK u : u = put_inode(Tables, RootSlot)
    OBVIOUS
  <2>2. Commit(u, "no") /\ Unopened
    BY <1>5, <2>1 DEF open_root
  <2> QED
    BY <1>1, <2>1, <2>2, RootGiven
<1>6. CASE oflag \notin OpensExisting /\ "O_RDWR" \notin oflag
  <2>1. Commit(Tables, "no") /\ Unopened
    BY <1>6 DEF open_root
  <2>2. Steady(Tables, Tables)
    BY DEF Steady
  <2>3. Grown(Tables, Tables, NIL)
    <3>1. \A r \in ISlot : Tables.inode[r].count \in Int
      BY <1>2, InodeKinds
    <3> QED
      BY <3>1, Params DEF Grown
  <2>4. Handed(Tables, NIL)
    BY <1>2, <2>2, <2>3 DEF Handed
  <2> QED
    BY <1>1, <1>2, <2>1, <2>4, QuietStep
<1> QED
  BY <1>4, <1>5, <1>6

(* stat of "/".                                                            *)
LEMMA StatRootRight ==
    ASSUME IInv, NEW p \in User, stat_root(p) PROVE IInv' /\ FilesSteady
BY RootGiven DEF stat_root, Running

(* unlink, which comes to the end of the file or to a panic.               *)
LEMMA UnlinkRight ==
    ASSUME IInv, NEW p \in User, NEW name, do_unlink(p, name)
    PROVE  IInv' /\ FilesSteady
<1>1. PICK n : n = Lookup(Tables, name)
  OBVIOUS
<1>2. PICK s : s = InodeSlot(Tables, n)
  OBVIOUS
<1>3. PICK g : g = get_inode(Tables, n)
  OBVIOUS
<1>4. PICK f : f = Freed(g, n, s)
  OBVIOUS
<1>5. PICK places : places = {i \in 1 .. NrEntries(g) : g.disk.dir[i].num = n}
  OBVIOUS
<1>6. /\ Running(p) /\ s # NIL /\ MayUnlink(g, s) /\ Unopened
      /\ IF places = {} \/ ~ (Run(g.inode[s].start) \subseteq g.disk.smap)
         THEN Commit(f, "panic")
         ELSE Commit(Removed(f, Min(places)), "no")
  BY <1>1, <1>2, <1>3, <1>4, <1>5 DEF do_unlink
<1>7. halted = "no" /\ Sound(Tables) /\ Tables \in TablesKind
  BY <1>6 DEF IInv, Kinds, Running
<1>8. f \in TablesKind /\ g \in TablesKind /\ g.disk = Tables.disk
  <2>1. /\ f \in TablesKind /\ f.inode[RootSlot].num \in Num /\ f.disk.dir = Tables.disk.dir
        /\ g \in TablesKind /\ g.disk = Tables.disk
        /\ f.inode[RootSlot].num = ROOT_INODE =>
              /\ RootKept(f) /\ MemoryRight(f) /\ SectorsRight(f.disk)
              /\ \A r \in ISlot : Tables.inode[r].count > 0 \/ r = RootSlot => f.inode[r] = Tables.inode[r]
              /\ \A i \in 1 .. MaxEntries : Tables.disk.dir[i].num \notin {0, n} =>
                    /\ Tables.disk.dir[i].num \in f.disk.imap
                    /\ f.disk.ino[Tables.disk.dir[i].num].mode # "free"
    BY <1>1, <1>2, <1>3, <1>4, <1>6, <1>7, FreedRight
  <2> QED
    BY <2>1
<1>9. CASE Commit(f, "panic")
  BY <1>6, <1>7, <1>8, <1>9, QuietStep
<1>10. CASE places # {} /\ Commit(Removed(f, Min(places)), "no")
  <2>1. PICK i : i = Min(places)
    OBVIOUS
  <2>2. PICK u : u = Removed(f, i)
    OBVIOUS
  <2>3. Commit(u, "no")
    BY <1>10, <2>1, <2>2
  <2>4. i \in places
    <3>1. places \in SUBSET Nat
      BY <1>5
    <3> QED
      BY <1>10, <2>1, <3>1, MinIsLeast
  <2>5. NrEntries(g) \in 0 .. MaxEntries
    BY <1>8, InodeKinds, Params DEF NrEntries
  <2>6. i \in 1 .. MaxEntries /\ Tables.disk.dir[i].num = n
    BY <1>5, <1>8, <2>4, <2>5, Params
  <2>7. /\ u \in TablesKind
        /\ ~ RootTaken(u) => Sound(u) /\ Steady(Tables, u) /\ Grown(Tables, u, NIL)
    BY <1>1, <1>2, <1>3, <1>4, <1>6, <1>7, <2>2, <2>6, RemovedSound
  <2>8. Handed(u, NIL)
    BY <2>7 DEF Handed
  <2> QED
    BY <1>6, <1>7, <2>3, <2>7, <2>8, QuietStep
<1> QED
  BY <1>6, <1>9, <1>10

(* close: the slot of the open file and that of the inode count one less,  *)
(* and one descriptor less leads to them.                                  *)
LEMMA CloseRight ==
    ASSUME IInv, NEW p \in User, NEW fd \in Fd, do_close(p, fd)
    PROVE  IInv' /\ FilesSteady
<1>1. halted = "no" /\ Kinds /\ Sound(Tables) /\ Counted
  BY DEF IInv, do_close, Running
<1>2. PICK f : f = open_file[p][fd]
  OBVIOUS
<1>3. PICK i : i = file[f].inode
  OBVIOUS
<1>4. PICK u : u = put_inode(Tables, i)
  OBVIOUS
<1>5. /\ f # NIL /\ Commit(u, "no") /\ alive' = alive
      /\ file' = [file EXCEPT ![f] = [count |-> file[f].count - 1,
                                      inode |-> IF file[f].count = 1 THEN NIL ELSE file[f].inode]]
      /\ open_file' = [open_file EXCEPT ![p][fd] = NIL]
  BY <1>2, <1>3, <1>4 DEF do_close
<1>6. /\ open_file \in [Proc -> [Fd -> Slot \cup {NIL}]]
      /\ file \in [Slot -> [count : Nat, inode : ISlot \cup {NIL}]]
      /\ p \in Proc /\ f \in Slot
  <2>1. p \in Proc
    BY Params
  <2> QED
    BY <1>1, <1>2, <1>5, <2>1 DEF Kinds
<1> DEFINE d == <<p, fd>>
<1>7. d \in Proc \X Fd /\ d[1] = p /\ d[2] = fd
  BY <1>6
<1>8. d \in FileHolders(f)
  BY <1>2, <1>7 DEF FileHolders
<1>9. file[f].count > 0 /\ i \in ISlot
  BY <1>1, <1>3, <1>6, <1>8, NobodyHolds
<1>10. d \in InodeHolders(i)
  BY <1>2, <1>3, <1>5, <1>7 DEF InodeHolders
<1>11. Held(Tables, i)
  BY <1>1, <1>9, <1>10, NobodyHolds
<1>12. /\ Sound(u) /\ Steady(Tables, u) /\ ~ RootTaken(u)
       /\ \A r \in ISlot : u.inode[r].count = IF r = i THEN Tables.inode[r].count - 1
                                              ELSE Tables.inode[r].count
  BY <1>1, <1>4, <1>9, <1>11, PutSound
<1>13. u \in TablesKind
  BY <1>12 DEF Sound
<1>14. /\ Tables' = u /\ inode' = u.inode /\ disk' = u.disk
       /\ halted' \in {"no", "panic", "root lost"}
  <2>1. /\ Tables' = u /\ inode' = u.inode /\ disk' = u.disk
        /\ halted' \in {"no", "panic", "root lost"}
        /\ halted' = "no" => ~ RootTaken(u) /\ "no" = "no"
        /\ \A r \in ISlot : inode'[r].count \in 0 .. MaxCount
    BY <1>5, <1>13, Committed
  <2> QED
    BY <2>1
<1>15. /\ \A g \in Slot : g # f => file'[g] = file[g]
       /\ file'[f].count = file[f].count - 1
       /\ file'[f].inode = IF file[f].count = 1 THEN NIL ELSE i
       /\ file' \in [Slot -> [count : Nat, inode : ISlot \cup {NIL}]]
  <2>1. file[f].count - 1 \in Nat /\ (IF file[f].count = 1 THEN NIL ELSE i) \in ISlot \cup {NIL}
    BY <1>6, <1>9
  <2> QED
    BY <1>3, <1>5, <1>6, <2>1
<1>16. /\ \A q \in Proc, k \in Fd :
             open_file'[q][k] = IF q = p /\ k = fd THEN NIL ELSE open_file[q][k]
       /\ open_file' \in [Proc -> [Fd -> Slot \cup {NIL}]]
  BY <1>5, <1>6
<1>17. Kinds'
  BY <1>1, <1>5, <1>13, <1>14, <1>15, <1>16 DEF Kinds
<1>18. /\ \A e \in Proc \X Fd : e # d => open_file'[e[1]][e[2]] = open_file[e[1]][e[2]]
       /\ open_file'[d[1]][d[2]] = NIL
  BY <1>6, <1>7, <1>16
<1> HIDE DEF d
<1>19. /\ \A g \in Slot : FileHolders(g)' \in SUBSET FileHolders(g)
       /\ FileHolders(f)' \in SUBSET (FileHolders(f) \ {d})
  <2>1. \A g \in Slot : d \notin FileHolders(g)'
    BY <1>18, Params DEF FileHolders
  <2>2. \A g \in Slot : FileHolders(g)' \in SUBSET FileHolders(g)
    BY <1>18, <2>1 DEF FileHolders
  <2> QED
    BY <1>6, <2>1, <2>2
<1>20. /\ \A r \in ISlot : InodeHolders(r)' \in SUBSET InodeHolders(r)
       /\ InodeHolders(i)' \in SUBSET (InodeHolders(i) \ {d})
  <2>1. \A r \in ISlot : d \notin InodeHolders(r)'
    BY <1>18 DEF InodeHolders
  <2>2. ASSUME NEW r \in ISlot, NEW e \in InodeHolders(r)' PROVE e \in InodeHolders(r)
    <3>1. e \in Proc \X Fd /\ e # d
      BY <2>1, <2>2 DEF InodeHolders
    <3>2. PICK g : g = open_file[e[1]][e[2]]
      OBVIOUS
    <3>3. g # NIL /\ file'[g].inode = r /\ g \in Slot
      BY <1>6, <1>18, <2>2, <3>1, <3>2 DEF InodeHolders
    <3>4. file[g].inode = r
      BY <1>3, <1>15, <3>3, Params
    <3> QED
      BY <3>1, <3>2, <3>3, <3>4 DEF InodeHolders
  <2> QED
    BY <1>9, <2>1, <2>2
<1>21. Counted'
  <2>1. ASSUME NEW g \in Slot
        PROVE  /\ file'[g].count >= Cardinality(FileHolders(g)')
               /\ file'[g].count > 0 => file'[g].inode # NIL
    <3>1. /\ FileHolders(g) \in SUBSET (Proc \X Fd) /\ FileHolders(g)' \in SUBSET FileHolders(g)
          /\ file[g].count >= Cardinality(FileHolders(g)) /\ file[g].count \in Nat
          /\ file[g].count > 0 => file[g].inode # NIL
      BY <1>1, <1>6, <1>19, NobodyHolds DEF Counted
    <3>2. CASE g = f
      <4>1. d \in FileHolders(g) /\ FileHolders(g)' \in SUBSET (FileHolders(g) \ {d})
        BY <1>8, <1>19, <3>2 DEF d
      <4>2. /\ Cardinality(FileHolders(g)') \in Nat /\ Cardinality(FileHolders(g)) \in Nat
            /\ Cardinality(FileHolders(g)') <= Cardinality(FileHolders(g)) - 1
        BY <3>1, <4>1, HoldersOneLess
      <4>3. i # NIL
        BY <1>9, Params
      <4> QED
        BY <1>15, <3>1, <3>2, <4>2, <4>3
    <3>3. CASE g # f
      <4>1. /\ Cardinality(FileHolders(g)') \in Nat /\ Cardinality(FileHolders(g)) \in Nat
            /\ Cardinality(FileHolders(g)') <= Cardinality(FileHolders(g))
        BY <3>1, HoldersFewer
      <4> QED
        BY <1>15, <3>1, <3>3, <4>1
    <3> QED
      BY <3>2, <3>3
  <2>2. ASSUME NEW r \in ISlot \ {RootSlot} PROVE inode'[r].count >= Cardinality(InodeHolders(r)')
    <3>1. /\ InodeHolders(r) \in SUBSET (Proc \X Fd) /\ InodeHolders(r)' \in SUBSET InodeHolders(r)
          /\ inode[r].count >= Cardinality(InodeHolders(r))
      BY <1>1, <1>20, NobodyHolds DEF Counted
    <3>2. inode[r].count \in Int
      BY <1>1, CountKinds
    <3>3. inode'[r].count = IF r = i THEN inode[r].count - 1 ELSE inode[r].count
      BY <1>12, <1>14 DEF Tables
    <3>4. CASE r = i
      <4>1. d \in InodeHolders(r) /\ InodeHolders(r)' \in SUBSET (InodeHolders(r) \ {d})
        BY <1>10, <1>20, <3>4 DEF d
      <4>2. /\ Cardinality(InodeHolders(r)') \in Nat /\ Cardinality(InodeHolders(r)) \in Nat
            /\ Cardinality(InodeHolders(r)') <= Cardinality(InodeHolders(r)) - 1
        BY <3>1, <4>1, HoldersOneLess
      <4> QED
        BY <3>1, <3>2, <3>3, <3>4, <4>2
    <3>5. CASE r # i
      <4>1. /\ Cardinality(InodeHolders(r)') \in Nat /\ Cardinality(InodeHolders(r)) \in Nat
            /\ Cardinality(InodeHolders(r)') <= Cardinality(InodeHolders(r))
        BY <3>1, HoldersFewer
      <4> QED
        BY <3>1, <3>2, <3>3, <3>5, <4>1
    <3> QED
      BY <3>4, <3>5
  <2> QED
    BY <2>1, <2>2 DEF Counted
<1>22. FilesSteady
  <2>1. \A r \in ISlot : Held(Tables, r)' <=> Held(u, r)
    BY <1>14 DEF Held, Tables
  <2>2. \A r \in ISlot : Held(Tables, r) /\ Held(Tables, r)' => inode'[r].num = inode[r].num
    BY <1>12, <1>14, <2>1 DEF Steady, Tables
  <2>3. ASSUME NEW g \in Slot, file'[g].count > 0 PROVE file'[g].inode = file[g].inode
    BY <1>3, <1>6, <1>15, <2>3
  <2> QED
    BY <2>2, <2>3 DEF FilesSteady
<1> QED
  BY <1>12, <1>14, <1>17, <1>21, <1>22 DEF IInv

(* Descriptors of one process.                                             *)
Of(c, K) == {c} \X K

(* With them there are at most as many more as they are.                   *)
LEMMA HoldersMore ==
    ASSUME NEW S \in SUBSET (Proc \X Fd), NEW c \in Proc, NEW K \in SUBSET Fd,
           NEW T \in SUBSET (S \cup Of(c, K))
    PROVE  /\ Cardinality(T) \in Nat /\ Cardinality(S) \in Nat /\ Cardinality(K) \in Nat
           /\ Cardinality(T) <= Cardinality(S) + Cardinality(K)
<1>1. IsFiniteSet(S) /\ Cardinality(S) \in Nat
  BY HoldersFinite
<1>2. IsFiniteSet(K) /\ Cardinality(K) \in Nat
  <2>1. IsFiniteSet(Fd)
    <3>1. 0 \in Int /\ OPEN_MAX - 1 \in Int
      BY Params
    <3> QED
      BY <3>1, FS_Interval DEF Fd
  <2>2. IsFiniteSet(K)
    BY <2>1, FS_Subset
  <2> QED
    BY <2>2, FS_CardinalityType
<1>3. IsFiniteSet({c} \X K) /\ Cardinality({c} \X K) = Cardinality(K)
  <2>1. IsFiniteSet({c}) /\ Cardinality({c}) = 1
    BY FS_Singleton
  <2>2. IsFiniteSet({c} \X K) /\ Cardinality({c} \X K) = Cardinality({c}) * Cardinality(K)
    BY <1>2, <2>1, FS_Product
  <2> QED
    BY <1>2, <2>1, <2>2
<1> DEFINE P == Of(c, K)
<1>4. IsFiniteSet(P) /\ Cardinality(P) = Cardinality(K)
  BY <1>3 DEF Of
<1> HIDE DEF P
<1>5. /\ IsFiniteSet(S \cup P)
      /\ Cardinality(S \cup P) = Cardinality(S) + Cardinality(P) - Cardinality(S \cap P)
  BY <1>1, <1>4, FS_Union
<1>6. Cardinality(S \cap P) \in Nat
  <2>1. S \cap P \in SUBSET S
    OBVIOUS
  <2>2. IsFiniteSet(S \cap P)
    BY <1>1, <2>1, FS_Subset
  <2> QED
    BY <2>2, FS_CardinalityType
<1>7. IsFiniteSet(T) /\ Cardinality(T) <= Cardinality(S \cup P)
  <2>1. T \in SUBSET (S \cup P)
    BY DEF P
  <2> QED
    BY <1>5, <2>1, FS_Subset
<1>8. Cardinality(T) \in Nat /\ Cardinality(S \cup P) \in Nat
  BY <1>5, <1>7, FS_CardinalityType
<1> QED
  BY <1>1, <1>2, <1>4, <1>5, <1>6, <1>7, <1>8

(* fork: the child holds what its parent holds, and is counted for it.     *)
LEMMA ForkRight ==
    ASSUME IInv, NEW parent \in User, NEW child \in User, do_fs_fork(parent, child)
    PROVE  IInv' /\ FilesSteady
<1>1. halted = "no" /\ Kinds /\ Sound(Tables) /\ Counted
  BY DEF IInv, do_fs_fork, MmIdle
<1>2. /\ child \notin alive /\ parent \in alive
      /\ open_file' = [open_file EXCEPT ![child] = open_file[parent]]
      /\ file' = [f \in Slot |-> [file[f] EXCEPT !.count = file[f].count + Refs(parent, f)]]
      /\ inode' = [s \in ISlot |-> [inode[s] EXCEPT !.count = inode[s].count + IRefs(parent, s)]]
      /\ alive' = alive \cup {child} /\ disk' = disk /\ halted' = halted
  BY DEF do_fs_fork
<1>3. child \in Proc /\ parent \in Proc
  BY Params
<1>4. /\ open_file \in [Proc -> [Fd -> Slot \cup {NIL}]]
      /\ file \in [Slot -> [count : Nat, inode : ISlot \cup {NIL}]]
      /\ inode \in [ISlot -> Inode] /\ disk \in Disk
  BY <1>1 DEF Kinds, Tables, TablesKind
<1> DEFINE K(f) == {fd \in Fd : open_file[parent][fd] = f}
<1> DEFINE L(s) == {fd \in Fd : open_file[parent][fd] # NIL /\ file[open_file[parent][fd]].inode = s}
<1>5. /\ \A f \in Slot : Refs(parent, f) = Cardinality(K(f))
      /\ \A s \in ISlot : IRefs(parent, s) = Cardinality(L(s))
      /\ \A f : K(f) \in SUBSET Fd
      /\ \A s : L(s) \in SUBSET Fd
  BY DEF Refs, IRefs
<1>6. /\ \A q \in Proc : q # child => open_file'[q] = open_file[q]
      /\ open_file'[child] = open_file[parent]
      /\ open_file' \in [Proc -> [Fd -> Slot \cup {NIL}]]
  BY <1>2, <1>3, <1>4
<1>7. \A f \in Slot : FileHolders(f)' \in SUBSET (FileHolders(f) \cup Of(child, K(f)))
  <2>1. ASSUME NEW f \in Slot, NEW e \in FileHolders(f)'
        PROVE  e \in FileHolders(f) \cup Of(child, K(f))
    <3>1. e \in Proc \X Fd /\ open_file'[e[1]][e[2]] = f
      BY <2>1 DEF FileHolders
    <3>2. PICK q \in Proc, k \in Fd : e = <<q, k>>
      BY <3>1
    <3>3. CASE q = child
      <4>1. k \in K(f)
        BY <1>6, <3>1, <3>2, <3>3
      <4> QED
        BY <3>2, <3>3, <4>1 DEF Of
    <3>4. CASE q # child
      BY <1>6, <3>1, <3>2, <3>4 DEF FileHolders
    <3> QED
      BY <3>3, <3>4
  <2> QED
    BY <2>1
<1>8. \A f \in Slot : /\ file'[f].count = file[f].count + Refs(parent, f)
                      /\ file'[f].inode = file[f].inode
  BY <1>2, <1>4
<1>9. \A s \in ISlot : InodeHolders(s)' \in SUBSET (InodeHolders(s) \cup Of(child, L(s)))
  <2>1. ASSUME NEW s \in ISlot, NEW e \in InodeHolders(s)'
        PROVE  e \in InodeHolders(s) \cup Of(child, L(s))
    <3>1. /\ e \in Proc \X Fd /\ open_file'[e[1]][e[2]] # NIL
          /\ file'[open_file'[e[1]][e[2]]].inode = s
      BY <2>1 DEF InodeHolders
    <3>2. PICK q \in Proc, k \in Fd : e = <<q, k>>
      BY <3>1
    <3>3. open_file'[q][k] \in Slot /\ file[open_file'[q][k]].inode = s
      BY <1>6, <1>8, <3>1, <3>2
    <3>4. CASE q = child
      <4>1. k \in L(s)
        BY <1>6, <3>1, <3>2, <3>3, <3>4
      <4> QED
        BY <3>2, <3>4, <4>1 DEF Of
    <3>5. CASE q # child
      BY <1>6, <3>1, <3>2, <3>3, <3>5 DEF InodeHolders
    <3> QED
      BY <3>4, <3>5
  <2> QED
    BY <2>1
<1>10. \A s \in ISlot : L(s) # {} => Held(Tables, s)
  <2>1. ASSUME NEW s \in ISlot, NEW k \in L(s) PROVE InodeHolders(s) # {}
    <3>1. <<parent, k>> \in InodeHolders(s)
      BY <1>3, <2>1 DEF InodeHolders
    <3> QED
      BY <3>1
  <2> QED
    BY <1>1, <2>1, NobodyHolds
<1> HIDE DEF K, L
<1>11. /\ \A f \in Slot : Refs(parent, f) \in Nat
       /\ \A s \in ISlot : IRefs(parent, s) \in Nat /\ (L(s) = {} => IRefs(parent, s) = 0)
  <2>1. {} \in SUBSET (Proc \X Fd) /\ \A k : {} \in SUBSET ({} \cup Of(child, k))
    OBVIOUS
  <2>2. \A k \in SUBSET Fd : Cardinality(k) \in Nat
    BY <1>3, <2>1, HoldersMore
  <2> QED
    BY <1>5, <2>2, FS_EmptySet
<1>12. /\ file' \in [Slot -> [count : Nat, inode : ISlot \cup {NIL}]]
  <2>1. \A f \in Slot : [file[f] EXCEPT !.count = file[f].count + Refs(parent, f)]
                            \in [count : Nat, inode : ISlot \cup {NIL}]
    BY <1>4, <1>11
  <2> QED
    BY <1>2, <2>1
<1>13. \A s \in ISlot :
          /\ inode'[s] \in Inode /\ inode'[s].count = inode[s].count + IRefs(parent, s)
          /\ inode'[s].num = inode[s].num /\ inode'[s].mode = inode[s].mode
          /\ OnDisk(inode'[s]) = OnDisk(inode[s]) /\ inode[s].count \in Int
  BY <1>2, <1>4, <1>11 DEF Inode, OnDisk
<1>14. inode' \in [ISlot -> Inode]
  BY <1>2, <1>13
<1>15. Tables'.inode = inode' /\ Tables'.disk = disk /\ Tables' \in TablesKind
  BY <1>2, <1>4, <1>14 DEF Tables, TablesKind
<1>16. Kinds'
  BY <1>1, <1>2, <1>6, <1>12, <1>15 DEF Kinds
<1>17. Tables.inode = inode /\ Tables.disk = disk
  BY DEF Tables
<1>18. \A s \in ISlot : Held(Tables', s) <=> Held(Tables, s)
  BY <1>10, <1>11, <1>13, <1>15, <1>17 DEF Held
<1>19. Sound(Tables')
  <2>1. RootKept(Tables')
    BY <1>1, <1>13, <1>15, <1>17, Params DEF Sound, RootKept
  <2>2. MemoryRight(Tables')
    BY <1>1, <1>13, <1>15, <1>17, <1>18 DEF Sound, MemoryRight
  <2> QED
    BY <1>1, <1>15, <1>17, <2>1, <2>2 DEF Sound
<1>20. Counted'
  <2>1. ASSUME NEW f \in Slot
        PROVE  /\ file'[f].count >= Cardinality(FileHolders(f)')
               /\ file'[f].count > 0 => file'[f].inode # NIL
    <3>1. /\ FileHolders(f) \in SUBSET (Proc \X Fd) /\ K(f) \in SUBSET Fd
          /\ FileHolders(f)' \in SUBSET (FileHolders(f) \cup Of(child, K(f)))
      BY <1>1, <1>5, <1>7, NobodyHolds
    <3>2. /\ Cardinality(FileHolders(f)') \in Nat /\ Cardinality(FileHolders(f)) \in Nat
          /\ Cardinality(K(f)) \in Nat
          /\ Cardinality(FileHolders(f)') <= Cardinality(FileHolders(f)) + Cardinality(K(f))
      BY <1>3, <3>1, HoldersMore
    <3>3. /\ file[f].count >= Cardinality(FileHolders(f)) /\ file[f].count \in Nat
          /\ file[f].count > 0 => file[f].inode # NIL
      BY <1>1, <1>4 DEF Counted
    <3>4. Refs(parent, f) > 0 => file[f].count > 0
      <4>1. ASSUME K(f) # {} PROVE FileHolders(f) # {}
        <5>1. PICK k \in Fd : open_file[parent][k] = f
          BY <4>1 DEF K
        <5>2. <<parent, k>> \in FileHolders(f)
          BY <1>3, <5>1 DEF FileHolders
        <5> QED
          BY <5>2
      <4>2. K(f) = {} => Refs(parent, f) = 0
        BY <1>5, FS_EmptySet
      <4> QED
        BY <1>1, <4>1, <4>2, NobodyHolds
    <3>5. Refs(parent, f) = Cardinality(K(f))
      BY <1>5
    <3> QED
      BY <1>8, <3>2, <3>3, <3>4, <3>5
  <2>2. ASSUME NEW s \in ISlot \ {RootSlot} PROVE inode'[s].count >= Cardinality(InodeHolders(s)')
    <3>1. /\ InodeHolders(s) \in SUBSET (Proc \X Fd) /\ L(s) \in SUBSET Fd
          /\ InodeHolders(s)' \in SUBSET (InodeHolders(s) \cup Of(child, L(s)))
      BY <1>1, <1>5, <1>9, NobodyHolds
    <3>2. /\ Cardinality(InodeHolders(s)') \in Nat /\ Cardinality(InodeHolders(s)) \in Nat
          /\ Cardinality(L(s)) \in Nat
          /\ Cardinality(InodeHolders(s)') <= Cardinality(InodeHolders(s)) + Cardinality(L(s))
      BY <1>3, <3>1, HoldersMore
    <3>3. inode[s].count >= Cardinality(InodeHolders(s)) /\ inode[s].count \in Int
      BY <1>1, <1>13 DEF Counted
    <3>4. IRefs(parent, s) = Cardinality(L(s)) /\ inode'[s].count = inode[s].count + IRefs(parent, s)
      BY <1>5, <1>13
    <3> QED
      BY <3>2, <3>3, <3>4
  <2> QED
    BY <2>1, <2>2 DEF Counted
<1>21. FilesSteady
  BY <1>8, <1>13 DEF FilesSteady
<1> QED
  BY <1>16, <1>19, <1>20, <1>21 DEF IInv

(* exit closes the descriptors of the memory manager, which has none.      *)
LEMMA ExitRight ==
    ASSUME IInv, NEW p \in User, do_fs_exit(p)
    PROVE  IInv' /\ FilesSteady
<1>1. halted = "no" /\ Kinds /\ Sound(Tables) /\ Counted
  BY DEF IInv, do_fs_exit, MmIdle
<1>2. /\ \A fd \in Fd : open_file[MM][fd] = NIL
      /\ file' = [f \in Slot |-> [file[f] EXCEPT !.count = file[f].count - Refs(MM, f)]]
      /\ inode' = [s \in ISlot |-> [inode[s] EXCEPT !.count = inode[s].count - IRefs(MM, s)]]
      /\ open_file' = [open_file EXCEPT ![MM] = [fd \in Fd |-> NIL]]
      /\ alive' = alive \ {p} /\ disk' = disk /\ halted' = halted
  BY DEF do_fs_exit, MmIdle
<1>3. /\ open_file \in [Proc -> [Fd -> Slot \cup {NIL}]]
      /\ file \in [Slot -> [count : Nat, inode : ISlot \cup {NIL}]]
      /\ inode \in [ISlot -> Inode] /\ alive \subseteq User
  BY <1>1 DEF Kinds, Tables, TablesKind
<1>4. /\ \A f \in Slot : Refs(MM, f) = 0
      /\ \A s \in ISlot : IRefs(MM, s) = 0
  <2>1. \A f \in Slot : {fd \in Fd : open_file[MM][fd] = f} = {}
    BY <1>2, Params
  <2>2. \A s \in ISlot : {fd \in Fd : open_file[MM][fd] # NIL /\ file[open_file[MM][fd]].inode = s} = {}
    BY <1>2
  <2>3. Cardinality({}) = 0
    BY FS_EmptySet
  <2> QED
    BY <2>1, <2>2, <2>3 DEF Refs, IRefs
<1>5. file' = file
  <2>1. \A f \in Slot : [file[f] EXCEPT !.count = file[f].count - Refs(MM, f)] = file[f]
    BY <1>3, <1>4
  <2> QED
    BY <1>2, <1>3, <2>1
<1>6. inode' = inode
  <2>1. \A s \in ISlot : [inode[s] EXCEPT !.count = inode[s].count - IRefs(MM, s)] = inode[s]
    BY <1>3, <1>4 DEF Inode
  <2> QED
    BY <1>2, <1>3, <2>1
<1>7. open_file' = open_file
  <2>1. [fd \in Fd |-> NIL] = open_file[MM]
    BY <1>2, <1>3, Params
  <2> QED
    BY <1>2, <1>3, <2>1, Params
<1>8. Kinds' /\ Tables' = Tables
  BY <1>1, <1>2, <1>5, <1>6, <1>7 DEF Kinds, Tables
<1>9. Counted'
  BY <1>1, <1>5, <1>6, <1>7 DEF Counted, FileHolders, InodeHolders
<1>10. FilesSteady
  BY <1>5, <1>6 DEF FilesSteady
<1> QED
  BY <1>1, <1>2, <1>8, <1>9, <1>10 DEF IInv

-----------------------------------------------------------------------------
(* The invariant, and what follows from it                                 *)

(* Requests are taken only while the file system runs.                     *)
LEMMA NextRuns == Next => halted = "no"
BY ZenonT(60) DEF Next, open_full, open_existing, open_inconsistent, open_refused, open_absent, create_fails,
       Creates, open_create, do_stat, unlink_absent, unlink_refused, do_unlink, open_root, stat_root,
       do_close, do_fs_fork, do_fs_exit, MmIdle, CanOpen, Running

(* Requests that change nothing.                                           *)
LEMMA NothingDone ==
    ASSUME IInv, UNCHANGED vars PROVE IInv' /\ FilesSteady
<1>1. /\ open_file' = open_file /\ file' = file /\ inode' = inode
      /\ disk' = disk /\ alive' = alive /\ halted' = halted
  BY DEF vars
<1>2. Tables' = Tables
  BY <1>1 DEF Tables
<1>3. Kinds' /\ (Counted' <=> Counted)
  BY <1>1, <1>2 DEF IInv, Kinds, Counted, FileHolders, InodeHolders
<1>4. FilesSteady
  BY <1>1 DEF FilesSteady
<1> QED
  BY <1>1, <1>2, <1>3, <1>4 DEF IInv

(* Every request keeps the tables right, and every descriptor its file.    *)
LEMMA StepInv ==
    ASSUME IInv, [Next]_vars PROVE IInv' /\ FilesSteady
<1>1. CASE UNCHANGED vars
  BY <1>1, NothingDone
<1>2. ASSUME NEW p \in User, open_full(p) PROVE IInv' /\ FilesSteady
  <2>1. UNCHANGED vars
    BY <1>2 DEF open_full
  <2> QED
    BY <2>1, NothingDone
<1>3. ASSUME NEW p \in User, NEW name \in Path \ {"/"}, NEW oflag \in Call,
             \/ open_existing(p, name, oflag)
             \/ open_inconsistent(p, name, oflag)
             \/ open_refused(p, name, oflag)
             \/ open_absent(p, name, oflag)
             \/ create_fails(p, name, oflag)
             \/ open_create(p, name, oflag)
      PROVE  IInv' /\ FilesSteady
  <2>1. name \in Name \cup {"."}
    BY <1>3, TablesAssumption
  <2>2. CASE open_existing(p, name, oflag)
    BY <2>2, OpenExistingRight
  <2>3. CASE open_inconsistent(p, name, oflag)
    BY <2>3, OpenInconsistentRight
  <2>4. CASE open_refused(p, name, oflag)
    BY <2>4, OpenRefusedRight
  <2>5. CASE open_absent(p, name, oflag)
    <3>1. UNCHANGED vars
      BY <2>5 DEF open_absent
    <3> QED
      BY <3>1, NothingDone
  <2>6. CASE create_fails(p, name, oflag)
    BY <2>6, CreateFailsRight
  <2>7. CASE open_create(p, name, oflag)
    BY <2>1, <2>7, OpenCreateRight
  <2> QED
    BY <1>3, <2>2, <2>3, <2>4, <2>5, <2>6, <2>7
<1>4. ASSUME NEW p \in User, NEW name \in Path \ {"/"},
             do_stat(p, name) \/ unlink_absent(p, name) \/ unlink_refused(p, name) \/ do_unlink(p, name)
      PROVE  IInv' /\ FilesSteady
  <2>1. CASE do_stat(p, name)
    BY <2>1, StatRight
  <2>2. CASE unlink_absent(p, name)
    <3>1. UNCHANGED vars
      BY <2>2 DEF unlink_absent
    <3> QED
      BY <3>1, NothingDone
  <2>3. CASE unlink_refused(p, name)
    BY <2>3, UnlinkRefusedRight
  <2>4. CASE do_unlink(p, name)
    BY <2>4, UnlinkRight
  <2> QED
    BY <1>4, <2>1, <2>2, <2>3, <2>4
<1>5. ASSUME NEW p \in User, NEW oflag \in RootCalls, open_root(p, oflag)
      PROVE  IInv' /\ FilesSteady
  BY <1>5, OpenRootRight
<1>6. ASSUME NEW p \in User, stat_root(p) PROVE IInv' /\ FilesSteady
  BY <1>6, StatRootRight
<1>7. ASSUME NEW p \in User, NEW fd \in Fd, do_close(p, fd) PROVE IInv' /\ FilesSteady
  BY <1>7, CloseRight
<1>8. ASSUME NEW p \in User, NEW q \in User, do_fs_fork(p, q) PROVE IInv' /\ FilesSteady
  BY <1>8, ForkRight
<1>9. ASSUME NEW p \in User, do_fs_exit(p) PROVE IInv' /\ FilesSteady
  BY <1>9, ExitRight
<1> QED
  BY <1>1, <1>2, <1>3, <1>4, <1>5, <1>6, <1>7, <1>8, <1>9 DEF Next

(* As long as the file system runs, its tables in memory and on the disk   *)
(* are sound and its descriptors are counted.                              *)
THEOREM TablesStaySound == Spec => []IInv
<1>1. Init => IInv
  BY InitInv
<1>2. IInv /\ [Next]_vars => IInv'
  BY StepInv
<1> QED
  BY <1>1, <1>2, PTL DEF Spec

(* Every table, and all that is on the disk, holds values of its kind.     *)
THEOREM TablesTyped == Spec => []TypeOK
<1>1. IInv => TypeOK
  <2> SUFFICES ASSUME IInv PROVE TypeOK
    OBVIOUS
  <2>1. Kinds
    BY DEF IInv
  <2>2. Tables.inode = inode /\ Tables.disk = disk /\ Tables \in TablesKind
    BY <2>1 DEF Kinds, Tables
  <2>3. \A s \in ISlot : inode[s].count \in Int /\ inode[s].num \in 0 .. NR_BITS - 1
    BY <2>1, CountKinds
  <2>4. /\ disk.imap \subseteq 0 .. NR_BITS - 1 /\ disk.smap \subseteq 0 .. NR_SECTS - 1
        /\ disk.ino \in [Num -> DInode] /\ disk.dir \in [1 .. MaxEntries -> Entry]
    BY <2>2, DiskParts, KindParts
  <2>5. \A n \in 0 .. NR_BITS - 1 : n \in Num \cup {0}
    BY Params
  <2> QED
    BY <2>1, <2>3, <2>4, <2>5 DEF Kinds, TypeOK
<1> QED
  BY <1>1, TablesStaySound, PTL

(* Slots of open files and of inodes are counted at least as often as      *)
(* descriptors lead to them, and lead to an inode that the disk has.       *)
THEOREM DescriptorsAlwaysBacked == Spec => []DescriptorsBacked
<1>1. IInv => DescriptorsBacked
  <2> SUFFICES ASSUME IInv, halted = "no" PROVE
          /\ \A f \in Slot : file[f].count >= Cardinality(FileHolders(f))
          /\ \A s \in ISlot \ {RootSlot} : inode[s].count >= Cardinality(InodeHolders(s))
          /\ \A p \in Proc, fd \in Fd : open_file[p][fd] # NIL =>
                LET s == file[open_file[p][fd]].inode
                IN  s # NIL /\ inode[s].num \in disk.imap /\ inode[s].mode # "free"
    BY DEF DescriptorsBacked
  <2>1. Kinds /\ Sound(Tables) /\ Counted
    BY DEF IInv
  <2>2. Tables.inode = inode /\ Tables.disk = disk
    BY DEF Tables
  <2>3. ASSUME NEW p \in Proc, NEW fd \in Fd, open_file[p][fd] # NIL,
               NEW s, s = file[open_file[p][fd]].inode
        PROVE  s # NIL /\ inode[s].num \in disk.imap /\ inode[s].mode # "free"
    <3>1. PICK f : f = open_file[p][fd]
      OBVIOUS
    <3>2. f \in Slot
      BY <2>1, <2>3, <3>1 DEF Kinds
    <3>3. <<p, fd>> \in FileHolders(f)
      BY <3>1 DEF FileHolders
    <3>4. s \in ISlot
      BY <2>1, <2>3, <3>1, <3>2, <3>3, NobodyHolds
    <3>5. <<p, fd>> \in InodeHolders(s)
      BY <2>3 DEF InodeHolders
    <3>6. Held(Tables, s)
      BY <2>1, <3>4, <3>5, NobodyHolds
    <3> QED
      BY <2>1, <2>2, <3>4, <3>6, Params DEF Sound, MemoryRight
  <2> QED
    BY <2>1, <2>3 DEF Counted
<1> QED
  BY <1>1, TablesStaySound, PTL

(* An inode is in memory once, and as it is on the disk.                   *)
THEOREM MemoryMatchesDisk == Spec => []CacheCoherent
<1>1. IInv => CacheCoherent
  <2> SUFFICES ASSUME IInv, halted = "no" PROVE CacheCoherent
    BY DEF CacheCoherent
  <2>1. MemoryRight(Tables)
    BY DEF IInv, Sound
  <2>2. Tables.inode = inode /\ Tables.disk = disk
    BY DEF Tables
  <2> QED
    BY <2>1, <2>2 DEF CacheCoherent, MemoryRight, Held, InUse, OnDisk
<1> QED
  BY <1>1, TablesStaySound, PTL

(* All sectors of a file below the archive are marked, and no other file   *)
(* has one of them, wherever the archive is and whatever was laid over it. *)
THEOREM SectorsNeverShared == Spec => []SectorsExclusive
<1>1. IInv => SectorsExclusive
  <2> SUFFICES ASSUME IInv, halted = "no", NEW m \in Files, BelowArchive(m)
               PROVE  /\ Run(disk.ino[m].start) \subseteq disk.smap
                      /\ \A n \in Files \ {m} : Run(disk.ino[m].start) \cap Run(disk.ino[n].start) = {}
    BY DEF SectorsExclusive
  <2>1. SectorsRight(disk)
    BY DEF IInv, Sound, Tables
  <2>2. Files = FilesOf(disk)
    BY DEF Files, FilesOf
  <2>3. \A n \in Files : disk.ino[n].start \in LowBlocks \cap disk.smap \/ High(disk.ino[n].start)
    BY <2>1, <2>2 DEF SectorsRight
  <2>4. disk.ino[m].start \in LowBlocks \cap disk.smap
    BY <2>3, HighApart, RootIsLow DEF BelowArchive
  <2>5. Run(disk.ino[m].start) \subseteq disk.smap
    BY <2>1, <2>4 DEF SectorsRight
  <2>6. ASSUME NEW n \in Files \ {m} PROVE Run(disk.ino[m].start) \cap Run(disk.ino[n].start) = {}
    <3>1. disk.ino[m].start # disk.ino[n].start
      BY <2>1, <2>2, <2>4, <2>6 DEF SectorsRight
    <3>2. CASE disk.ino[n].start \in LowBlocks
      <4>1. disk.ino[m].start \in Blocks /\ disk.ino[n].start \in Blocks
        BY <2>4, <3>2 DEF LowBlocks
      <4> QED
        BY <3>1, <4>1, BlocksApart
    <3>3. CASE High(disk.ino[n].start)
      BY <2>4, <3>3, HighApart
    <3> QED
      BY <2>3, <3>2, <3>3
  <2> QED
    BY <2>5, <2>6
<1> QED
  BY <1>1, TablesStaySound, PTL

(* The entries that a search meets name inodes in use, each its own.       *)
THEOREM EntriesAlwaysAllocated == Spec => []EntriesAllocated
<1>1. IInv => EntriesAllocated
  <2> SUFFICES ASSUME IInv, halted = "no" PROVE EntriesAllocated
    BY DEF EntriesAllocated
  <2>1. Sound(Tables) /\ Tables \in TablesKind
    BY DEF IInv, Sound
  <2>2. Tables.disk = disk
    BY DEF Tables
  <2>3. Seen(Tables) \subseteq 1 .. MaxEntries
    <3>1. NrEntries(Tables) \in Nat
      BY <2>1, InodeKinds, Params DEF NrEntries
    <3> DEFINE E == {NrEntries(Tables) + 1, MaxEntries}
    <3>2. E \in SUBSET Nat /\ E # {} /\ MaxEntries \in E
      BY <3>1, Params
    <3> HIDE DEF E
    <3>3. Min(E) \in Nat /\ Min(E) <= MaxEntries
      BY <3>2, MinIsLeast
    <3>4. \A i \in 1 .. Min(E) : i \in 1 .. MaxEntries
      BY <3>3, Params
    <3> QED
      BY <3>4 DEF Seen, E
  <2>4. \A i \in 1 .. MaxEntries : EntryRight(disk, i)
    BY <2>1, <2>2 DEF Sound
  <2> QED
    BY <2>3, <2>4 DEF EntriesAllocated, EntryRight
<1> QED
  BY <1>1, TablesStaySound, PTL

(* A descriptor that stays open stays on its file.                         *)
THEOREM DescriptorsKeepTheirFile == Spec => DescriptorsStable
<1> DEFINE Stable == \A p \in Proc, fd \in Fd :
                        /\ halted' = "no"
                        /\ open_file[p][fd] # NIL /\ open_file'[p][fd] = open_file[p][fd]
                        => FileOf(p, fd)' = FileOf(p, fd)
<1> DEFINE Backed ==
             /\ \A f \in Slot : FileHolders(f) # {} => file[f].count > 0
             /\ \A s \in ISlot : InodeHolders(s) # {} => Held(Tables, s)
<1>1. Kinds /\ Counted => Backed
  BY NobodyHolds
<1>2. Kinds' /\ Counted' => Backed'
  BY <1>1, PTL
<1> HIDE DEF Backed
<1>3. IInv /\ [Next]_vars => [Stable]_vars
  <2> SUFFICES ASSUME IInv, Next, halted' = "no", NEW p \in Proc, NEW fd \in Fd,
                      open_file[p][fd] # NIL, open_file'[p][fd] = open_file[p][fd]
               PROVE  FileOf(p, fd)' = FileOf(p, fd)
    OBVIOUS
  <2>1. IInv' /\ FilesSteady /\ halted = "no"
    BY StepInv, NextRuns
  <2>2. Kinds /\ Counted /\ Kinds' /\ Counted'
    BY <2>1 DEF IInv
  <2>3. PICK f : f = open_file[p][fd]
    OBVIOUS
  <2>4. f \in Slot /\ open_file'[p][fd] = f /\ f # NIL
    <3>1. open_file[p][fd] \in Slot \cup {NIL}
      <4>1. open_file \in [Proc -> [Fd -> Slot \cup {NIL}]]
        BY <2>2 DEF Kinds
      <4> QED
        BY <4>1
    <3>2. open_file[p][fd] # NIL /\ open_file'[p][fd] = open_file[p][fd]
      OBVIOUS
    <3> QED
      BY <2>3, <3>1, <3>2
  <2>5. <<p, fd>> \in FileHolders(f) /\ <<p, fd>> \in FileHolders(f)'
    BY <2>3, <2>4 DEF FileHolders
  <2>6. PICK s : s = file[f].inode
    OBVIOUS
  <2>7. file[f].count > 0 /\ s \in ISlot
    BY <2>2, <2>4, <2>5, <2>6, NobodyHolds
  <2>8. file'[f].count > 0
    <3>1. \A g \in Slot : FileHolders(g)' # {} => file'[g].count > 0
      BY <1>2, <2>2 DEF Backed
    <3> QED
      BY <2>4, <2>5, <3>1
  <2>9. file'[f].inode = s
    BY <2>1, <2>4, <2>6, <2>7, <2>8 DEF FilesSteady
  <2>10. <<p, fd>> \in InodeHolders(s) /\ <<p, fd>> \in InodeHolders(s)'
    BY <2>3, <2>4, <2>6, <2>9 DEF InodeHolders
  <2>11. Held(Tables, s)
    BY <2>2, <2>7, <2>10, NobodyHolds
  <2>12. Held(Tables, s)'
    <3>1. \A r \in ISlot : InodeHolders(r)' # {} => Held(Tables, r)'
      BY <1>2, <2>2 DEF Backed
    <3> QED
      BY <2>7, <2>10, <3>1
  <2>13. inode'[s].num = inode[s].num
    BY <2>1, <2>7, <2>11, <2>12 DEF FilesSteady
  <2> QED
    BY <2>3, <2>4, <2>6, <2>9, <2>13 DEF FileOf
<1>4. DescriptorsStable <=> [][Stable]_vars
  BY DEF DescriptorsStable
<1> HIDE DEF Stable
<1> QED
  BY <1>3, <1>4, TablesStaySound, PTL DEF Spec

------------------------------------------------------------------------------
(* Reading and writing (ReadWrite).  When the buffer holds a whole file,   *)
(* as the code's does, a request of less than a file takes one turn of the *)
(* loop of read_write; so what it takes from the disk or leaves there is a *)
(* matter of where its bytes lie, and the invariant is that the disk holds *)
(* every file's contents at its place, wherever something is promised.     *)

(* What division and remainder are, and how products and quotients order.  *)
LEMMA DivisionFacts ==
  ASSUME NEW a \in Nat, NEW b \in Nat \ {0}
  PROVE  /\ a \div b \in Nat /\ a % b \in 0 .. b - 1
         /\ a = (a \div b) * b + (a % b)
OBVIOUS

LEMMA ProductGrows ==
  ASSUME NEW a \in Int, NEW b \in Int, a <= b, NEW c \in Nat
  PROVE  a * c <= b * c /\ a * c \in Int /\ b * c \in Int
OBVIOUS

LEMMA QuotientBelow ==
  ASSUME NEW a \in Nat, NEW b \in Nat \ {0}, NEW m \in Nat, a < m * b
  PROVE  a \div b < m
<1> DEFINE q == a \div b
<1>1. q \in Nat /\ q * b <= a
  BY DivisionFacts
<1> HIDE DEF q
<1>2. m <= q => m * b <= q * b
  BY <1>1, ProductGrows
<1>3. m * b \in Nat /\ q * b \in Nat
  BY <1>1
<1>4. q < m
  BY <1>1, <1>2, <1>3
<1> QED BY <1>4 DEF q

LEMMA QuotientsInOrder ==
  ASSUME NEW a \in Nat, NEW c \in Nat, a <= c, NEW b \in Nat \ {0}
  PROVE  a \div b <= c \div b
<1> DEFINE q == a \div b
           r == c \div b
<1>1. q \in Nat /\ r \in Nat /\ q * b <= a /\ a < r * b + b
  <2>1. c < r * b + b /\ r \in Nat
    BY DivisionFacts
  <2> QED BY <2>1, DivisionFacts
<1> HIDE DEF q, r
<1>2. r + 1 <= q => (r + 1) * b <= q * b
  BY <1>1, ProductGrows
<1>3. (r + 1) * b = r * b + b /\ r * b \in Nat /\ q * b \in Nat
  BY <1>1
<1>4. q <= r
  BY <1>1, <1>2, <1>3
<1> QED BY <1>4 DEF q, r

(* The loop of read_write, its turns counted from 0.                       *)
Loop(reading, chunk, first, s, rounds) ==
    FoldLeft(LAMBDA t, k : Round(reading, chunk, t, first + (k - 1) * chunk), s,
             [k \in 1 .. rounds + 1 |-> k])

(* A fold over <<1>> is one application: there is the function that the    *)
(* definition of FoldLeft chooses, and it has that value.                  *)
LEMMA OneRound ==
  ASSUME NEW reading, NEW chunk, NEW first, NEW s, NEW rounds, rounds = 0
  PROVE  Loop(reading, chunk, first, s, rounds) = Round(reading, chunk, s, first + (1 - 1) * chunk)
<1> DEFINE one == [k \in 1 .. rounds + 1 |-> k]
           op(x, k) == Round(reading, chunk, x, first + (k - 1) * chunk)
           IsFold(r) == r = [x \in SUBSET DOMAIN one |->
                               IF x = {} THEN s ELSE op(r[x \ {Max(x)}], one[Max(x)])]
           fold == [x \in SUBSET DOMAIN one |-> IF x = {} THEN s ELSE op(s, 1)]
<1>1. DOMAIN one = {1} /\ one[1] = 1
  OBVIOUS
<1>2. SUBSET DOMAIN one = {{}, {1}}
  BY <1>1
<1>3. Max({1}) = 1
  BY DEF Max
<1>4. IsFold(fold)
  <2>1. fold[{}] = s
    BY <1>2
  <2> HIDE DEF op
  <2>2. ASSUME NEW x \in SUBSET DOMAIN one
        PROVE  fold[x] = IF x = {} THEN s ELSE op(fold[x \ {Max(x)}], one[Max(x)])
    <3>1. CASE x = {}
      BY <3>1, <2>1
    <3>2. CASE x = {1}
      <4>1. fold[x] = op(s, 1)
        BY <3>2
      <4>2. x \ {Max(x)} = {} /\ one[Max(x)] = 1
        BY <1>1, <1>3, <3>2
      <4> QED BY <4>1, <4>2, <2>1, <3>2
    <3> QED BY <1>2, <3>1, <3>2
  <2> QED BY <2>2
<1>5. PICK r : IsFold(r) /\ Loop(reading, chunk, first, s, rounds) = r[DOMAIN one]
  BY <1>4 DEF Loop, FoldLeft, MapThenFoldSet
<1> HIDE DEF IsFold
<1>6. r[{}] = s
  BY <1>5, <1>2 DEF IsFold
<1>7. r[{1}] = op(r[{1} \ {Max({1})}], one[Max({1})])
  <2> HIDE DEF op, one
  <2> QED BY <1>5, <1>2 DEF IsFold
<1>8. {1} \ {Max({1})} = {} /\ one[Max({1})] = 1
  BY <1>1, <1>3
<1>9. r[{1}] = op(s, 1)
  <2> HIDE DEF op, one
  <2> QED BY <1>6, <1>7, <1>8
<1> QED BY <1>5, <1>9, <1>1

Total == Cardinality(File) * CAPACITY + SECTOR

(* The bytes of a file lie on the disk one behind the other.               *)
Place(f, i) == f * CAPACITY + i - 1

(* The invariant: ReadsBack said of the disk itself.                       *)
ContentsInv ==
    /\ sectors \in [0 .. Total - 1 -> Byte]
    /\ fs_buffer \in [0 .. BUFFER * SECTOR - 1 -> Byte]
    /\ size \in [File -> 0 .. CAPACITY - 1]
    /\ pos \in [File -> Nat]
    /\ content \in [File -> Seq(Byte \cup {Unsaid})]
    /\ \A f \in File :
          /\ pos[f] <= size[f] /\ Len(content[f]) = size[f]
          /\ \A i \in 1 .. size[f] : content[f][i] \in {sectors[Place(f, i)], Unsaid}

(* The sectors that a request of n bytes takes.                            *)
Span(f, n) == ((pos[f] + n) \div SECTOR) - (pos[f] \div SECTOR) + 1

(* What the assumptions say of the sizes.                                  *)
LEMMA SizesAreNumbers ==
  /\ SECTOR \in Nat \ {0, 1} /\ SECTS \in Nat \ {0} /\ BUFFER \in Nat \ {0} /\ CAPACITY \in Nat \ {0}
  /\ Cardinality(File) \in Nat /\ Total \in Nat /\ File \subseteq Nat
<1>1. SECTOR \in Nat \ {0, 1} /\ SECTS \in Nat \ {0} /\ BUFFER \in Nat \ {0}
  BY SizesAssumption
<1>2. CAPACITY \in Nat \ {0}
  BY <1>1 DEF CAPACITY
<1>3. Cardinality(File) \in Nat
  BY SizesAssumption, FS_CardinalityType
<1>4. File \subseteq Nat
  BY <1>3, SizesAssumption
<1>5. Cardinality(File) * CAPACITY \in Nat
  BY <1>2, <1>3
<1> QED BY <1>1, <1>2, <1>3, <1>4, <1>5 DEF Total

(* A file's bytes lie within the disk, and no two files meet.              *)
LEMMA FilesApart ==
  ASSUME NEW f \in File
  PROVE  /\ f * CAPACITY \in Nat /\ f * CAPACITY + CAPACITY + SECTOR <= Total
         /\ \A g \in File : f < g => f * CAPACITY + CAPACITY <= g * CAPACITY
<1>1. f + 1 <= Cardinality(File) /\ f \in Nat
  BY SizesAssumption, SizesAreNumbers
<1>2. (f + 1) * CAPACITY <= Cardinality(File) * CAPACITY
  BY <1>1, ProductGrows, SizesAreNumbers
<1>3. (f + 1) * CAPACITY = f * CAPACITY + CAPACITY /\ f * CAPACITY \in Nat
  BY <1>1, SizesAreNumbers
<1>4. ASSUME NEW g \in File, f < g
      PROVE  f * CAPACITY + CAPACITY <= g * CAPACITY
  <2>1. (f + 1) * CAPACITY <= g * CAPACITY
    BY <1>1, <1>4, ProductGrows, SizesAreNumbers
  <2> QED BY <2>1, <1>3
<1>5. Cardinality(File) * CAPACITY \in Int
  BY SizesAreNumbers
<1> QED BY <1>2, <1>3, <1>4, <1>5, SizesAreNumbers DEF Total

(* A byte of another file lies outside any stretch of this one.            *)
LEMMA NeighboursApart ==
  ASSUME NEW f \in File, NEW g \in File, f # g, NEW i \in 1 .. CAPACITY,
         NEW from \in Int, NEW to \in Int, f * CAPACITY <= from, to <= f * CAPACITY + CAPACITY
  PROVE  Place(g, i) \in 0 .. Total - 1 /\ (Place(g, i) < from \/ Place(g, i) >= to)
<1>1. /\ g * CAPACITY \in Nat /\ g * CAPACITY + CAPACITY + SECTOR <= Total
      /\ f * CAPACITY \in Nat
      /\ g < f => g * CAPACITY + CAPACITY <= f * CAPACITY
      /\ f < g => f * CAPACITY + CAPACITY <= g * CAPACITY
  BY FilesApart
<1>2. Place(g, i) \in Int /\ Place(g, i) >= g * CAPACITY /\ Place(g, i) < g * CAPACITY + CAPACITY
  BY <1>1, SizesAreNumbers DEF Place
<1>3. Place(g, i) \in 0 .. Total - 1
  BY <1>1, <1>2, SizesAreNumbers
<1>4. CASE g < f
  BY <1>1, <1>2, <1>3, <1>4, SizesAreNumbers
<1>5. CASE f < g
  BY <1>1, <1>2, <1>3, <1>5, SizesAreNumbers
<1> QED BY <1>4, <1>5, SizesAreNumbers

(* A request that stays below the capacity of its file: its sectors are    *)
(* the file's, they hold what is asked for, and a buffer that holds a file *)
(* holds them.                                                             *)
LEMMA SpanFits ==
  ASSUME NEW f \in File, pos[f] \in Nat, NEW n \in Nat, pos[f] + n < CAPACITY, SECTS <= BUFFER
  PROVE  /\ Span(f, n) \in 1 .. SECTS /\ Span(f, n) <= BUFFER
         /\ FirstSector(f) \in Nat
         /\ pos[f] % SECTOR \in 0 .. SECTOR - 1
         /\ FirstSector(f) * SECTOR = f * CAPACITY + pos[f] - (pos[f] % SECTOR)
         /\ Span(f, n) * SECTOR \in Nat
         /\ (pos[f] % SECTOR) + n < Span(f, n) * SECTOR
         /\ Span(f, n) * SECTOR <= BUFFER * SECTOR
         /\ FirstSector(f) * SECTOR + Span(f, n) * SECTOR <= f * CAPACITY + CAPACITY
<1> DEFINE p == pos[f]
           from == p \div SECTOR
           to == (p + n) \div SECTOR
           off == p % SECTOR
           rest == (p + n) % SECTOR
<1>1. /\ from \in Nat /\ off \in 0 .. SECTOR - 1 /\ p = from * SECTOR + off
      /\ p \in Nat /\ p + n \in Nat
  <2>1. p \in Nat /\ SECTOR \in Nat \ {0}
    BY SizesAreNumbers
  <2> HIDE DEF p
  <2>2. from \in Nat /\ off \in 0 .. SECTOR - 1 /\ p = from * SECTOR + off
    BY <2>1, DivisionFacts, Zenon
  <2> QED BY <2>1, <2>2
<1>2. to \in Nat /\ rest \in 0 .. SECTOR - 1 /\ p + n = to * SECTOR + rest
  BY <1>1, DivisionFacts, SizesAreNumbers
<1>3. from <= to
  BY <1>1, QuotientsInOrder, SizesAreNumbers
<1>4. to < SECTS
  BY <1>1, QuotientBelow, SizesAreNumbers DEF CAPACITY
<1>5. Span(f, n) = (to - from) + 1
  BY <1>1, <1>2 DEF Span
<1>6. FirstSector(f) = f * SECTS + from
  BY DEF FirstSector
<1> HIDE DEF from, to, off, rest
<1>7. f \in Nat /\ f * SECTS \in Nat /\ (f * SECTS) * SECTOR = f * CAPACITY
  BY SizesAreNumbers DEF CAPACITY
<1>8. /\ (f * SECTS + from) * SECTOR = (f * SECTS) * SECTOR + from * SECTOR
      /\ from * SECTOR \in Nat /\ to * SECTOR \in Nat /\ f * CAPACITY \in Nat
      /\ ((to - from) + 1) * SECTOR = to * SECTOR - from * SECTOR + SECTOR
  BY <1>1, <1>2, <1>7, SizesAreNumbers
<1>9. FirstSector(f) \in Nat /\ FirstSector(f) * SECTOR = f * CAPACITY + p - off
  BY <1>1, <1>6, <1>7, <1>8
<1>10. Span(f, n) \in 1 .. SECTS
  BY <1>1, <1>2, <1>3, <1>4, <1>5, SizesAreNumbers
<1>11. Span(f, n) * SECTOR = to * SECTOR - from * SECTOR + SECTOR
  BY <1>5, <1>8
<1>12. off + n < Span(f, n) * SECTOR
  BY <1>1, <1>2, <1>8, <1>11, SizesAreNumbers
<1>13. Span(f, n) * SECTOR <= BUFFER * SECTOR
  BY <1>10, ProductGrows, SizesAreNumbers
<1>14. (to + 1) * SECTOR <= CAPACITY /\ (to + 1) * SECTOR = to * SECTOR + SECTOR
  <2>1. (to + 1) * SECTOR <= SECTS * SECTOR
    BY <1>2, <1>4, ProductGrows, SizesAreNumbers
  <2> QED BY <2>1, <1>2, SizesAreNumbers DEF CAPACITY
<1>15. FirstSector(f) * SECTOR + Span(f, n) * SECTOR <= f * CAPACITY + CAPACITY
  BY <1>1, <1>8, <1>9, <1>11, <1>14, SizesAreNumbers
<1>16. Span(f, n) * SECTOR \in Nat
  BY <1>10, SizesAreNumbers
<1> QED BY <1>1, <1>9, <1>10, <1>12, <1>13, <1>15, <1>16, SizesAreNumbers DEF p, off

(* Such a request takes one turn of the loop.                              *)
LEMMA OneTransfer ==
  ASSUME NEW f \in File, pos[f] \in Nat, NEW n \in Nat, NEW reading \in BOOLEAN, NEW bytes,
         pos[f] + n < CAPACITY, SECTS <= BUFFER,
         Limit(f, reading) \in Nat, pos[f] + n <= Limit(f, reading)
  PROVE  read_write(f, reading, bytes, n) =
            Round(reading, Span(f, n),
                  [disk |-> sectors, buffer |-> fs_buffer, bytes |-> bytes,
                   off |-> pos[f] % SECTOR, done |-> 0, left |-> n],
                  FirstSector(f))
<1> DEFINE first == FirstSector(f)
           last == LastSector(f, reading, n)
           s == [disk |-> sectors, buffer |-> fs_buffer, bytes |-> bytes,
                 off |-> pos[f] % SECTOR, done |-> 0, left |-> n]
<1>1. Least(pos[f] + n, Limit(f, reading)) = pos[f] + n
  BY DEF Least
<1>2. (last - first) + 1 = Span(f, n)
  <2>1. f * SECTS \in Nat /\ pos[f] \div SECTOR \in Nat /\ (pos[f] + n) \div SECTOR \in Nat
    BY SizesAreNumbers
  <2>2. last = f * SECTS + ((pos[f] + n) \div SECTOR)
    BY <1>1 DEF LastSector
  <2> QED BY <2>1, <2>2 DEF FirstSector, Span
<1>3. Span(f, n) \in 1 .. SECTS /\ Span(f, n) <= BUFFER /\ first \in Nat
  BY SpanFits
<1>4. Least((last - first) + 1, BUFFER) = Span(f, n)
  BY <1>2, <1>3, SizesAreNumbers DEF Least
<1>5. last - first = Span(f, n) - 1
  <2>1. last \in Int
    <3>1. f * SECTS \in Nat /\ (pos[f] + n) \div SECTOR \in Nat
      BY SizesAreNumbers
    <3> QED BY <1>1, <3>1 DEF LastSector
  <2> QED BY <2>1, <1>2, <1>3, SizesAreNumbers
<1>6. (last - first) \div Span(f, n) = 0
  <2>1. ASSUME NEW k \in Nat \ {0} PROVE (k - 1) \div k = 0
    BY <2>1
  <2> QED BY <1>3, <1>5, <2>1, SizesAreNumbers
<1>7. first + (1 - 1) * Span(f, n) = first
  BY <1>3, SizesAreNumbers
<1> DEFINE chunk == Least((last - first) + 1, BUFFER)
           rounds == (last - first) \div chunk
<1>8. read_write(f, reading, bytes, n) =
         Loop(reading, chunk, first, s, rounds)
  BY DEF read_write, Loop
<1>9. chunk = Span(f, n) /\ rounds = 0
  BY <1>4, <1>6
<1> HIDE DEF first, last, s, chunk, rounds
<1>10. read_write(f, reading, bytes, n) = Round(reading, chunk, s, first + (1 - 1) * chunk)
  BY <1>8, <1>9, OneRound
<1>11. read_write(f, reading, bytes, n) = Round(reading, Span(f, n), s, first)
  BY <1>7, <1>9, <1>10
<1> QED BY <1>11 DEF s, first

(* What a read brings, and that it leaves a buffer of bytes.               *)
LEMMA ReadGives ==
  ASSUME ContentsInv, SECTS <= BUFFER, NEW f \in File, NEW n \in Nat, pos[f] + n <= size[f]
  PROVE  LET t == read_write(f, TRUE, << >>, n) IN
         /\ t.bytes = [k \in 1 .. n |-> sectors[Place(f, pos[f] + k)]]
         /\ t.buffer \in [0 .. BUFFER * SECTOR - 1 -> Byte]
         /\ t.done = n
<1> DEFINE off == pos[f] % SECTOR
           first == FirstSector(f)
           chunk == Span(f, n)
           s == [disk |-> sectors, buffer |-> fs_buffer, bytes |-> << >>, off |-> off, done |-> 0, left |-> n]
           buffer == FromDisk(s, first, chunk)
           got == Taken([s EXCEPT !.buffer = buffer], n)
<1>1. pos[f] \in Nat /\ size[f] \in 0 .. CAPACITY - 1 /\ pos[f] + n < CAPACITY
  BY SizesAreNumbers DEF ContentsInv
<1>2. read_write(f, TRUE, << >>, n) = Round(TRUE, chunk, s, first)
  <2>1. Limit(f, TRUE) = size[f]
    BY DEF Limit
  <2>2. pos[f] + n <= Limit(f, TRUE) /\ Limit(f, TRUE) \in Nat
    <3>1. pos[f] + n <= size[f] /\ size[f] \in Nat
      BY <1>1, SizesAreNumbers
    <3> QED BY <2>1, <3>1, Zenon
  <2> QED BY <1>1, <2>2, OneTransfer, Zenon
<1>3. /\ off \in 0 .. SECTOR - 1 /\ chunk * SECTOR \in Nat /\ off + n < chunk * SECTOR
      /\ chunk * SECTOR <= BUFFER * SECTOR /\ first * SECTOR = f * CAPACITY + pos[f] - off
      /\ first * SECTOR + chunk * SECTOR <= f * CAPACITY + CAPACITY
      /\ BUFFER * SECTOR \in Nat /\ first * SECTOR \in Nat
  BY <1>1, SpanFits, SizesAreNumbers
<1>4. f * CAPACITY \in Nat /\ f * CAPACITY + CAPACITY + SECTOR <= Total /\ Total \in Nat
  BY FilesApart, SizesAreNumbers
<1> HIDE DEF off, first, chunk
<1>5. Least(n, chunk * SECTOR - off) = n
  BY <1>3, SizesAreNumbers DEF Least
<1>6. buffer = [i \in 0 .. BUFFER * SECTOR - 1 |->
                   IF i < chunk * SECTOR /\ first * SECTOR + i \in 0 .. Total - 1
                   THEN sectors[first * SECTOR + i] ELSE fs_buffer[i]]
  BY DEF FromDisk, ContentsInv
<1>7. buffer \in [0 .. BUFFER * SECTOR - 1 -> Byte]
  BY <1>6 DEF ContentsInv
<1>8. got = [k \in 1 .. n |-> buffer[off + k - 1]]
  BY DEF Taken
<1> HIDE DEF buffer
<1>9. ASSUME NEW k \in 1 .. n
      PROVE  buffer[off + k - 1] = sectors[Place(f, pos[f] + k)]
  <2>1. /\ off + k - 1 \in 0 .. BUFFER * SECTOR - 1 /\ off + k - 1 < chunk * SECTOR
        /\ first * SECTOR + (off + k - 1) \in 0 .. Total - 1
        /\ first * SECTOR + (off + k - 1) = f * CAPACITY + (pos[f] + k) - 1
    BY <1>1, <1>3, <1>4, SizesAreNumbers
  <2> QED BY <1>6, <2>1 DEF Place
<1>10. got = [k \in 1 .. n |-> sectors[Place(f, pos[f] + k)]]
  BY <1>8, <1>9
<1>11. got \in Seq({sectors[Place(f, pos[f] + k)] : k \in 1 .. n})
  BY <1>10
<1>12. << >> \o got = got
  BY <1>11
<1> HIDE DEF got
<1>13. Round(TRUE, chunk, s, first) =
         Advanced([[s EXCEPT !.buffer = buffer] EXCEPT !.bytes = @ \o got], n)
  BY <1>5 DEF Round, buffer, got
<1>14. /\ Round(TRUE, chunk, s, first).bytes = << >> \o got
       /\ Round(TRUE, chunk, s, first).buffer = buffer
       /\ Round(TRUE, chunk, s, first).done = n
  <2>1. PICK u : u = [s EXCEPT !.buffer = buffer]
    OBVIOUS
  <2>2. PICK v : v = [u EXCEPT !.bytes = @ \o got]
    OBVIOUS
  <2>3. Round(TRUE, chunk, s, first) = Advanced(v, n)
    BY <1>13, <2>1, <2>2
  <2>4. u.bytes = << >> /\ u.buffer = buffer /\ u.done = 0 /\ DOMAIN u = DOMAIN s
    BY <2>1
  <2>5. v.bytes = << >> \o got /\ v.buffer = buffer /\ v.done = 0 /\ DOMAIN v = DOMAIN s
    BY <2>2, <2>4
  <2>6. /\ Advanced(v, n).bytes = v.bytes /\ Advanced(v, n).buffer = v.buffer
        /\ Advanced(v, n).done = n
    BY <1>1, <2>5 DEF Advanced
  <2> QED BY <2>3, <2>5, <2>6, Zenon
<1> HIDE DEF s
<1> QED BY <1>2, <1>7, <1>10, <1>12, <1>14

(* What a write from the start of a sector leaves on the disk: the bytes,  *)
(* and outside the sectors that it takes what there was.                   *)
LEMMA WriteGives ==
  ASSUME ContentsInv, SECTS <= BUFFER, NEW f \in File, NEW bytes \in Seq(Byte),
         pos[f] % SECTOR = 0, pos[f] + Len(bytes) < CAPACITY
  PROVE  LET t == read_write(f, FALSE, bytes, Len(bytes))
             from == f * CAPACITY + pos[f]
             to == from + Span(f, Len(bytes)) * SECTOR IN
         /\ t.disk \in [0 .. Total - 1 -> Byte]
         /\ t.buffer \in [0 .. BUFFER * SECTOR - 1 -> Byte]
         /\ t.done = Len(bytes)
         /\ to \in Int /\ to <= f * CAPACITY + CAPACITY
         /\ \A i \in 0 .. Total - 1 : i < from \/ i >= to => t.disk[i] = sectors[i]
         /\ \A k \in 1 .. Len(bytes) : t.disk[Place(f, pos[f] + k)] = bytes[k]
<1> DEFINE n == Len(bytes)
           first == FirstSector(f)
           chunk == Span(f, n)
           s == [disk |-> sectors, buffer |-> fs_buffer, bytes |-> bytes, off |-> 0, done |-> 0, left |-> n]
           buffer == Filled(s, n)
           after == ToDisk([s EXCEPT !.buffer = buffer], first, chunk)
           from == f * CAPACITY + pos[f]
<1>1. pos[f] \in Nat /\ n \in Nat /\ Limit(f, FALSE) = CAPACITY
  BY DEF ContentsInv, Limit
<1>2. read_write(f, FALSE, bytes, n) = Round(FALSE, chunk, s, first)
  <2>1. pos[f] + n <= Limit(f, FALSE) /\ Limit(f, FALSE) \in Nat /\ pos[f] + n < CAPACITY
    <3>1. pos[f] + n <= CAPACITY /\ pos[f] + n < CAPACITY /\ CAPACITY \in Nat
      BY <1>1, SizesAreNumbers
    <3>2. Limit(f, FALSE) = CAPACITY
      BY <1>1
    <3> QED BY <3>1, <3>2, Zenon
  <2>2. read_write(f, FALSE, bytes, n) =
           Round(FALSE, chunk, [disk |-> sectors, buffer |-> fs_buffer, bytes |-> bytes,
                                off |-> pos[f] % SECTOR, done |-> 0, left |-> n], first)
    BY <1>1, <2>1, OneTransfer, Zenon
  <2> QED BY <2>2
<1>3. /\ chunk * SECTOR \in Nat /\ n < chunk * SECTOR
      /\ chunk * SECTOR <= BUFFER * SECTOR /\ first * SECTOR = from
      /\ from + chunk * SECTOR <= f * CAPACITY + CAPACITY
      /\ BUFFER * SECTOR \in Nat
  <2>1. from = f * CAPACITY + pos[f] - 0 /\ from \in Nat
    BY <1>1, FilesApart
  <2>2. n < chunk * SECTOR /\ chunk * SECTOR \in Nat
    BY <1>1, SpanFits, SizesAreNumbers
  <2> QED BY <1>1, <2>1, <2>2, SpanFits, SizesAreNumbers
<1>4. /\ from \in Nat /\ f * CAPACITY \in Nat /\ f * CAPACITY + CAPACITY + SECTOR <= Total
      /\ Total \in Nat
  BY <1>1, FilesApart, SizesAreNumbers
<1> HIDE DEF first, chunk
<1>5. Least(n, chunk * SECTOR - 0) = n
  BY <1>1, <1>3, SizesAreNumbers DEF Least
<1>6. buffer = [i \in 0 .. BUFFER * SECTOR - 1 |->
                   IF i - 0 \in 0 .. n - 1 THEN bytes[0 + (i - 0) + 1] ELSE fs_buffer[i]]
  BY DEF Filled, ContentsInv
<1>7. buffer \in [0 .. BUFFER * SECTOR - 1 -> Byte]
  BY <1>1, <1>6 DEF ContentsInv
<1> HIDE DEF buffer
<1>8. after = [i \in 0 .. Total - 1 |->
                 IF i - from \in 0 .. chunk * SECTOR - 1 THEN buffer[i - from] ELSE sectors[i]]
  BY <1>3 DEF ToDisk, ContentsInv
<1> HIDE DEF from
<1>9. after \in [0 .. Total - 1 -> Byte]
  <2>1. ASSUME NEW i \in 0 .. Total - 1, i - from \in 0 .. chunk * SECTOR - 1
        PROVE  buffer[i - from] \in Byte
    BY <1>3, <1>7, <2>1
  <2> QED BY <1>8, <2>1 DEF ContentsInv
<1>10. ASSUME NEW i \in 0 .. Total - 1, i < from \/ i >= from + chunk * SECTOR
       PROVE  after[i] = sectors[i]
  <2>1. i - from \notin 0 .. chunk * SECTOR - 1
    BY <1>3, <1>4, <1>10
  <2> QED BY <1>8, <2>1
<1>11. ASSUME NEW k \in 1 .. n
       PROVE  after[from + k - 1] = bytes[k]
  <2>1. /\ from + k - 1 \in 0 .. Total - 1 /\ (from + k - 1) - from = k - 1
        /\ k - 1 \in 0 .. chunk * SECTOR - 1 /\ k - 1 \in 0 .. BUFFER * SECTOR - 1
        /\ (k - 1) - 0 \in 0 .. n - 1 /\ 0 + ((k - 1) - 0) + 1 = k
    BY <1>1, <1>3, <1>4, SizesAreNumbers
  <2>2. after[from + k - 1] = buffer[k - 1]
    BY <1>8, <2>1
  <2>3. buffer[k - 1] = bytes[k]
    BY <1>6, <2>1
  <2> QED BY <2>2, <2>3
<1> HIDE DEF after
<1>12. Round(FALSE, chunk, s, first) =
         Advanced([[s EXCEPT !.buffer = buffer] EXCEPT !.disk = after], n)
  BY <1>5 DEF Round, buffer, after
<1>13. /\ Round(FALSE, chunk, s, first).disk = after
       /\ Round(FALSE, chunk, s, first).buffer = buffer
       /\ Round(FALSE, chunk, s, first).done = n
  <2>1. PICK u : u = [s EXCEPT !.buffer = buffer]
    OBVIOUS
  <2>2. PICK v : v = [u EXCEPT !.disk = after]
    OBVIOUS
  <2>3. Round(FALSE, chunk, s, first) = Advanced(v, n)
    BY <1>12, <2>1, <2>2
  <2>4. u.buffer = buffer /\ u.done = 0 /\ DOMAIN u = DOMAIN s
    BY <2>1
  <2>5. v.disk = after /\ v.buffer = buffer /\ v.done = 0 /\ DOMAIN v = DOMAIN s
    BY <2>2, <2>4
  <2>6. /\ Advanced(v, n).disk = v.disk /\ Advanced(v, n).buffer = v.buffer
        /\ Advanced(v, n).done = n
    BY <1>1, <2>5 DEF Advanced
  <2> QED BY <2>3, <2>5, <2>6, Zenon
<1> HIDE DEF s
<1>14. \A k \in 1 .. n : Place(f, pos[f] + k) = from + k - 1
  BY <1>1, <1>4 DEF from, Place
<1>15. from + chunk * SECTOR \in Int
  BY <1>3, <1>4
<1> QED BY <1>2, <1>3, <1>7, <1>9, <1>10, <1>11, <1>13, <1>14, <1>15 DEF from, chunk

(* The other calls on a buffer keep it a buffer of bytes.                  *)
LEMMA UsedIsBuffer ==
  ASSUME NEW buffer \in [0 .. BUFFER * SECTOR - 1 -> Byte], NEW b \in Byte
  PROVE  Used(buffer, b) \in [0 .. BUFFER * SECTOR - 1 -> Byte]
BY DEF Used

(* An empty disk holds nothing, as it should.                              *)
LEMMA ContentsInitially == ContentsInit => ContentsInv
<1> SUFFICES ASSUME ContentsInit PROVE ContentsInv
  OBVIOUS
<1>1. 0 \in Byte /\ Cardinality(File) * CAPACITY + SECTOR = Total
  BY SizesAssumption DEF Total
<1>2. sectors \in [0 .. Total - 1 -> Byte] /\ fs_buffer \in [0 .. BUFFER * SECTOR - 1 -> Byte]
  BY <1>1 DEF ContentsInit
<1>3. /\ size \in [File -> 0 .. CAPACITY - 1] /\ pos \in [File -> Nat]
      /\ content \in [File -> Seq(Byte \cup {Unsaid})]
      /\ \A f \in File : pos[f] = 0 /\ size[f] = 0 /\ content[f] = << >>
  BY SizesAreNumbers DEF ContentsInit
<1> QED BY <1>2, <1>3 DEF ContentsInv

(* A read moves the position and the buffer only.                          *)
LEMMA ReadStep ==
  ASSUME ContentsInv, SECTS <= BUFFER, NEW f \in File, NEW n \in 0 .. CAPACITY, do_read(f, n)
  PROVE  ContentsInv'
<1> DEFINE t == read_write(f, TRUE, << >>, n)
<1>1. n \in Nat /\ pos[f] + n <= size[f] /\ pos[f] \in Nat
  BY DEF do_read, ContentsInv
<1>2. t.buffer \in [0 .. BUFFER * SECTOR - 1 -> Byte] /\ t.done = n
  BY <1>1, ReadGives
<1>3. fs_buffer' = t.buffer /\ pos' = [pos EXCEPT ![f] = @ + t.done]
  BY DEF do_read
<1> HIDE DEF t
<1>4. pos' \in [File -> Nat] /\ \A g \in File : pos'[g] <= size[g]
  BY <1>1, <1>2, <1>3 DEF ContentsInv
<1>5. sectors' = sectors /\ size' = size /\ content' = content
  BY DEF do_read
<1> QED BY <1>2, <1>3, <1>4, <1>5 DEF ContentsInv, Place

(* A write that Fits: the sectors it takes lie behind what the file holds  *)
(* and within the file, so what was promised stays and what is new is there.*)
LEMMA WriteStep ==
  ASSUME ContentsInv, SECTS <= BUFFER, NEW f \in File, NEW bytes \in Text, do_write(f, bytes)
  PROVE  ContentsInv'
<1> DEFINE n == Len(bytes)
           t == read_write(f, FALSE, bytes, n)
           from == f * CAPACITY + pos[f]
           to == from + Span(f, n) * SECTOR
<1>1. bytes \in Seq(Byte) /\ n \in Nat \ {0}
  BY SizesAssumption
<1>2. pos[f] = size[f] /\ pos[f] % SECTOR = 0 /\ pos[f] + n < CAPACITY
  BY DEF do_write, Fits
<1>3. /\ t.disk \in [0 .. Total - 1 -> Byte]
      /\ t.buffer \in [0 .. BUFFER * SECTOR - 1 -> Byte]
      /\ t.done = n
      /\ to \in Int /\ to <= f * CAPACITY + CAPACITY
      /\ \A i \in 0 .. Total - 1 : i < from \/ i >= to => t.disk[i] = sectors[i]
      /\ \A k \in 1 .. n : t.disk[Place(f, pos[f] + k)] = bytes[k]
  BY <1>1, <1>2, WriteGives
<1>4. /\ sectors' = t.disk
      /\ pos' = [pos EXCEPT ![f] = @ + t.done]
      /\ content' = [content EXCEPT ![f] = @ \o bytes]
      /\ IF pos'[f] > size[f]
         THEN size' = [size EXCEPT ![f] = pos'[f]] /\ \E b \in Byte : fs_buffer' = Used(t.buffer, b)
         ELSE size' = size /\ fs_buffer' = t.buffer
  BY DEF do_write
<1> HIDE DEF t, to
<1>5. pos[f] \in Nat /\ size[f] \in Nat /\ CAPACITY \in Nat
  BY SizesAreNumbers DEF ContentsInv
<1>6. pos'[f] = pos[f] + n /\ pos'[f] > size[f]
  BY <1>1, <1>2, <1>3, <1>4, <1>5 DEF ContentsInv
<1>7. size' = [size EXCEPT ![f] = size[f] + n] /\ pos' = [pos EXCEPT ![f] = size[f] + n]
  BY <1>2, <1>3, <1>4, <1>6 DEF ContentsInv
<1>8. fs_buffer' \in [0 .. BUFFER * SECTOR - 1 -> Byte]
  BY <1>3, <1>4, <1>6, UsedIsBuffer
<1>9. size' \in [File -> 0 .. CAPACITY - 1] /\ pos' \in [File -> Nat]
  BY <1>1, <1>2, <1>5, <1>7 DEF ContentsInv
<1>10. bytes \in Seq(Byte \cup {Unsaid})
  BY <1>1
<1>11. content' \in [File -> Seq(Byte \cup {Unsaid})]
  BY <1>4, <1>10 DEF ContentsInv
<1>12. f * CAPACITY \in Nat /\ f * CAPACITY + CAPACITY <= Total - 1 /\ Total \in Nat
  BY FilesApart, SizesAreNumbers
<1>13. ASSUME NEW g \in File, g # f
       PROVE  /\ pos'[g] <= size'[g] /\ Len(content'[g]) = size'[g]
              /\ \A i \in 1 .. size'[g] : content'[g][i] \in {sectors'[Place(g, i)], Unsaid}
  <2>1. pos'[g] = pos[g] /\ size'[g] = size[g] /\ content'[g] = content[g]
    BY <1>4, <1>7, <1>13 DEF ContentsInv
  <2>2. ASSUME NEW i \in 1 .. size[g]
        PROVE  sectors'[Place(g, i)] = sectors[Place(g, i)]
    <3>1. i \in 1 .. CAPACITY
      <4>1. size[g] \in 0 .. CAPACITY - 1 /\ CAPACITY \in Nat
        BY SizesAreNumbers DEF ContentsInv
      <4> QED BY <4>1
    <3>2. from \in Int /\ f * CAPACITY <= from
      BY <1>5, <1>12
    <3>3. Place(g, i) \in 0 .. Total - 1 /\ (Place(g, i) < from \/ Place(g, i) >= to)
      BY <1>3, <1>13, <3>1, <3>2, NeighboursApart
    <3> QED BY <1>3, <1>4, <3>3
  <2> QED BY <2>1, <2>2 DEF ContentsInv
<1>14. /\ pos'[f] <= size'[f] /\ Len(content'[f]) = size'[f]
       /\ \A i \in 1 .. size'[f] : content'[f][i] \in {sectors'[Place(f, i)], Unsaid}
  <2>1. pos'[f] = size[f] + n /\ size'[f] = size[f] + n /\ content'[f] = content[f] \o bytes
    BY <1>4, <1>7 DEF ContentsInv
  <2>2. content[f] \in Seq(Byte \cup {Unsaid}) /\ Len(content[f]) = size[f]
    BY DEF ContentsInv
  <2>3. Len(content'[f]) = size[f] + n
    BY <2>1, <2>2, <1>10
  <2>4. ASSUME NEW i \in 1 .. size[f] + n
        PROVE  content'[f][i] \in {sectors'[Place(f, i)], Unsaid}
    <3>1. CASE i <= size[f]
      <4>1. content'[f][i] = content[f][i]
        BY <2>1, <2>2, <3>1, <1>10, <1>5
      <4>2. Place(f, i) \in 0 .. Total - 1 /\ Place(f, i) < from
        BY <1>2, <1>5, <1>12, <3>1 DEF Place
      <4>3. sectors'[Place(f, i)] = sectors[Place(f, i)]
        BY <1>3, <1>4, <4>2
      <4>4. i \in 1 .. size[f]
        BY <1>5, <3>1
      <4> QED BY <4>1, <4>3, <4>4 DEF ContentsInv
    <3>2. CASE i > size[f]
      <4>1. i - size[f] \in 1 .. n /\ pos[f] + (i - size[f]) = i
        BY <1>1, <1>2, <1>5, <3>2
      <4>2. content'[f][i] = bytes[i - size[f]]
        BY <2>1, <2>2, <3>2, <1>10, <1>5
      <4> QED BY <1>3, <1>4, <4>1, <4>2
    <3> QED BY <1>1, <1>5, <3>1, <3>2
  <2>5. size[f] + n <= size[f] + n
    BY <1>1, <1>5
  <2> QED BY <2>1, <2>3, <2>4, <2>5
<1>15. \A g \in File :
          /\ pos'[g] <= size'[g] /\ Len(content'[g]) = size'[g]
          /\ \A i \in 1 .. size'[g] : content'[g][i] \in {sectors'[Place(g, i)], Unsaid}
  BY <1>13, <1>14
<1>16. sectors' \in [0 .. Total - 1 -> Byte]
  BY <1>3, <1>4
<1> QED BY <1>8, <1>9, <1>11, <1>15, <1>16 DEF ContentsInv, Place

(* The mark of untar takes one sector, the one of which nothing else is    *)
(* promised any more.                                                      *)
LEMMA MarkStep ==
  ASSUME ContentsInv, SECTS <= BUFFER, NEW f \in File, untar_mark(f)
  PROVE  ContentsInv'
<1> DEFINE t == read_write(f, FALSE, <<0>>, 1)
           from == f * CAPACITY + pos[f]
           to == from + Span(f, 1) * SECTOR
<1>1. /\ size[f] \in 1 .. CAPACITY - 1 /\ pos[f] = 0 /\ CAPACITY \in Nat /\ CAPACITY > 1
      /\ content[f] \in Seq(Byte \cup {Unsaid}) /\ Len(content[f]) = size[f]
  BY SizesAreNumbers DEF untar_mark, ContentsInv
<1>2. <<0>> \in Seq(Byte) /\ Len(<<0>>) = 1 /\ 0 \in Byte
  BY SizesAssumption
<1>3. pos[f] % SECTOR = 0 /\ Span(f, 1) = 1
  <2>1. 0 % SECTOR = 0 /\ 0 \div SECTOR = 0 /\ 1 \div SECTOR = 0
    BY SizesAreNumbers
  <2> QED BY <1>1, <2>1 DEF Span
<1>4. pos[f] + Len(<<0>>) < CAPACITY
  BY <1>1, <1>2
<1>5. /\ t.disk \in [0 .. Total - 1 -> Byte]
      /\ t.buffer \in [0 .. BUFFER * SECTOR - 1 -> Byte]
      /\ t.done = 1
      /\ to \in Int /\ to <= f * CAPACITY + CAPACITY
      /\ \A i \in 0 .. Total - 1 : i < from \/ i >= to => t.disk[i] = sectors[i]
      /\ \A k \in 1 .. 1 : t.disk[Place(f, pos[f] + k)] = <<0>>[k]
  <2> HIDE DEF t
  <2>1. t = read_write(f, FALSE, <<0>>, Len(<<0>>))
    BY <1>2 DEF t
  <2> DEFINE one == <<0>>
  <2>2. one \in Seq(Byte) /\ pos[f] + Len(one) < CAPACITY /\ t = read_write(f, FALSE, one, Len(one))
    BY <1>2, <1>4, <2>1
  <2>3. Len(one) = 1
    OBVIOUS
  <2> HIDE DEF one
  <2>4. /\ t.disk \in [0 .. Total - 1 -> Byte]
        /\ t.buffer \in [0 .. BUFFER * SECTOR - 1 -> Byte]
        /\ t.done = Len(one)
        /\ from + Span(f, Len(one)) * SECTOR \in Int
        /\ from + Span(f, Len(one)) * SECTOR <= f * CAPACITY + CAPACITY
        /\ \A i \in 0 .. Total - 1 :
              i < from \/ i >= from + Span(f, Len(one)) * SECTOR => t.disk[i] = sectors[i]
        /\ \A k \in 1 .. Len(one) : t.disk[Place(f, pos[f] + k)] = one[k]
    BY <1>3, <2>2, WriteGives
  <2> QED BY <2>3, <2>4, Zenon DEF one
<1>6. /\ sectors' = t.disk /\ fs_buffer' = t.buffer /\ pos' = [pos EXCEPT ![f] = t.done]
      /\ content' = [content EXCEPT ![f] =
            [i \in DOMAIN content[f] |->
               CASE i = 1 -> 0 [] i \in 2 .. SECTOR -> Unsaid [] OTHER -> content[f][i]]]
      /\ size' = size
  BY DEF untar_mark, ContentsInv
<1> HIDE DEF t
<1>7. f * CAPACITY \in Nat /\ f * CAPACITY + CAPACITY + SECTOR <= Total /\ Total \in Nat
  BY FilesApart, SizesAreNumbers
<1>8. from = f * CAPACITY /\ to = from + SECTOR /\ from \in Nat
  BY <1>1, <1>3, <1>7, SizesAreNumbers
<1> HIDE DEF from, to
<1>9. /\ sectors' \in [0 .. Total - 1 -> Byte]
      /\ fs_buffer' \in [0 .. BUFFER * SECTOR - 1 -> Byte]
      /\ size' \in [File -> 0 .. CAPACITY - 1] /\ pos' \in [File -> Nat]
  BY <1>5, <1>6 DEF ContentsInv
<1>10. /\ DOMAIN content'[f] = 1 .. size[f]
       /\ content'[f] \in Seq(Byte \cup {Unsaid}) /\ Len(content'[f]) = size[f]
       /\ \A i \in 1 .. size[f] :
             content'[f][i] = CASE i = 1 -> 0 [] i \in 2 .. SECTOR -> Unsaid [] OTHER -> content[f][i]
  <2> DEFINE new == [i \in 1 .. size[f] |->
                       CASE i = 1 -> 0 [] i \in 2 .. SECTOR -> Unsaid [] OTHER -> content[f][i]]
  <2>1. content'[f] = new
    BY <1>1, <1>6 DEF ContentsInv
  <2>2. \A i \in 1 .. size[f] : new[i] \in Byte \cup {Unsaid}
    BY <1>1, <1>2
  <2>3. \A i \in 1 .. size[f] :
           new[i] = CASE i = 1 -> 0 [] i \in 2 .. SECTOR -> Unsaid [] OTHER -> content[f][i]
    OBVIOUS
  <2>4. DOMAIN new = 1 .. size[f]
    OBVIOUS
  <2> HIDE DEF new
  <2>5. new \in Seq(Byte \cup {Unsaid}) /\ Len(new) = size[f]
    <3>1. new = [i \in 1 .. size[f] |-> new[i]]
      BY DEF new
    <3>2. new \in [1 .. size[f] -> Byte \cup {Unsaid}]
      BY <2>2, <3>1
    <3> QED BY <3>2, <1>1, <2>4
  <2> QED BY <2>1, <2>3, <2>4, <2>5
<1>11. content' \in [File -> Seq(Byte \cup {Unsaid})]
  <2>1. \A g \in File : g # f => content'[g] = content[g]
    BY <1>6 DEF ContentsInv
  <2>2. content' = [g \in File |-> content'[g]]
    BY <1>6 DEF ContentsInv
  <2> QED BY <1>10, <2>1, <2>2 DEF ContentsInv
<1>12. ASSUME NEW g \in File, g # f
       PROVE  /\ pos'[g] <= size'[g] /\ Len(content'[g]) = size'[g]
              /\ \A i \in 1 .. size'[g] : content'[g][i] \in {sectors'[Place(g, i)], Unsaid}
  <2>1. pos'[g] = pos[g] /\ size'[g] = size[g] /\ content'[g] = content[g]
    BY <1>6, <1>12 DEF ContentsInv
  <2>2. ASSUME NEW i \in 1 .. size[g]
        PROVE  sectors'[Place(g, i)] = sectors[Place(g, i)]
    <3>1. i \in 1 .. CAPACITY
      <4>1. size[g] \in 0 .. CAPACITY - 1 /\ CAPACITY \in Nat
        BY SizesAreNumbers DEF ContentsInv
      <4> QED BY <4>1
    <3>2. Place(g, i) \in 0 .. Total - 1 /\ (Place(g, i) < from \/ Place(g, i) >= to)
      BY <1>5, <1>8, <1>12, <3>1, NeighboursApart
    <3> QED BY <1>5, <1>6, <3>2
  <2> QED BY <2>1, <2>2 DEF ContentsInv
<1>13. ASSUME NEW i \in 1 .. size[f]
       PROVE  content'[f][i] \in {sectors'[Place(f, i)], Unsaid}
  <2>1. CASE i = 1
    <3>1. content'[f][i] = 0
      BY <1>10, <2>1
    <3>2. t.disk[Place(f, pos[f] + 1)] = 0 /\ pos[f] + 1 = 1
      BY <1>1, <1>5
    <3> QED BY <1>6, <2>1, <3>1, <3>2
  <2>2. CASE i \in 2 .. SECTOR
    <3>1. i # 1
      BY <2>2, SizesAreNumbers
    <3> QED BY <1>10, <2>2, <3>1
  <2>3. CASE i > SECTOR
    <3>1. i # 1 /\ i \notin 2 .. SECTOR
      BY <2>3, SizesAreNumbers
    <3>2. content'[f][i] = content[f][i]
      BY <1>10, <3>1
    <3>3. Place(f, i) \in 0 .. Total - 1 /\ Place(f, i) >= to
      BY <1>1, <1>7, <1>8, <2>3, SizesAreNumbers DEF Place
    <3>4. sectors'[Place(f, i)] = sectors[Place(f, i)]
      BY <1>5, <1>6, <3>3
    <3> QED BY <3>2, <3>4 DEF ContentsInv
  <2> QED BY <1>1, <2>1, <2>2, <2>3, SizesAreNumbers
<1>14. pos'[f] <= size'[f] /\ Len(content'[f]) = size'[f]
  BY <1>1, <1>5, <1>6, <1>10 DEF ContentsInv
<1>15. \A g \in File :
          /\ pos'[g] <= size'[g] /\ Len(content'[g]) = size'[g]
          /\ \A i \in 1 .. size'[g] : content'[g][i] \in {sectors'[Place(g, i)], Unsaid}
  BY <1>6, <1>12, <1>13, <1>14
<1> QED BY <1>9, <1>11, <1>15 DEF ContentsInv, Place

(* Seeking and opening leave the disk alone; O_TRUNC forgets the contents. *)
LEMMA SeekStep ==
  ASSUME ContentsInv, NEW f \in File, NEW to \in 0 .. CAPACITY, do_lseek(f, to)
  PROVE  ContentsInv'
<1>1. to \in Nat /\ to <= size[f] /\ pos' = [pos EXCEPT ![f] = to]
  BY DEF do_lseek, ContentsInv
<1>2. pos' \in [File -> Nat] /\ \A g \in File : pos'[g] <= size[g]
  BY <1>1 DEF ContentsInv
<1> QED BY <1>2 DEF do_lseek, ContentsInv, Place

LEMMA OpenContents ==
  ASSUME ContentsInv, NEW f \in File, NEW trunc \in BOOLEAN, do_open(f, trunc)
  PROVE  ContentsInv'
<1>1. fs_buffer' \in [0 .. BUFFER * SECTOR - 1 -> Byte] /\ sectors' = sectors
  BY UsedIsBuffer DEF do_open, ContentsInv
<1>2. pos' = [pos EXCEPT ![f] = 0] /\ 0 \in 0 .. CAPACITY - 1
  BY SizesAreNumbers DEF do_open
<1>3. pos' \in [File -> Nat] /\ \A g \in File : pos'[g] = IF g = f THEN 0 ELSE pos[g]
  BY <1>2 DEF ContentsInv
<1>4. CASE trunc
  <2>1. size' = [size EXCEPT ![f] = 0] /\ content' = [content EXCEPT ![f] = << >>]
    BY <1>4 DEF do_open
  <2>2. size' \in [File -> 0 .. CAPACITY - 1] /\ content' \in [File -> Seq(Byte \cup {Unsaid})]
    BY <1>2, <2>1 DEF ContentsInv
  <2>3. ASSUME NEW g \in File
        PROVE  /\ pos'[g] <= size'[g] /\ Len(content'[g]) = size'[g]
               /\ \A i \in 1 .. size'[g] : content'[g][i] \in {sectors'[Place(g, i)], Unsaid}
    <3>1. CASE g = f
      <4>1. pos'[g] = 0 /\ size'[g] = 0 /\ content'[g] = << >>
        BY <1>3, <2>1, <3>1 DEF ContentsInv
      <4> QED BY <4>1
    <3>2. CASE g # f
      <4>1. pos'[g] = pos[g] /\ size'[g] = size[g] /\ content'[g] = content[g]
        BY <1>3, <2>1, <3>2 DEF ContentsInv
      <4> QED BY <1>1, <4>1 DEF ContentsInv
    <3> QED BY <3>1, <3>2
  <2> QED BY <1>1, <1>3, <2>2, <2>3 DEF ContentsInv, Place
<1>5. CASE ~ trunc
  <2>1. size' = size /\ content' = content
    BY <1>5 DEF do_open
  <2>2. \A g \in File : pos'[g] <= size[g]
    BY <1>3, SizesAreNumbers DEF ContentsInv
  <2> QED BY <1>1, <1>3, <2>1, <2>2 DEF ContentsInv, Place
<1> QED BY <1>4, <1>5

(* Every call keeps the contents in place, and in place they can be read.  *)
LEMMA ContentsStep ==
  ASSUME ContentsInv, SECTS <= BUFFER, [ContentsNext]_contentsVars
  PROVE  ContentsInv'
<1>1. CASE ContentsNext
  <2>1. PICK f \in File :
           \/ \E n \in 0 .. CAPACITY : do_read(f, n)
           \/ \E bytes \in Text : do_write(f, bytes)
           \/ untar_mark(f)
           \/ \E to \in 0 .. CAPACITY : do_lseek(f, to)
           \/ \E trunc \in BOOLEAN : do_open(f, trunc)
    BY <1>1 DEF ContentsNext
  <2>2. CASE \E n \in 0 .. CAPACITY : do_read(f, n)
    BY <2>2, ReadStep
  <2>3. CASE \E bytes \in Text : do_write(f, bytes)
    BY <2>3, WriteStep
  <2>4. CASE untar_mark(f)
    BY <2>4, MarkStep
  <2>5. CASE \E to \in 0 .. CAPACITY : do_lseek(f, to)
    BY <2>5, SeekStep
  <2>6. CASE \E trunc \in BOOLEAN : do_open(f, trunc)
    BY <2>6, OpenContents
  <2> QED BY <2>1, <2>2, <2>3, <2>4, <2>5, <2>6
<1>2. CASE UNCHANGED contentsVars
  BY <1>2 DEF contentsVars, ContentsInv, Place
<1> QED BY <1>1, <1>2

LEMMA ContentsGivenBack ==
  ASSUME ContentsInv, SECTS <= BUFFER
  PROVE  ReadsBack
<1>1. ContentsTyped
  <2>1. sectors \in [DOMAIN sectors -> Byte]
    BY DEF ContentsInv
  <2>2. \A f \in File : pos[f] \in 0 .. size[f] /\ Len(content[f]) = size[f]
    BY SizesAreNumbers DEF ContentsInv
  <2> QED BY <2>1, <2>2 DEF ContentsInv, ContentsTyped
<1>2. ASSUME NEW f \in File, NEW n \in 0 .. size[f] - pos[f]
      PROVE  LET given == read_write(f, TRUE, << >>, n).bytes IN
             /\ Len(given) = n
             /\ \A i \in 1 .. n : content[f][pos[f] + i] \in {given[i], Unsaid}
  <2> DEFINE given == read_write(f, TRUE, << >>, n).bytes
  <2>1. n \in Nat /\ pos[f] \in Nat /\ size[f] \in Nat /\ pos[f] + n <= size[f]
    BY SizesAreNumbers DEF ContentsInv
  <2>2. given = [k \in 1 .. n |-> sectors[Place(f, pos[f] + k)]]
    BY <2>1, ReadGives
  <2> HIDE DEF given
  <2>3. Len(given) = n
    BY <2>1, <2>2
  <2>4. ASSUME NEW i \in 1 .. n
        PROVE  content[f][pos[f] + i] \in {given[i], Unsaid}
    <3>1. pos[f] + i \in 1 .. size[f]
      BY <2>1
    <3>2. given[i] = sectors[Place(f, pos[f] + i)]
      BY <2>2
    <3> QED BY <3>1, <3>2 DEF ContentsInv
  <2> QED BY <2>3, <2>4 DEF given
<1> QED BY <1>1, <1>2 DEF ReadsBack

(* For every number of files and every size of sector and file, when the   *)
(* buffer holds a whole file: a read gives back what was written to that   *)
(* file and nothing else.                                                  *)
THEOREM WrittenIsRead ==
  ASSUME SECTS <= BUFFER
  PROVE  ContentsSpec => []ReadsBack
<1>1. ContentsInit => ContentsInv
  BY ContentsInitially
<1>2. ContentsInv /\ [ContentsNext]_contentsVars => ContentsInv'
  BY ContentsStep
<1>3. ContentsInv => ReadsBack
  BY ContentsGivenBack
<1> QED BY <1>1, <1>2, <1>3, PTL DEF ContentsSpec
=============================================================================
