------------------------------ MODULE ReadWrite ------------------------------
(***************************************************************************)
(* Reading and writing of regular files (fs/read_write.c): whole sectors   *)
(* go between the disk and the file system's one buffer, the bytes asked   *)
(* for between the buffer and the caller.  A file owns SECTS sectors in a  *)
(* row and the next file follows at once.                                  *)
(*                                                                         *)
(* A write does not read the sectors it fills in part, and one that ends   *)
(* where a sector ends also writes the next sector.  What read_write can   *)
(* be trusted with is therefore the use that its callers make of it, untar *)
(* (origin/tar.c) and exec (mm/exec.c): Fits says it.                      *)
(***************************************************************************)
EXTENDS Integers, Sequences, FiniteSets, SequencesExt

CONSTANTS
    File,        \* the files, numbered from 0 in the order of their sectors
    Byte,        \* the values of a byte, 0 among them
    Unsaid,      \* a byte whose value nobody promises
    SECTOR,      \* SECTOR_SIZE, bytes of a sector
    SECTS,       \* nr_sects of every file
    BUFFER,      \* FS_BUFFER_SIZE in sectors
    Text         \* bound: what is written at once

ASSUME SizesAssumption ==
    /\ IsFiniteSet(File) /\ File = 0 .. Cardinality(File) - 1
    /\ 0 \in Byte /\ Unsaid \notin Byte
    /\ {SECTOR, SECTS, BUFFER} \subseteq Nat \ {0}
    /\ SECTOR > 1  \* the mark of untar lies inside a sector
    /\ Text \subseteq Seq(Byte) \ {<< >>}

VARIABLES
    sectors,     \* the bytes of the disk
    fs_buffer,   \* the file system's buffer
    size, pos,   \* of every file: of its inode, and of the one who has it open
    content      \* what the file ought to hold, Unsaid where nobody promises

contentsVars == <<sectors, fs_buffer, size, pos, content>>

CAPACITY == SECTS * SECTOR

Least(a, b) == IF a < b THEN a ELSE b

ContentsInit ==
    /\ sectors = [i \in 0 .. (Cardinality(File) * CAPACITY + SECTOR) - 1 |-> 0]
    /\ fs_buffer = [i \in 0 .. BUFFER * SECTOR - 1 |-> 0]
    /\ size = [f \in File |-> 0] /\ pos = size
    /\ content = [f \in File |-> << >>]

------------------------------------------------------------------------------
(* The loop of read_write.  A transfer t has the disk, the buffer, the     *)
(* bytes of the caller, the offset in the first sector and how many bytes  *)
(* are done and left.                                                      *)

(* dev_io: chunk sectors from sector sect, into the buffer or out of it.   *)
FromDisk(t, sect, chunk) ==
    [i \in DOMAIN t.buffer |-> IF i < chunk * SECTOR /\ sect * SECTOR + i \in DOMAIN t.disk
                               THEN t.disk[sect * SECTOR + i] ELSE t.buffer[i]]

ToDisk(t, sect, chunk) ==
    [i \in DOMAIN t.disk |-> IF i - sect * SECTOR \in 0 .. chunk * SECTOR - 1
                             THEN t.buffer[i - sect * SECTOR] ELSE t.disk[i]]

(* sys_copy between the buffer, from offset off, and the caller's bytes.   *)
Filled(t, n) ==
    [i \in DOMAIN t.buffer |-> IF i - t.off \in 0 .. n - 1
                               THEN t.bytes[t.done + (i - t.off) + 1] ELSE t.buffer[i]]

Taken(t, n) == [k \in 1 .. n |-> t.buffer[t.off + k - 1]]

Advanced(t, n) == [t EXCEPT !.off = 0, !.done = @ + n, !.left = @ - n]

Round(reading, chunk, t, sect) ==
    LET n == Least(t.left, chunk * SECTOR - t.off) IN
    IF reading
    THEN LET in == [t EXCEPT !.buffer = FromDisk(t, sect, chunk)] IN
         Advanced([in EXCEPT !.bytes = @ \o Taken(in, n)], n)
    ELSE LET out == [t EXCEPT !.buffer = Filled(t, n)] IN
         Advanced([out EXCEPT !.disk = ToDisk(out, sect, chunk)], n)

Limit(f, reading) == IF reading THEN size[f] ELSE CAPACITY

FirstSector(f) == f * SECTS + (pos[f] \div SECTOR)

LastSectorFarMutant(f, reading, n) ==
    f * SECTS + (Least(pos[f] + n, Limit(f, reading)) \div SECTOR) + 1

(* rw_sect_max: the sector after the last one, when pos_end is its start.  *)
LastSector(f, reading, n) ==
    f * SECTS + (Least(pos[f] + n, Limit(f, reading)) \div SECTOR)

read_write(f, reading, bytes, n) ==
    LET first == FirstSector(f)
        last  == LastSector(f, reading, n)
        chunk == Least((last - first) + 1, BUFFER)
        rounds == (last - first) \div chunk
    IN FoldLeft(LAMBDA t, k : Round(reading, chunk, t, first + (k - 1) * chunk),
                [disk |-> sectors, buffer |-> fs_buffer, bytes |-> bytes,
                 off |-> pos[f] % SECTOR, done |-> 0, left |-> n],
                [k \in 1 .. rounds + 1 |-> k])

------------------------------------------------------------------------------
(* The calls                                                               *)

(* sync_inode and the other users of the first sector of the buffer leave  *)
(* it as they please: with one value all over it.                          *)
Used(buffer, b) == [i \in DOMAIN buffer |-> IF i < SECTOR THEN b ELSE buffer[i]]

(* Nobody reads behind the end of a file.                                  *)
do_read(f, n) ==
    /\ pos[f] + n <= size[f]
    /\ LET t == read_write(f, TRUE, << >>, n) IN
       /\ fs_buffer' = t.buffer
       /\ pos' = [pos EXCEPT ![f] = @ + t.done]
    /\ UNCHANGED <<sectors, size, content>>

(* untar writes behind the end of a file that it has cut to nothing, from  *)
(* the start of a sector and less than the file can hold.                  *)
Fits(f, n) ==
    /\ pos[f] = size[f]
    /\ pos[f] % SECTOR = 0
    /\ pos[f] + n < CAPACITY

do_write(f, bytes) ==
    /\ Fits(f, Len(bytes))
    /\ \E b \in Byte : LET t == read_write(f, FALSE, bytes, Len(bytes)) IN
       /\ sectors' = t.disk
       /\ pos' = [pos EXCEPT ![f] = @ + t.done]
       /\ IF pos'[f] > size[f]
          THEN size' = [size EXCEPT ![f] = pos'[f]] /\ fs_buffer' = Used(t.buffer, b)
          ELSE UNCHANGED size /\ fs_buffer' = t.buffer
    /\ content' = [content EXCEPT ![f] = @ \o bytes]

(* untar marks an archive as done: it seeks to its start and writes a 0.   *)
(* Of the first sector nothing else is promised any more.                  *)
untar_mark(f) ==
    /\ size[f] > 0 /\ pos[f] = 0
    /\ LET t == read_write(f, FALSE, <<0>>, 1) IN
       /\ sectors' = t.disk /\ fs_buffer' = t.buffer
       /\ pos' = [pos EXCEPT ![f] = t.done]
    /\ content' = [content EXCEPT ![f] =
                     [i \in DOMAIN @ |-> CASE i = 1 -> 0 [] i \in 2 .. SECTOR -> Unsaid [] OTHER -> @[i]]]
    /\ UNCHANGED size

do_lseek(f, to) ==
    /\ to \in 0 .. size[f]
    /\ pos' = [pos EXCEPT ![f] = to]
    /\ UNCHANGED <<sectors, fs_buffer, size, content>>

(* common_open: at the start, cut to nothing with O_TRUNC.                 *)
do_open(f, trunc) ==
    /\ pos' = [pos EXCEPT ![f] = 0]
    /\ size' = IF trunc THEN [size EXCEPT ![f] = 0] ELSE size
    /\ content' = IF trunc THEN [content EXCEPT ![f] = << >>] ELSE content
    /\ \E b \in Byte : fs_buffer' = Used(fs_buffer, b)
    /\ UNCHANGED sectors

ContentsNext ==
    \E f \in File :
       \/ \E n \in 0 .. CAPACITY : do_read(f, n)
       \/ \E bytes \in Text : do_write(f, bytes)
       \/ untar_mark(f)
       \/ \E to \in 0 .. CAPACITY : do_lseek(f, to)
       \/ \E trunc \in BOOLEAN : do_open(f, trunc)

ContentsSpec == ContentsInit /\ [][ContentsNext]_contentsVars

------------------------------------------------------------------------------

(* Every field holds a value of its kind.                                *)
ContentsTyped ==
    /\ sectors \in [DOMAIN sectors -> Byte]
    /\ fs_buffer \in [0 .. BUFFER * SECTOR - 1 -> Byte]
    /\ size \in [File -> 0 .. CAPACITY - 1]
    /\ \A f \in File : pos[f] \in 0 .. size[f] /\ Len(content[f]) = size[f]

(* A read gives back what was written to that file and nothing else,       *)
(* whatever was written to its neighbours in between, whatever the buffer  *)
(* held, and however the request lies across the sectors (read_write,      *)
(* read_write.c:96-131).                                                   *)
ReadsBack ==
    /\ ContentsTyped
    /\ \A f \in File : \A n \in 0 .. size[f] - pos[f] :
          LET given == read_write(f, TRUE, << >>, n).bytes IN
          /\ Len(given) = n
          /\ \A i \in 1 .. n : content[f][pos[f] + i] \in {given[i], Unsaid}
=============================================================================
