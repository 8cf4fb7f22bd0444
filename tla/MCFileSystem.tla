---------------------------- MODULE MCFileSystem ----------------------------
(* FileSystem with two user slots, four names, of which one is the         *)
(* archive's, and no terminal.                                             *)
EXTENDS FileSystem, TLC

SpecialFiles == << >>

(* Opening "/" to read or to write, and with the flags that do not fit. *)
RootPlain == {{"O_RDWR"}, {"O_RDWR", "O_CREAT"}, {}}

(* No step after mkfs depends on which of the names is the archive's.      *)
Symmetric == Permutations(Name)

(* Bound: what comes after a file was laid over the archive is left out.   *)
Unlapped == \A n \in Num : LET first == disk.ino[n].start IN
    first = INSTALL_BIT \/ Run(first) \cap Run(INSTALL_BIT) = {}

(* Nothing is said of a file system that came to an end but how it did.    *)
StateView == IF halted = "no" THEN vars ELSE <<halted>>
=============================================================================
