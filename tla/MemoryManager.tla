--------------------------- MODULE MemoryManager ---------------------------
(***************************************************************************)
(* The memory manager of Flyanx as the keeper of processes: fork, exit,    *)
(* wait and waitpid (src/mm/fork_exit.c), exec and the calls that only     *)
(* look something up, and the loop that takes a request, handles it and    *)
(* sends the answers that are due (src/mm/main.c).                         *)
(*                                                                         *)
(* MM handles one request at a time, but it sleeps in the calls it makes   *)
(* to the system task and the file system, and user processes run in the   *)
(* meantime and queue up: a step is what MM does between two such calls.   *)
(* What the kernel knows of a process is kept beside MM's table, so that   *)
(* the two can be compared.  All images have one size: fork gives the      *)
(* child its parent's and nothing else changes it.                         *)
(***************************************************************************)
EXTENDS Integers, Sequences, FiniteSets, FiniteSetsExt

CONSTANTS NR_PROCS,   \* slots of the process table
          LOW_USER,   \* the first user slot, ORIGIN's; those below are the servers'
          MAX_PID,    \* the last process number before they start again (50000)
          NR_BLOCKS,  \* images that fit in the memory above the boot image
          MaxQueued,  \* bound on the callers that queue while MM is busy
          PidsAsked   \* bound on the process numbers that waitpid is called with

ASSUME MMAssumption ==
    /\ LOW_USER \in Nat \ {0} /\ NR_PROCS \in Nat /\ NR_PROCS > LOW_USER
    /\ MAX_PID \in Nat \ {0} /\ MAX_PID >= NR_PROCS - LOW_USER - 1
    /\ NR_BLOCKS \in Nat /\ MaxQueued \in Nat \ {0} /\ PidsAsked \subseteq 1..MAX_PID

Slot  == 0..NR_PROCS-1
User  == LOW_USER..NR_PROCS-1
Block == 1..NR_BLOCKS

ORIGIN     == LOW_USER   \* ORIGIN_PROC_NR
ORIGIN_PID == 0
BOOT_IMAGE == 0          \* the map of the servers and of ORIGIN
NONE       == -1         \* no slot

ERROR == -1              \* EAGAIN, ENOMEM, ECHILD, EINVAL: no property tells them apart
ERROR_NO_MESSAGE == -1007

ANY_CHILD   == -1        \* waitpid(-1); waitpid(0) too, for proc_group is 0
NOT_WAITING == 0

(***************************************************************************)
(* An entry of mmproc.  WAITING and wait_pid are one field, and so are     *)
(* REPLY and reply_rs1: the values are read only under their flags.        *)
(***************************************************************************)
Entry == [state   : {"free", "live", "zombie"},    \* IN_USE and ZOMBIE
          pid     : 0..MAX_PID,
          parent  : Slot,
          map     : Block \cup {BOOT_IMAGE},
          waiting : {NOT_WAITING, ANY_CHILD} \cup PidsAsked,
          reply   : 0..MAX_PID \cup {ERROR, ERROR_NO_MESSAGE}]

VARIABLES
    mm,      \* MM's memory: the table proc, procs_in_use, next_pid
    holes,   \* the free blocks of the hole list
    work,    \* where MM is, the caller mm_who, and the child of a fork
    inbox,   \* MM's caller list in the kernel
    kernel,  \* per user slot, what its process does in the kernel's eyes
    noMap    \* the slots with NO_MAP set

vars == <<mm, holes, work, inbox, kernel, noMap>>

proc == mm.proc
Work(step, who, child) == [step |-> step, who |-> who, child |-> child]
At(step) == work.step = step

(* REPLY is set.  With no answer due MM goes back to receive.              *)
Due == {s \in User : proc[s].reply # ERROR_NO_MESSAGE}
Answer == work' = Work(IF Due' = {} THEN "receive" ELSE "reply", NONE, NONE)

(* mm_init: the servers and ORIGIN are there; every field of every slot is *)
(* zero, as is ORIGIN_PID.                                                 *)
Init ==
    /\ mm = [proc |-> [s \in Slot |->
                          [state |-> IF s <= ORIGIN THEN "live" ELSE "free",
                           pid |-> ORIGIN_PID, parent |-> 0, map |-> BOOT_IMAGE,
                           waiting |-> NOT_WAITING, reply |-> ERROR_NO_MESSAGE]],
             procs_in_use |-> LOW_USER + 1,
             next_pid |-> ORIGIN_PID]
    /\ holes = Block
    /\ work = Work("receive", NONE, NONE)
    /\ inbox = <<>>
    /\ kernel = [s \in User |-> IF s = ORIGIN THEN "running" ELSE "none"]
    /\ noMap = {}

-----------------------------------------------------------------------------
(* A user process makes a call: SEND_REC puts it on MM's caller list.      *)
Call(p) ==
    /\ kernel[p] = "running" /\ p \notin noMap /\ Len(inbox) < MaxQueued
    /\ kernel' = [kernel EXCEPT ![p] = "calling"]
    /\ inbox' = Append(inbox, p)
    /\ UNCHANGED <<mm, holes, work, noMap>>

get_work ==
    /\ At("receive") /\ inbox # <<>>
    /\ work' = Work("call", Head(inbox), NONE)
    /\ inbox' = Tail(inbox)
    /\ kernel' = [kernel EXCEPT ![Head(inbox)] = "awaiting"]
    /\ UNCHANGED <<mm, holes, noMap>>

set_reply(m, p, rs) == [m EXCEPT !.proc[p].reply = rs]

(* A handler that returns rs and does nothing else.                        *)
Return(rs) ==
    /\ mm' = set_reply(mm, work.who, rs)
    /\ Answer
    /\ UNCHANGED <<holes, inbox, kernel, noMap>>

(* GETPID and GETPPID change nothing; the number they return is left out.  *)
do_get == At("call") /\ Return(0)

mm_no_sys == At("call") /\ Return(ERROR)

(***************************************************************************)
(* exec: any of its checks may fail, or the image is replaced in place,    *)
(* sys_exec lets the caller go, and no answer is sent.                     *)
(***************************************************************************)
do_exec ==
    /\ At("call")
    /\ \/ Return(ERROR)
       \/ /\ kernel' = [kernel EXCEPT ![work.who] = "running"]
          /\ UNCHANGED <<mm, holes, inbox, noMap>>
          /\ Answer

-----------------------------------------------------------------------------
(* A mutant of NewPid: the numbers never start again.                      *)
NewPidEndless(child) == mm.next_pid + 1

(***************************************************************************)
(* The loop that counts next_pid up, and round at MAX_PID, until no slot,  *)
(* free ones included, has the number.  The child's own slot holds its     *)
(* parent's number or the one tried before.                                *)
(***************************************************************************)
NewPid(child) ==
    LET Taken   == {proc[s].pid : s \in Slot \ {child}}
        Tries(q) == (q - mm.next_pid - 1) % MAX_PID
    IN  CHOOSE q \in (1..MAX_PID) \ Taken :
            \A r \in (1..MAX_PID) \ Taken : Tries(q) <= Tries(r)

FreeSlots == {s \in Slot : proc[s].state = "free"}

do_fork_refused ==
    /\ At("call")
    /\ mm.procs_in_use = NR_PROCS \/ holes = {}
    /\ Return(ERROR)

(* Up to sys_fork: memory by first fit, the first free slot, a copy of the *)
(* parent's entry with IN_USE alone, a new number.                         *)
do_fork ==
    /\ At("call") /\ mm.procs_in_use # NR_PROCS /\ holes # {}
    /\ LET block == Min(holes)
           child == Min(FreeSlots)
           pid   == NewPid(child)
       IN  /\ holes' = holes \ {block}
           /\ mm' = [proc |-> [proc EXCEPT ![child] =
                                  [proc[work.who] EXCEPT
                                      !.state = "live", !.pid = pid, !.parent = work.who,
                                      !.map = block, !.waiting = NOT_WAITING,
                                      !.reply = ERROR_NO_MESSAGE]],
                     procs_in_use |-> mm.procs_in_use + 1,
                     next_pid |-> pid]
           /\ work' = Work("sys_fork", work.who, child)
    /\ UNCHANGED <<inbox, kernel, noMap>>

(* The system task copies the kernel's entry, and the file system is told. *)
sys_fork ==
    /\ At("sys_fork")
    /\ kernel' = [kernel EXCEPT ![work.child] = kernel[work.who]]
    /\ noMap' = noMap \cup {work.child}
    /\ work' = [work EXCEPT !.step = "new_map"]
    /\ UNCHANGED <<mm, holes, inbox>>

sys_new_map ==
    /\ At("new_map")
    /\ noMap' = noMap \ {work.child}
    /\ mm' = set_reply(set_reply(mm, work.child, 0), work.who, proc[work.child].pid)
    /\ Answer
    /\ UNCHANGED <<holes, inbox, kernel>>

-----------------------------------------------------------------------------
(* Mutants of exit_cleanup: procs_in_use is not counted down; the parent   *)
(* is answered with a status instead of the number.                        *)
exit_cleanupNoCount(m, s) ==
    LET father == m.proc[s].parent
    IN  [set_reply(m, father, m.proc[s].pid) EXCEPT
            !.proc[father].waiting = NOT_WAITING,
            !.proc[s].state = "free"]

exit_cleanupStatus(m, s) ==
    LET father == m.proc[s].parent
    IN  [set_reply(m, father, 0) EXCEPT
            !.proc[father].waiting = NOT_WAITING,
            !.proc[s].state = "free",
            !.procs_in_use = @ - 1]

(* The parent gets the number of its dead child and the slot is free; its  *)
(* pid and parent stay in it.                                              *)
exit_cleanup(m, s) ==
    LET father == m.proc[s].parent
    IN  [set_reply(m, father, m.proc[s].pid) EXCEPT
            !.proc[father].waiting = NOT_WAITING,
            !.proc[s].state = "free",
            !.procs_in_use = @ - 1]

IsWaiting(m, p) == m.proc[p].waiting # NOT_WAITING

(* The exiting process is collected by a waiting parent, or is a zombie.   *)
Buried(m, p) ==
    IF IsWaiting(m, m.proc[p].parent) THEN exit_cleanup(m, p)
    ELSE [m EXCEPT !.proc[p].state = "zombie"]

(* A mutant of Orphaned: nobody adopts the children.                       *)
OrphanedForgotten(m, p) == m

(***************************************************************************)
(* The loop over the children of a process that is gone: ORIGIN is their   *)
(* parent now, and if it waits it gets the first zombie among them, which  *)
(* ends its waiting.                                                       *)
(***************************************************************************)
Orphaned(m, p) ==
    LET orphans == {s \in Slot : m.proc[s].parent = p}
        adopted == [m EXCEPT !.proc = [s \in Slot |-> [m.proc[s] EXCEPT
                                          !.parent = IF s \in orphans THEN ORIGIN ELSE @]]]
        zombies == {s \in orphans : m.proc[s].state = "zombie"}
    IN  IF zombies # {} /\ IsWaiting(m, ORIGIN)
        THEN exit_cleanup(adopted, Min(zombies))
        ELSE adopted

(* Mutant of Freed: the image of a process that exits is not given back.   *)
FreedNothing(p) == holes

Freed(p) == holes \cup {proc[p].map}

(* ORIGIN's main function does not return while it can wait.               *)
do_exit ==
    /\ At("call") /\ work.who # ORIGIN
    /\ work' = [work EXCEPT !.step = "sys_exit"]
    /\ UNCHANGED <<mm, holes, inbox, kernel, noMap>>

mm_exit ==
    /\ At("sys_exit")
    /\ kernel' = [kernel EXCEPT ![work.who] = "none"]
    /\ holes' = Freed(work.who)
    /\ mm' = Orphaned(Buried(mm, work.who), work.who)
    /\ Answer
    /\ UNCHANGED <<inbox, noMap>>

-----------------------------------------------------------------------------
Accepts(pid, s) == pid > 0 => proc[s].pid = pid

(* The slots that mm_waitpid counts as children, in use or not.            *)
Counted(pid) == {s \in Slot : proc[s].parent = work.who /\ Accepts(pid, s)}
ZombiesOf(pid) == {s \in Counted(pid) : proc[s].state = "zombie"}

waitpid_collect(pid) ==
    /\ ZombiesOf(pid) # {}
    /\ mm' = exit_cleanup(mm, Min(ZombiesOf(pid)))
    /\ Answer
    /\ UNCHANGED <<holes, inbox, kernel, noMap>>

waitpid_nohang(pid) ==
    /\ ZombiesOf(pid) = {} /\ Counted(pid) # {}
    /\ Return(0)

(* Mutant of waitpid_block: the caller is answered as well.                *)
waitpid_blockAnswered(pid) ==
    /\ ZombiesOf(pid) = {} /\ Counted(pid) # {}
    /\ mm' = [set_reply(mm, work.who, 0) EXCEPT !.proc[work.who].waiting = pid]
    /\ Answer
    /\ UNCHANGED <<holes, inbox, kernel, noMap>>

waitpid_block(pid) ==
    /\ ZombiesOf(pid) = {} /\ Counted(pid) # {}
    /\ mm' = [mm EXCEPT !.proc[work.who].waiting = pid]
    /\ Answer
    /\ UNCHANGED <<holes, inbox, kernel, noMap>>

waitpid_none(pid) == Counted(pid) = {} /\ Return(ERROR)

mm_waitpid ==
    /\ At("call")
    /\ \E pid \in {ANY_CHILD} \cup PidsAsked :
          \/ waitpid_collect(pid) \/ waitpid_none(pid)
          \/ waitpid_nohang(pid) \/ waitpid_block(pid)

-----------------------------------------------------------------------------
(* The loop of mm_main that sends the answers, in the order of the slots.  *)
(* send() to a process that does not wait for MM would block MM.           *)
Reply ==
    /\ At("reply")
    /\ kernel[Min(Due)] = "awaiting"
    /\ kernel' = [kernel EXCEPT ![Min(Due)] = "running"]
    /\ mm' = set_reply(mm, Min(Due), ERROR_NO_MESSAGE)
    /\ Answer
    /\ UNCHANGED <<holes, inbox, noMap>>

mm_main ==
    \/ get_work \/ do_get \/ mm_no_sys \/ do_exec
    \/ do_fork_refused \/ do_fork \/ sys_fork \/ sys_new_map
    \/ do_exit \/ mm_exit \/ mm_waitpid
    \/ Reply

Next == mm_main \/ \E p \in User : Call(p)

Spec == Init /\ [][Next]_vars

-----------------------------------------------------------------------------
(* Every field of both tables holds a value of its kind.                   *)
TypeOK ==
    /\ mm \in [proc : [Slot -> Entry], procs_in_use : 0..NR_PROCS, next_pid : 0..MAX_PID]
    /\ holes \subseteq Block
    /\ work \in [step : {"receive", "call", "sys_fork", "new_map", "sys_exit", "reply"},
                 who : User \cup {NONE}, child : User \cup {NONE}]
    /\ inbox \in Seq(User)
    /\ kernel \in [User -> {"none", "running", "calling", "awaiting"}]
    /\ noMap \subseteq User

InUse(s) == proc[s].state # "free"
Live(s) == proc[s].state = "live"

(* No two processes, zombies included, ever share a process number, also   *)
(* after the numbers have started again from 1 (do_fork).                  *)
PidsUnique ==
    \A s, r \in User : InUse(s) /\ InUse(r) /\ proc[s].pid = proc[r].pid => s = r

(***************************************************************************)
(* The tables of MM and of the kernel agree: procs_in_use counts the slots *)
(* in use, and the kernel has a process in a slot exactly when MM has a    *)
(* live one there, but for the child between MM's half of fork and the     *)
(* kernel's.  The assertion of the kernel that a child's slot is empty     *)
(* (system.c:99) rests on it.  And every process number names one process. *)
(***************************************************************************)
TablesAgree ==
    /\ PidsUnique
    /\ mm.procs_in_use = Cardinality({s \in Slot : InUse(s)})
    /\ \A s \in User :
          kernel[s] # "none" <=> Live(s) /\ ~ (At("sys_fork") /\ s = work.child)

(* Every block of memory is on the hole list or is the image of exactly    *)
(* one live process: nothing is shared, lost or freed twice, whatever      *)
(* fork, exec and exit fail or do (do_fork, mm_exit).                      *)
MemoryOwned ==
    /\ \A s \in User \ {ORIGIN} : Live(s) => proc[s].map \in Block \ holes
    /\ \A b \in Block \ holes : \E s \in User : Live(s) /\ proc[s].map = b
    /\ \A s, r \in User \ {ORIGIN} : Live(s) /\ Live(r) /\ proc[s].map = proc[r].map => s = r

(***************************************************************************)
(* MM owes an answer to exactly the processes that wait for one: an answer *)
(* that is due goes to a process blocked in its call, so the send of       *)
(* mm_main neither blocks nor panics (main.c:57), and a process blocked in *)
(* its call has an answer due, or waits for a child, or is the one that MM *)
(* is busy with.                                                           *)
(***************************************************************************)
AnswersOwed ==
    \A s \in User :
        /\ proc[s].reply # ERROR_NO_MESSAGE =>
              kernel[s] = "awaiting" /\ proc[s].waiting = NOT_WAITING
        /\ proc[s].waiting # NOT_WAITING => kernel[s] = "awaiting"
        /\ kernel[s] = "awaiting" =>
              \/ s \in Due
              \/ proc[s].waiting # NOT_WAITING
              \/ s \in {work.who, work.child}

(* A process does not wait for a child that is dead already: whichever of  *)
(* exit and wait comes first, also when the child was somebody else's      *)
(* before (mm_exit, mm_waitpid).                                           *)
NoZombieAwaited ==
    \A p \in User : proc[p].waiting # NOT_WAITING =>
        ~ \E s \in Slot : /\ proc[s].parent = p /\ proc[s].state = "zombie"
                          /\ Accepts(proc[p].waiting, s)

(* Whoever dies, the parent of a process or of a zombie is a live user     *)
(* process, which the kernel asserts when the child exits (system.c:227)   *)
(* and without which a zombie could never be collected.                    *)
ParentAlive ==
    \A s \in User \ {ORIGIN} : InUse(s) => proc[s].parent \in User /\ Live(proc[s].parent)

(* Parents and children find each other, whoever dies first.               *)
FamilyKept == NoZombieAwaited /\ ParentAlive

(***************************************************************************)
(* A slot is given up only together with an answer to the parent that      *)
(* carries the number of the process: no death is collected unreported,    *)
(* and none in the place of another (exit_cleanup and its three callers).  *)
(***************************************************************************)
Reported ==
    \A s \in User : InUse(s) /\ ~ InUse(s)' =>
        mm'.proc[mm'.proc[s].parent].reply = proc[s].pid

EveryDeathReported == [][Reported]_vars

(* fork_exit.c:234 says that a process that has no child gets an error     *)
(* from wait: whoever waits has a child.                                   *)
WaiterHasChild ==
    \A p \in User : proc[p].waiting # NOT_WAITING =>
        \E s \in User : InUse(s) /\ proc[s].parent = p

(* fork_exit.c:250 says that waitpid can wait for one particular child:    *)
(* the waiting for a pid ends with that pid.                               *)
Precise ==
    \A p \in User : proc[p].waiting > 0 /\ mm'.proc[p].waiting = NOT_WAITING =>
        mm'.proc[p].reply = proc[p].waiting

PreciseWait == [][Precise]_vars
=============================================================================
