-------------------------------- MODULE Disk --------------------------------
(***************************************************************************)
(* The AT disk task (kernel/at_wind.c), one drive: commands to the         *)
(* controller, sectors through its data port, and the interrupts between.  *)
(*                                                                         *)
(* The controller is external: it is what the code takes it for.  A read   *)
(* raises an interrupt for each sector that is ready, a write one for each *)
(* sector that has been taken; reading its status takes the interrupt back *)
(* unless the interrupt controller has latched it (LATCH).  What it has to *)
(* do it does before HD_TIMEOUT: of the panics after wini_wait_for only    *)
(* that of a write with nothing left to ask for is here.                   *)
(*                                                                         *)
(* The caller is the file system, one request at a time, whole sectors,    *)
(* an open first.  Without whole sectors the loop of wini_do_readwrite     *)
(* would not end.                                                          *)
(***************************************************************************)
EXTENDS Integers, Sequences, FiniteSets, SequencesExt

CONSTANTS
    Value,      \* what a sector can hold
    Table,      \* what sector 0 holds: the partition table
    Garbage,    \* what the data port gives when no sector is ready
    BASE,       \* the first sector of the partition, as the table says
    SECTS,      \* the sectors of the drive
    COUNT_REG,  \* the sectors of one command: its count has 8 bits, 0 stands for all 256
    MaxCount,   \* bound: sectors in a request
    MaxOpen,    \* bound: opens
    LATCH       \* whether an interrupt that was polled for comes later

ASSUME DiskAssumption ==
    /\ {Table, Garbage} \cap Value = {} /\ Table # Garbage
    /\ SECTS \in Nat /\ BASE \in 1 .. SECTS - MaxCount
    /\ MaxCount \in Nat \ {0} /\ MaxOpen \in Nat /\ COUNT_REG \in Nat \ {0}
    /\ LATCH \in BOOLEAN

VARIABLES
    disk,       \* the sectors
    drive,      \* the controller: idle, busy or with a sector at its port
    irq,        \* its interrupt
    hard,       \* the interrupt message that waits for the task
    intr_open,
    open_count, base,   \* hd_info
    task,       \* where the task is, its request, its buffer
    asked,      \* the request of the file system, until it is answered
    image       \* the sectors as the answers to writes promise them

vars == <<disk, drive, irq, hard, intr_open, open_count, base, task, asked, image>>

Sector == 0 .. SECTS - 1
SIZE == SECTS - BASE

(* Blocks of a request: the sectors are within the partition.              *)
Request ==
    [kind : {"open", "close", "ioctl", "gather", "other"}, pos : {0}, data : {<< >>}, count : {0}]
    \cup {r \in [kind : {"read"}, pos : 0 .. SIZE - 1, data : {<< >>}, count : 1 .. MaxCount] :
            r.pos + r.count <= SIZE}
    \cup {r \in [kind : {"write"}, pos : 0 .. SIZE - 1,
                 data : UNION {[1 .. n -> Value] : n \in 1 .. MaxCount}, count : 1 .. MaxCount] :
            r.pos + r.count <= SIZE /\ Len(r.data) = r.count}

None == [kind |-> "none", pos |-> 0, data |-> << >>, count |-> 0]

Idle == [at |-> "idle", op |-> "none", sect |-> 0, left |-> 0]

Waiting == [at |-> "receive", req |-> None, left |-> 0, got |-> << >>]

Init ==
    /\ \E v \in Value : disk = [s \in Sector |-> IF s = 0 THEN Table ELSE v]
    /\ drive = Idle
    /\ irq = FALSE /\ hard = FALSE /\ intr_open = FALSE
    /\ open_count = 0 /\ base = 0
    /\ task = Waiting
    /\ asked = None
    /\ image = disk

------------------------------------------------------------------------------
(* The controller                                                          *)

drive_read ==
    /\ drive.at = "busy" /\ drive.op # "write"
    /\ drive' = [drive EXCEPT !.at = "data"]
    /\ irq' = TRUE
    /\ UNCHANGED <<disk, hard, intr_open, open_count, base, task, asked, image>>

(* The first sector of a write is asked for without an interrupt.          *)
drive_write ==
    /\ drive.at = "busy" /\ drive.op = "write"
    /\ drive' = [drive EXCEPT !.at = "data", !.op = "writing"]
    /\ UNCHANGED <<disk, irq, hard, intr_open, open_count, base, task, asked, image>>

drive_written ==
    /\ drive.at = "taken"
    /\ disk' = [disk EXCEPT ![drive.sect] = drive.data]
    /\ drive' = IF drive.left = 1 THEN Idle
                ELSE [at |-> "data", op |-> "writing", sect |-> drive.sect + 1, left |-> drive.left - 1]
    /\ irq' = TRUE
    /\ UNCHANGED <<hard, intr_open, open_count, base, task, asked, image>>

(* wini_handler: interrupt() keeps one message for a task that is not      *)
(* waiting; a second one is the same.                                      *)
wini_handler ==
    /\ irq /\ intr_open
    /\ irq' = FALSE
    /\ hard' = TRUE
    /\ UNCHANGED <<disk, drive, intr_open, open_count, base, task, asked, image>>

------------------------------------------------------------------------------
(* The task                                                                *)

At(at) == task.at = at
Go(at) == task' = [task EXCEPT !.at = at]

Reads == UNCHANGED <<disk, image, asked>>

(* cmd_out waits until the controller is not busy.                         *)
cmd_out(op, sect, count) ==
    /\ drive.at # "busy" /\ drive.at # "taken"
    /\ drive' = [at |-> "busy", op |-> op, sect |-> sect, left |-> count]

(* port_read: the sector at the port, if there is one.                     *)
Port == CASE drive.at = "data" /\ drive.op = "read"     -> disk[drive.sect]
          [] drive.at = "data" /\ drive.op = "identify" -> Table
          [] OTHER                                      -> Garbage

port_read ==
    drive' = CASE drive.at # "data" -> drive
               [] drive.left = 1    -> Idle
               [] OTHER             -> [drive EXCEPT !.at = "busy", !.sect = @ + 1, !.left = @ - 1]

(* A mutant that does not wait for the interrupt.                          *)
wini_interrupt_waitNotMutant(next) ==
    Go(next) /\ hard' = FALSE /\ UNCHANGED irq

(* wini_interrupt_wait: an interrupt message, whatever it is left from, or *)
(* the status while there are no interrupts.                               *)
wini_interrupt_wait(next) ==
    \/ /\ intr_open /\ hard
       /\ hard' = FALSE
       /\ Go(next) /\ UNCHANGED irq
    \/ /\ ~ intr_open /\ drive.at # "busy" /\ drive.at # "taken"
       /\ irq' = (irq /\ LATCH)
       /\ Go(next) /\ UNCHANGED hard

(* receive(ANY): a caller comes before an interrupt, and that is ignored.  *)
(* With a controller that does not latch there is none (NothingLeftOver).  *)
wini_receive ==
    /\ At("receive")
    /\ asked = None => hard
    /\ IF asked # None
       THEN /\ task' = [Waiting EXCEPT !.at = asked.kind, !.req = asked, !.left = asked.count]
            /\ UNCHANGED hard
       ELSE hard' = FALSE /\ UNCHANGED task
    /\ Reads /\ UNCHANGED <<drive, irq, intr_open, open_count, base>>

(* wini_do_open, wini_identify: polled the first time.                     *)
wini_identify ==
    /\ At("open")
    /\ cmd_out("identify", 0, 1)
    /\ Go("identify")
    /\ Reads /\ UNCHANGED <<irq, hard, intr_open, open_count, base>>

identify_wait ==
    /\ At("identify")
    /\ wini_interrupt_wait("identified")
    /\ Reads /\ UNCHANGED <<drive, intr_open, open_count, base>>

wini_do_open ==
    /\ At("identified")
    /\ port_read
    /\ intr_open' = TRUE
    /\ open_count' = open_count + 1
    /\ Go(IF open_count = 0 THEN "partition" ELSE "reply")
    /\ Reads /\ UNCHANGED <<irq, hard, base>>

(* partition, get_part_table: the table is in sector 0.  The partition is  *)
(* where the table says it is; a garbled table gives it another place.     *)
get_part_table ==
    /\ At("partition")
    /\ cmd_out("read", 0, 1)
    /\ Go("table")
    /\ Reads /\ UNCHANGED <<irq, hard, intr_open, open_count, base>>

table_wait ==
    /\ At("table")
    /\ wini_interrupt_wait("tabled")
    /\ Reads /\ UNCHANGED <<drive, intr_open, open_count, base>>

partition ==
    /\ At("tabled")
    /\ base' = IF Port = Table THEN BASE ELSE 0
    /\ port_read
    /\ Go("reply")
    /\ Reads /\ UNCHANGED <<irq, hard, intr_open, open_count>>

wini_do_close ==
    /\ At("close")
    /\ open_count' = open_count - 1
    /\ Go("reply")
    /\ Reads /\ UNCHANGED <<drive, irq, hard, intr_open, base>>

(* wini_do_ioctl copies the geometry out (nobody asks it to set one);      *)
(* wini_do_vreadwrite and unknown requests are errors.                     *)
wini_do_other ==
    /\ task.at \in {"ioctl", "gather", "other"}
    /\ Go("reply")
    /\ Reads /\ UNCHANGED <<drive, irq, hard, intr_open, open_count, base>>

(* What the drive makes of the count in cmd.count, a u8_t.                 *)
Served(count) == IF count % COUNT_REG = 0 THEN COUNT_REG ELSE count % COUNT_REG

(* Mutants: a count that is rounded up from a whole number, and a write    *)
(* that waits for an interrupt before its first sector.                    *)
wini_do_readwriteOverMutant ==
    /\ task.at \in {"read", "write"}
    /\ cmd_out(task.at, base + task.req.pos, Served(task.req.count + 1))
    /\ Go(IF task.at = "read" THEN "ready?" ELSE "drq?")
    /\ Reads /\ UNCHANGED <<irq, hard, intr_open, open_count, base>>

wini_do_readwriteWaitMutant ==
    /\ task.at \in {"read", "write"}
    /\ cmd_out(task.at, base + task.req.pos, Served(task.req.count))
    /\ Go(IF task.at = "read" THEN "ready?" ELSE "written?")
    /\ Reads /\ UNCHANGED <<irq, hard, intr_open, open_count, base>>

wini_do_readwrite ==
    /\ task.at \in {"read", "write"}
    /\ cmd_out(task.at, base + task.req.pos, Served(task.req.count))
    /\ Go(IF task.at = "read" THEN "ready?" ELSE "drq?")
    /\ Reads /\ UNCHANGED <<irq, hard, intr_open, open_count, base>>

read_wait ==
    /\ At("ready?")
    /\ wini_interrupt_wait("ready")
    /\ Reads /\ UNCHANGED <<drive, intr_open, open_count, base>>

read_sector ==
    /\ At("ready")
    /\ port_read
    /\ task' = [task EXCEPT !.at = IF task.left = 1 THEN "reply" ELSE "ready?",
                            !.left = @ - 1, !.got = Append(@, Port)]
    /\ Reads /\ UNCHANGED <<irq, hard, intr_open, open_count, base>>

(* wini_wait_for(STATUS_DRQ), port_write.                                  *)
write_sector ==
    LET sector == task.req.data[task.req.count - task.left + 1] IN
    /\ At("drq?") /\ drive.at = "data"
    /\ drive' = [at |-> "taken", op |-> "writing", sect |-> drive.sect, left |-> drive.left, data |-> sector]
    /\ Go("written?")
    /\ Reads /\ UNCHANGED <<irq, hard, intr_open, open_count, base>>

(* The drive has taken all it was told of: it never asks for this sector.  *)
(* A read waits for it in wini_interrupt_wait, without an end.             *)
write_panic ==
    /\ At("drq?") /\ drive.at = "idle"
    /\ Go("panic")
    /\ Reads /\ UNCHANGED <<drive, irq, hard, intr_open, open_count, base>>

write_wait ==
    /\ At("written?")
    /\ wini_interrupt_wait("written")
    /\ Reads /\ UNCHANGED <<drive, intr_open, open_count, base>>

write_next ==
    /\ At("written")
    /\ task' = [task EXCEPT !.at = IF task.left = 1 THEN "reply" ELSE "drq?", !.left = @ - 1]
    /\ Reads /\ UNCHANGED <<drive, irq, hard, intr_open, open_count, base>>

Written(req) ==
    [s \in Sector |-> IF s - BASE - req.pos \in 0 .. req.count - 1
                      THEN req.data[s - BASE - req.pos + 1] ELSE image[s]]

wini_reply ==
    /\ At("reply")
    /\ asked' = None
    /\ image' = IF task.req.kind = "write" THEN Written(task.req) ELSE image
    /\ task' = Waiting
    /\ UNCHANGED <<disk, drive, irq, hard, intr_open, open_count, base>>

------------------------------------------------------------------------------
(* dev_open, dev_close, dev_io, dev_ioctl of the file system.              *)
fs_call(req) ==
    /\ asked = None
    /\ req.kind # "open" => open_count > 0
    /\ req.kind = "open" => open_count < MaxOpen
    /\ asked' = req
    /\ UNCHANGED <<disk, drive, irq, hard, intr_open, open_count, base, task, image>>

DriveStep == drive_read \/ drive_write \/ drive_written

TaskStep ==
    \/ wini_receive
    \/ wini_identify \/ identify_wait \/ wini_do_open
    \/ get_part_table \/ table_wait \/ partition
    \/ wini_do_close \/ wini_do_other
    \/ wini_do_readwrite \/ read_wait \/ read_sector
    \/ write_sector \/ write_panic \/ write_wait \/ write_next
    \/ wini_reply

Next ==
    \/ DriveStep
    \/ wini_handler
    \/ TaskStep
    \/ \E req \in Request : fs_call(req)

(* The drive comes to an end of what it does, an interrupt comes in, and   *)
(* the task runs when it can.                                              *)
Fairness ==
    /\ WF_vars(DriveStep)
    /\ WF_vars(wini_handler)
    /\ WF_vars(TaskStep)

Spec == Init /\ [][Next]_vars /\ Fairness

------------------------------------------------------------------------------
(* Every field holds a value of its kind.                                *)
TypeOK ==
    /\ disk \in [Sector -> Value \cup {Table}] /\ image \in [Sector -> Value \cup {Table}]
    /\ drive.at \in {"idle", "busy", "data", "taken"}
    /\ drive.sect \in Sector /\ drive.left \in 0 .. MaxCount
    /\ irq \in BOOLEAN /\ hard \in BOOLEAN /\ intr_open \in BOOLEAN
    /\ open_count \in 0 .. MaxOpen /\ base \in {0, BASE}
    /\ asked \in Request \cup {None} /\ task.req \in Request \cup {None}
    /\ task.left \in 0 .. MaxCount

(* The answer to a read stands for the sectors that were asked for, as     *)
(* they are on the disk.                                                   *)
ReadsRight ==
    task.at = "reply" /\ task.req.kind = "read" =>
        task.got = [i \in 1 .. task.req.count |-> disk[BASE + task.req.pos + i - 1]]

(* Between two requests the disk holds what the answers have promised, and *)
(* a write has touched no other sector.                                    *)
WritesDone == task.at = "receive" => disk = image

(* What is read and what is written is what was asked for, and stays so    *)
(* over any sequence of opens, closes and transfers (wini_do_readwrite).   *)
TransfersRight == TypeOK /\ ReadsRight /\ WritesDone

(* An interrupt is never left over for the next command: when one is given *)
(* the controller is idle and no interrupt is on its way.                  *)
NothingLeftOver ==
    task.at \in {"receive", "read", "write", "partition"} =>
        drive.at = "idle" /\ ~ irq /\ ~ hard

(* Every request of the file system for what one command can transfer is   *)
(* answered, behind whatever opens, closes and transfers it comes.         *)
Answered == asked # None /\ asked.count <= COUNT_REG ~> asked = None

(* The requester is given an answer at last (at_wind.c:116), also for the  *)
(* 2048 sectors that the file system may ask for at once.                  *)
EveryAnswered == asked # None ~> asked = None
=============================================================================
