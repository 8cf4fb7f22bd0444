------------------------------ MODULE Terminal ------------------------------
(***************************************************************************)
(* The terminal task (kernel/tty.c) between the keyboard's handler and the *)
(* file system: keys, the ring of scan codes, the input queues of the      *)
(* consoles, reads that wait for a line, writes that wait for ^Q, and the  *)
(* messages with which the file system suspends and revives their callers. *)
(*                                                                         *)
(* Nothing in the system changes termios (do_ioctl only echoes), so a      *)
(* console is always in canonical mode, with tty->min = 1, IXON and IXANY; *)
(* a transfer then always ends the read, and in_cum is 0 between two.      *)
(* Echoes and what the screen shows are in Console.                        *)
(*                                                                         *)
(* The task, the handlers and the file system interleave at messages and   *)
(* keys.  The file system may run before a ready task: a server that       *)
(* becomes ready on an empty list takes the CPU (ReadyQueues.ReadySystem). *)
(***************************************************************************)
EXTENDS Integers, Sequences, FiniteSets, SequencesExt

CONSTANTS
    Proc,         \* the processes that read and write
    NonBlocking,  \* those whose calls must not block: servers
    NR_CONSOLES,  \* consoles, numbered from 0
    Key,          \* the keys that are struck
    RING,         \* KEYBOARD_IN_BYTES
    INPUT,        \* TTY_INPUT_BYTES
    Counts,       \* bound: the counts of a read; 0 stands for a bad argument
    NoOne         \* in the place of a process

Keys == {"text", "newline", "eof", "erase", "kill", "lnext", "stop", "start", "left", "right"}

ASSUME TerminalAssumption ==
    /\ NonBlocking \subseteq Proc /\ NoOne \notin Proc
    /\ {NR_CONSOLES, RING, INPUT} \subseteq Nat \ {0}
    /\ Key \subseteq Keys
    /\ Counts \subseteq Nat

VARIABLES
    ring,         \* the scan codes that the task has not read yet
    current,      \* current_console_nr
    wake,         \* tty_wake_time is 0: the next tick wakes the task
    hard,         \* an interrupt message waits for the task
    tty,          \* tty_table
    task,         \* where the terminal task is
    fs,           \* where the file system is
    suspended,    \* fsproc[p].suspended
    halted        \* "no", or how it ended

vars == <<ring, current, wake, hard, tty, task, fs, suspended, halted>>

Line == 0 .. NR_CONSOLES - 1

NoReq == [kind |-> "none", proc |-> NoOne, line |-> 0, count |-> 0]
NoMsg == [code |-> "none", proc |-> NoOne, status |-> "none"]

(* What the file system asks of the task.  An open only names its caller.  *)
Request ==
    [kind : {"read"}, proc : Proc, line : Line, count : Counts]
    \cup [kind : {"write"}, proc : Proc, line : Line, count : {1}]
    \cup [kind : {"open"}, proc : Proc, line : {0}, count : {0}]

(* A console: the fields of struct tty_s that a transfer goes by.          *)
Idle == [events |-> {}, queue |-> << >>, eot_count |-> 0, escaped |-> FALSE,
         in_left |-> 0, in_proc |-> NoOne, in_code |-> "none",
         out_left |-> 0, out_proc |-> NoOne, out_code |-> "none",
         inhibited |-> FALSE]

(* The main loop looks at the events of the consoles in turn, READ before  *)
(* WRITE: pos is how far it has come, ctty the console that keyboard_read  *)
(* feeds, after what handle_read returns to, next where a send returns to. *)
Scan    == [at |-> "scan", pos |-> 0, ctty |-> 0, after |-> "scan", msg |-> NoMsg, next |-> "scan"]
Receive == [Scan EXCEPT !.at = "receive"]
Free    == [at |-> "receive", req |-> NoReq, status |-> "none"]

Init ==
    /\ ring = << >>
    /\ current = 0
    /\ wake = FALSE
    /\ hard = FALSE
    /\ tty = [c \in Line |-> Idle]
    /\ task = Receive
    /\ fs = Free
    /\ suspended = [p \in Proc |-> FALSE]
    /\ halted = "no"

------------------------------------------------------------------------------
(* Interrupts                                                              *)

RunningSystem == halted = "no"

(* A mutant that does not set tty_wake_time.                               *)
keyboard_handlerAsleepMutant(key) ==
    /\ RunningSystem /\ Len(ring) < RING
    /\ ring' = Append(ring, key)
    /\ tty' = [tty EXCEPT ![current].events = @ \cup {"READ"}]
    /\ UNCHANGED <<current, wake, hard, task, fs, suspended, halted>>

(* A mutant that lets the ring overrun by one.                             *)
keyboard_handlerOverMutant(key) ==
    /\ RunningSystem /\ Len(ring) <= RING
    /\ ring' = Append(ring, key)
    /\ tty' = [tty EXCEPT ![current].events = @ \cup {"READ"}]
    /\ wake' = TRUE
    /\ UNCHANGED <<current, hard, task, fs, suspended, halted>>

(* A key that finds the ring full is lost, and changes nothing.            *)
keyboard_handler(key) ==
    /\ RunningSystem /\ Len(ring) < RING
    /\ ring' = Append(ring, key)
    /\ tty' = [tty EXCEPT ![current].events = @ \cup {"READ"}]
    /\ wake' = TRUE
    /\ UNCHANGED <<current, hard, task, fs, suspended, halted>>

(* clock_handler: tty_wakeup.  No console has an alarm of its own.         *)
tty_wakeup ==
    /\ RunningSystem /\ wake
    /\ wake' = FALSE
    /\ hard' = TRUE
    /\ UNCHANGED <<ring, current, tty, task, fs, suspended, halted>>

------------------------------------------------------------------------------
(* One console's input queue                                               *)

Eot(ch) == ch \in {"newline", "eof"}

(* A mutant that backs over the end of the last line.                      *)
back_overLineMutant(t) == IF t.queue = << >> THEN t ELSE [t EXCEPT !.queue = Front(@)]

(* back_over stops at the end of the last line.                            *)
back_over(t) ==
    IF t.queue = << >> \/ Eot(Last(t.queue)) THEN t ELSE [t EXCEPT !.queue = Front(@)]

(* VKILL: back_over until it fails.                                        *)
Erased(t) ==
    LET ends == {i \in 1 .. Len(t.queue) : Eot(t.queue[i])} \cup {0}
    IN  [t EXCEPT !.queue = SubSeq(@, 1, Max(ends))]

(* The character that a key leaves: ^Q that restarts nothing, ^U that has  *)
(* erased its line, and whatever follows ^V go into the queue as text.     *)
Char(key, escaped) == IF ~ escaped /\ Eot(key) THEN key ELSE "text"

(* A full queue loses the character.                                       *)
Stored(t, ch) ==
    IF Len(t.queue) = INPUT THEN t
    ELSE [t EXCEPT !.queue = Append(@, ch), !.eot_count = IF Eot(ch) THEN @ + 1 ELSE @]

(* IXANY: any key restarts the output.                                     *)
Restarted(t) ==
    IF t.inhibited THEN [t EXCEPT !.inhibited = FALSE, !.events = @ \cup {"WRITE"}] ELSE t

input_handler(t, key) ==
    LET u    == [t EXCEPT !.escaped = FALSE]
        k    == IF t.escaped THEN "text" ELSE key
        text == Char(k, FALSE)
    IN  CASE k = "lnext" -> [u EXCEPT !.escaped = TRUE]
          [] k = "erase" -> back_over(u)
          [] k = "stop"  -> [u EXCEPT !.inhibited = TRUE, !.events = @ \cup {"WRITE"}]
          [] k = "kill"  -> Stored(Restarted(Erased(u)), text)
          [] k = "start" /\ t.inhibited -> Restarted(u)
          [] OTHER       -> Stored(Restarted(u), text)

(* in_transfer.  It returns unless somebody reads and there is a whole     *)
(* line; it takes what fits, and the end of the line if that fits too.     *)
CanTransfer(t) == t.in_left > 0 /\ t.eot_count >= 1

Taken(t) ==
    LET ends == {i \in 1 .. Len(t.queue) : Eot(t.queue[i])}
        first == IF ends = {} THEN Len(t.queue) ELSE Min(ends)
    IN  IF t.queue[first] = "newline" \/ t.in_left < first - 1 THEN Min({first, t.in_left})
        ELSE IF t.in_left = first - 1 THEN first - 1 ELSE first

NotReading(t) == [t EXCEPT !.in_left = 0, !.in_proc = NoOne, !.in_code = "none"]
NotWriting(t) == [t EXCEPT !.out_left = 0, !.out_proc = NoOne, !.out_code = "none"]

Transferred(t) ==
    LET n == Taken(t) IN
    NotReading([t EXCEPT !.queue = SubSeq(@, n + 1, Len(@)),
                         !.eot_count = @ - Cardinality({i \in 1 .. n : Eot(t.queue[i])})])

TransferMsg(t) == [code |-> t.in_code, proc |-> t.in_proc, status |-> "done"]

------------------------------------------------------------------------------
(* The terminal task                                                       *)

At(at) == RunningSystem /\ task.at = at

line == task.pos \div 2

Go(at)         == task' = [task EXCEPT !.at = at]
Send(msg, at)  == task' = [task EXCEPT !.at = "send", !.msg = msg, !.next = at]
Answer(p, status) ==
    task' = [Scan EXCEPT !.at = "send", !.msg = [code |-> "TASK_REPLY", proc |-> p, status |-> status]]

Quiet == UNCHANGED <<current, wake, fs, suspended, halted>>

(* handle_read clears the event before the keyboard is read, and           *)
(* keyboard_read feeds the console that is shown when it starts.           *)
handle_read(c, after) ==
    /\ tty' = [tty EXCEPT ![c].events = @ \ {"READ"}]
    /\ task' = [task EXCEPT !.at = "keys", !.pos = 2 * c, !.ctty = current, !.after = after]

(* console.c write: everything, unless the console is stopped.             *)
Writable(t) == t.out_left > 0 /\ ~ t.inhibited

WrittenMsg(t) == [code |-> t.out_code, proc |-> t.out_proc, status |-> "done"]

handle_write(c) ==
    LET t == tty[c]
        u == [t EXCEPT !.events = @ \ {"WRITE"}]
    IN  IF Writable(t)
        THEN /\ tty' = [tty EXCEPT ![c] = NotWriting(u)]
             /\ task' = [Scan EXCEPT !.at = "send", !.pos = 2 * c + 2, !.msg = WrittenMsg(t)]
        ELSE /\ tty' = [tty EXCEPT ![c] = u]
             /\ task' = [Scan EXCEPT !.pos = 2 * c + 2]

(* On to the next event, or to receive: the looks in between that find     *)
(* nothing are part of the step.                                           *)
Event(pos) == IF pos % 2 = 0 THEN "READ" ELSE "WRITE"

scan ==
    LET due == {pos \in task.pos .. 2 * NR_CONSOLES - 1 : Event(pos) \in tty[pos \div 2].events}
        c   == Min(due) \div 2
    IN  /\ At("scan")
        /\ \/ due = {} /\ task' = Receive /\ UNCHANGED tty
           \/ due # {} /\ Event(Min(due)) = "READ" /\ handle_read(c, "scan")
           \/ due # {} /\ Event(Min(due)) = "WRITE" /\ handle_write(c)
        /\ UNCHANGED <<ring, hard>> /\ Quiet

Switched(key) ==
    LET c == IF key = "left" THEN current - 1 ELSE current + 1
    IN  IF c \in Line THEN c ELSE current

(* A key for the task itself, or a character for a console.  The character *)
(* that fills the queue calls in_transfer.                                 *)
keyboard_read ==
    LET key == Head(ring)
        c   == task.ctty
        t   == input_handler(tty[c], key)
        filled == Len(t.queue) = INPUT /\ Len(tty[c].queue) < INPUT /\ CanTransfer(t)
    IN  /\ At("keys") /\ ring # << >>
        /\ ring' = Tail(ring)
        /\ \/ /\ key \in {"left", "right"}
              /\ current' = Switched(key) /\ UNCHANGED <<tty, task>>
           \/ /\ key \notin {"left", "right"} /\ filled
              /\ tty' = [tty EXCEPT ![c] = Transferred(t)]
              /\ Send(TransferMsg(t), "keys") /\ UNCHANGED current
           \/ /\ key \notin {"left", "right"} /\ ~ filled
              /\ tty' = [tty EXCEPT ![c] = t] /\ UNCHANGED <<task, current>>
        /\ UNCHANGED <<wake, hard, fs, suspended, halted>>

(* The end of handle_read: again if a key came in, else in_transfer.       *)
tty_transfer ==
    LET t    == tty[line]
        done == [task EXCEPT !.pos = @ + 1, !.ctty = 0, !.after = "scan"]
        back == IF task.after = "answer" THEN [task EXCEPT !.ctty = 0] ELSE done
    IN  /\ At("keys") /\ ring = << >>
        /\ IF "READ" \in t.events
           THEN handle_read(line, task.after)
           ELSE IF CanTransfer(t)
           THEN /\ tty' = [tty EXCEPT ![line] = Transferred(t)]
                /\ task' = [back EXCEPT !.at = "send", !.msg = TransferMsg(t), !.next = task.after]
           ELSE task' = [back EXCEPT !.at = task.after] /\ UNCHANGED tty
        /\ UNCHANGED <<ring, hard>> /\ Quiet

(* do_read up to the end of the first in_transfer.                         *)
do_read(req) ==
    LET t == tty[req.line]
        u == [t EXCEPT !.in_left = req.count, !.in_proc = req.proc, !.in_code = "TASK_REPLY"]
        again == [Scan EXCEPT !.at = "again", !.pos = 2 * req.line]
    IN  \/ /\ t.in_left > 0 \/ req.count = 0
           /\ Answer(req.proc, "error") /\ UNCHANGED tty
        \/ /\ t.in_left = 0 /\ req.count > 0 /\ CanTransfer(u)
           /\ tty' = [tty EXCEPT ![req.line] = Transferred(u)]
           /\ task' = [again EXCEPT !.at = "send", !.msg = TransferMsg(u), !.next = "again"]
        \/ /\ t.in_left = 0 /\ req.count > 0 /\ ~ CanTransfer(u)
           /\ tty' = [tty EXCEPT ![req.line] = u]
           /\ task' = again

do_read_again ==
    /\ At("again")
    /\ handle_read(line, "answer")
    /\ UNCHANGED <<ring, hard>> /\ Quiet

(* A mutant that leaves a refused read in the console.                     *)
do_read_answerKeptMutant ==
    LET t == tty[line] IN
    /\ At("answer")
    /\ \/ t.in_left = 0 /\ task' = Scan /\ UNCHANGED tty
       \/ /\ t.in_left > 0 /\ t.in_proc \in NonBlocking
          /\ Answer(t.in_proc, "error") /\ UNCHANGED tty
       \/ /\ t.in_left > 0 /\ t.in_proc \notin NonBlocking
          /\ tty' = [tty EXCEPT ![line].in_code = "REVIVE"]
          /\ Answer(t.in_proc, "SUSPEND")
    /\ UNCHANGED <<ring, hard>> /\ Quiet

(* The end of do_read: answered, refused with EAGAIN, or suspended.        *)
do_read_answer ==
    LET t == tty[line] IN
    /\ At("answer")
    /\ \/ t.in_left = 0 /\ task' = Scan /\ UNCHANGED tty
       \/ /\ t.in_left > 0 /\ t.in_proc \in NonBlocking
          /\ tty' = [tty EXCEPT ![line] = NotReading(t)]
          /\ Answer(t.in_proc, "error")
       \/ /\ t.in_left > 0 /\ t.in_proc \notin NonBlocking
          /\ tty' = [tty EXCEPT ![line].in_code = "REVIVE"]
          /\ Answer(t.in_proc, "SUSPEND")
    /\ UNCHANGED <<ring, hard>> /\ Quiet

do_write(req) ==
    LET t == tty[req.line]
        u == [t EXCEPT !.events = @ \ {"WRITE"}]
        waits == [u EXCEPT !.out_left = 1, !.out_proc = req.proc, !.out_code = "REVIVE"]
    IN  \/ t.out_left > 0 /\ Answer(req.proc, "error") /\ UNCHANGED tty
        \/ /\ t.out_left = 0 /\ ~ t.inhibited
           /\ tty' = [tty EXCEPT ![req.line] = u] /\ Answer(req.proc, "done")
        \/ /\ t.out_left = 0 /\ t.inhibited /\ req.proc \in NonBlocking
           /\ tty' = [tty EXCEPT ![req.line] = u] /\ Answer(req.proc, "error")
        \/ /\ t.out_left = 0 /\ t.inhibited /\ req.proc \notin NonBlocking
           /\ tty' = [tty EXCEPT ![req.line] = waits] /\ Answer(req.proc, "SUSPEND")

(* do_open takes note of the process group only, and answers.              *)
do_open(req) == Answer(req.proc, "done") /\ UNCHANGED tty

(* receive(ANY): a caller comes before a pending interrupt.                *)
tty_receive ==
    LET req == fs.req IN
    /\ At("receive") /\ fs.at = "sending"
    /\ \/ req.kind = "open"  /\ do_open(req)
       \/ req.kind = "read"  /\ do_read(req)
       \/ req.kind = "write" /\ do_write(req)
    /\ fs' = [fs EXCEPT !.at = "await"]
    /\ UNCHANGED <<ring, current, wake, hard, suspended, halted>>

tty_hard_int ==
    /\ At("receive") /\ fs.at # "sending" /\ hard
    /\ hard' = FALSE
    /\ task' = Scan
    /\ UNCHANGED <<ring, tty>> /\ Quiet

(* do_revive in the file system: nothing unless the process is suspended.  *)
Revived(msg) == suspended' = [suspended EXCEPT ![msg.proc] = FALSE]

Sent == task' = [task EXCEPT !.at = task.next, !.msg = NoMsg, !.next = "scan"]

(* A mutant that sends without waiting.                                    *)
BlocksDropMutant == Sent

Blocks == Go("blocked")

(* tty_reply: the file system takes the message at once when it waits for  *)
(* one; what it takes while it waits for the answer to a request it takes  *)
(* for that answer.  Nothing is modelled after it has taken another one.   *)
(* If it is blocked sending to the task, send fails and the task panics.   *)
tty_reply ==
    /\ At("send")
    /\ \/ /\ fs.at = "await"
          /\ fs' = [fs EXCEPT !.at = "result", !.status = task.msg.status]
          /\ halted' = IF task.msg.code = "TASK_REPLY" THEN "no" ELSE "crossed"
          /\ Sent /\ UNCHANGED suspended
       \/ /\ fs.at = "receive" /\ task.msg.code = "REVIVE"
          /\ Revived(task.msg) /\ Sent
          /\ UNCHANGED <<fs, halted>>
       \/ /\ fs.at = "sending"
          /\ halted' = "panic" /\ UNCHANGED <<fs, task, suspended>>
       \/ /\ fs.at \in {"work", "result"}
          /\ Blocks /\ UNCHANGED <<fs, suspended, halted>>
    /\ UNCHANGED <<ring, current, wake, hard, tty>>

------------------------------------------------------------------------------
(* The file system                                                         *)

Still == UNCHANGED <<ring, current, wake, hard, tty>>

(* A call for the terminal, or any other work: then req is NoReq.          *)
fs_receive(req) ==
    /\ RunningSystem /\ fs.at = "receive"
    /\ req # NoReq => ~ suspended[req.proc]
    /\ fs' = [Free EXCEPT !.at = "work", !.req = req]
    /\ Still /\ UNCHANGED <<task, suspended, halted>>

(* When the task has been blocked sending.                                 *)
do_revive ==
    /\ RunningSystem /\ fs.at = "receive" /\ task.at = "blocked"
    /\ Revived(task.msg) /\ Sent
    /\ Still /\ UNCHANGED <<fs, halted>>

fs_other ==
    /\ RunningSystem /\ fs.at = "work" /\ fs.req = NoReq
    /\ fs' = Free
    /\ Still /\ UNCHANGED <<task, suspended, halted>>

(* task_call.  When the task is blocked sending to the file system the     *)
(* send fails: dev_open panics, dev_io goes on with what it finds in its   *)
(* own message.                                                            *)
dev_call ==
    /\ RunningSystem /\ fs.at = "work" /\ fs.req # NoReq
    /\ \/ task.at # "blocked" /\ fs' = [fs EXCEPT !.at = "sending"] /\ UNCHANGED halted
       \/ task.at = "blocked" /\ fs.req.kind = "open" /\ halted' = "panic" /\ UNCHANGED fs
       \/ /\ task.at = "blocked" /\ fs.req.kind # "open"
          /\ fs' = [fs EXCEPT !.at = "result", !.status = "done"] /\ UNCHANGED halted
    /\ Still /\ UNCHANGED <<task, suspended>>

(* dev_io after task_call: suspend, or answer.                             *)
dev_result ==
    /\ RunningSystem /\ fs.at = "result"
    /\ suspended' = [suspended EXCEPT ![fs.req.proc] = (fs.status = "SUSPEND")]
    /\ fs' = Free
    /\ Still /\ UNCHANGED <<task, halted>>

------------------------------------------------------------------------------
TtyStep ==
    \/ scan \/ keyboard_read \/ tty_transfer \/ do_read_again \/ do_read_answer
    \/ tty_receive \/ tty_hard_int \/ tty_reply

FsStep == fs_other \/ dev_call \/ dev_result

Next ==
    \/ \E key \in Key : keyboard_handler(key)
    \/ tty_wakeup
    \/ \E req \in Request \cup {NoReq} : fs_receive(req)
    \/ do_revive
    \/ TtyStep
    \/ FsStep

(* The clock ticks, the task and the file system run when they can, the    *)
(* task is served in its turn when it is blocked sending, and it is faster *)
(* than fingers: handle_read comes to its end however much is typed.       *)
Fairness ==
    /\ WF_vars(tty_wakeup)
    /\ WF_vars(TtyStep)
    /\ WF_vars(FsStep)
    /\ SF_vars(do_revive)
    /\ SF_vars(tty_transfer)
    /\ SF_vars(tty_transfer /\ "READ" \notin tty[line].events)

Spec == Init /\ [][Next]_vars /\ Fairness

------------------------------------------------------------------------------
(* Every field holds a value of its kind.                                *)
TypeOK ==
    /\ ring \in Seq(Key) /\ Len(ring) <= RING
    /\ current \in Line
    /\ wake \in BOOLEAN /\ hard \in BOOLEAN
    /\ \A c \in Line :
          /\ tty[c].events \subseteq {"READ", "WRITE"}
          /\ tty[c].queue \in Seq({"text", "newline", "eof"}) /\ Len(tty[c].queue) <= INPUT
          /\ tty[c].in_left \in Counts \cup {0} /\ tty[c].out_left \in {0, 1}
    /\ fs.at \in {"receive", "work", "sending", "await", "result"}
    /\ fs.req \in Request \cup {NoReq}
    /\ suspended \in [Proc -> BOOLEAN]
    /\ halted \in {"no", "panic", "crossed"}

(* eot_count is what in_transfer goes by: it is the number of line ends in *)
(* the queue, however the line was edited, however much of it was taken.   *)
EotCounted ==
    \A c \in Line :
        tty[c].eot_count = Cardinality({i \in 1 .. Len(tty[c].queue) : Eot(tty[c].queue[i])})

(* A process that the file system has suspended is owed exactly one        *)
(* revival: by the one console that holds its read or write, or by the     *)
(* message on its way; and nobody else is owed one.                        *)
Owed(p) ==
    {<<"in", c>> : c \in {d \in Line : tty[d].in_left > 0 /\ tty[d].in_proc = p}}
    \cup {<<"out", c>> : c \in {d \in Line : tty[d].out_left > 0 /\ tty[d].out_proc = p}}
    \cup {<<"msg", 0>> : x \in {m \in {task.msg} : m.proc = p}}

EveryoneIsOwed ==
    halted = "no" =>
        \A p \in Proc : fs.req.proc # p => Cardinality(Owed(p)) = IF suspended[p] THEN 1 ELSE 0

(* When the terminal task waits and nothing is about to wake it, nothing   *)
(* is left to do: no key unread, no event pending, no complete line with a *)
(* reader, no write on a console that is not stopped.                      *)
NothingForgotten ==
    halted = "no" /\ task.at = "receive" /\ ~ hard /\ ~ wake =>
        /\ ring = << >>
        /\ \A c \in Line : tty[c].events = {} /\ ~ CanTransfer(tty[c]) /\ ~ Writable(tty[c])

(* Who waits runs again once the console it reads has a line, or once the  *)
(* answer to its read or write is on the way.  (A write is due only until  *)
(* the next ^S.)                                                           *)
Due(p) ==
    task.msg.proc = p \/ \E c \in Line : tty[c].in_proc = p /\ CanTransfer(tty[c])

EveryoneRevived ==
    \A p \in Proc \ NonBlocking : suspended[p] /\ Due(p) ~> ~ suspended[p] \/ halted # "no"

(* dev_io looks at the result when the task has finished the request       *)
(* (fs/device.c:131).                                                      *)
TaskFinished == [][fs'.at = "result" /\ fs.at # "result" => fs.at = "await"]_vars

(* What is typed goes to the console that is shown (kernel/keyboard.c).    *)
TypedIsShown ==
    [][\A c \in Line : Len(tty'[c].queue) > Len(tty[c].queue) => c = current]_vars
=============================================================================
