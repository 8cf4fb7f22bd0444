------------------------------- MODULE Kernel -------------------------------
(***************************************************************************)
(* The microkernel of Flyanx: message passing between processes            *)
(* (src/kernel/message.c), the ready queues and the choice of the running  *)
(* process (src/kernel/process.c), the clock tick that rotates the user    *)
(* processes (src/kernel/clock.c), and the calls of the system task that   *)
(* create, map, restart and remove a process (src/kernel/system.c).        *)
(*                                                                         *)
(* The granularity is a half of sys_call(): SEND_REC is the send half      *)
(* followed by the receive half.  While a sys_call is between its halves   *)
(* device interrupts are only held (interrupt() sees kernel_reenter # 0)   *)
(* but the clock tick is not.  Message contents are not modelled, only     *)
(* who waits for whom.                                                     *)
(***************************************************************************)
EXTENDS ReadyQueues, FiniteSets

CONSTANTS Task, Server, User,      \* slots of the process table
          BootTasks, BootServers,  \* the order in which flyanx_main readies them
          IrqTask,                 \* the tasks that a device interrupt wakes
          SYS, MM, ORIGIN,         \* the system task, the memory manager, the first user process
          ANY, HARDWARE            \* the two sources that are not processes

Proc     == Task \cup Server \cup User
Source   == Proc \cup {ANY, HARDWARE}
Special  == {ANY, HARDWARE, IDLE, NIL}
Flag     == {"SENDING", "RECEIVING", "NO_MAP"}
Priority == Classes \cup {"none"}

ASSUME ProcAssumption ==
    /\ Task \cap Server = {} /\ Task \cap User = {} /\ Server \cap User = {}
    /\ Proc \cap Special = {}
    /\ SYS \in Task /\ MM \in Server /\ ORIGIN \in User
    /\ IrqTask \subseteq Task \ {SYS}

ASSUME SpecialAssumption ==
    /\ ANY # HARDWARE /\ ANY # IDLE /\ ANY # NIL
    /\ HARDWARE # IDLE /\ HARDWARE # NIL /\ IDLE # NIL

ASSUME BootAssumption ==
    /\ BootTasks \in Seq(Task) /\ BootServers \in Seq(Server)
    /\ ToSet(BootTasks) = Task /\ IsInjective(BootTasks)
    /\ ToSet(BootServers) = Server /\ IsInjective(BootServers)

VARIABLES
    priority,   \* [Proc -> Priority], "none" is a free slot
    flags,      \* [Proc -> SUBSET Flag], a process runs only when it has none
    sendTo,     \* send_to: where a SENDING process wants its message to go
    getFrom,    \* get_form: from whom a RECEIVING process wants a message
    callers,    \* caller_head and the caller_link chain, as a sequence
    intBlocked, \* int_blocked: an interrupt came while the task was busy
    rq,         \* the ready queues and curr_proc
    secondHalf  \* <<>>, or <<caller, src>>: the receive half SEND_REC still owes

ipcVars == <<priority, flags, sendTo, getFrom, callers, intBlocked>>
vars == <<ipcVars, rq, secondHalf>>

-----------------------------------------------------------------------------
(* flyanx_main: every task, every server and ORIGIN is ready; the tail     *)
(* pointer of the user list was never set.                                 *)
Init ==
    /\ priority = [p \in Proc |-> CASE p \in Task -> "task"
                                    [] p \in Server -> "server"
                                    [] p = ORIGIN -> "user"
                                    [] OTHER -> "none"]
    /\ flags = [p \in Proc |-> {}]
    /\ sendTo = [p \in Proc |-> NIL]
    /\ getFrom = [p \in Proc |-> NIL]
    /\ callers = [p \in Proc |-> <<>>]
    /\ intBlocked = [p \in Proc |-> FALSE]
    /\ rq = [queue |-> [k \in Classes |-> CASE k = "task" -> BootTasks
                                           [] k = "server" -> BootServers
                                           [] OTHER -> <<ORIGIN>>],
             tail  |-> [k \in Classes |-> CASE k = "task" -> BootTasks[Len(BootTasks)]
                                           [] k = "server" -> BootServers[Len(BootServers)]
                                           [] OTHER -> NIL],
             curr  |-> BootTasks[1]]
    /\ secondHalf = <<>>

Caller == rq.curr
IsUser(p) == priority[p] = "user"
WaitingFor(p, src) == flags[p] = {"RECEIVING"} /\ getFrom[p] = src

(* flags &= ~f, and ready() when nothing else blocks p.                    *)
Unblock(p, f) ==
    /\ flags' = [flags EXCEPT ![p] = @ \ {f}]
    /\ rq' = IF flags[p] = {f} THEN Ready(rq, priority[p], p) ELSE rq

(* unready() when nothing blocked p before, then flags |= f.               *)
Block(p, f) ==
    /\ flags' = [flags EXCEPT ![p] = @ \cup {f}]
    /\ rq' = IF flags[p] = {} THEN Unready(rq, priority[p], p) ELSE rq

-----------------------------------------------------------------------------
(***************************************************************************)
(* The walk down the chain of blocked senders that starts at d, looking    *)
(* for c.  What the walk visits is the least set that holds sendTo[d] and, *)
(* with a SENDING process, the process it sends to; c is on the walk when  *)
(* every set closed in this way that holds d holds c.                      *)
(***************************************************************************)
ChainClosed(R) == \A p \in R : "SENDING" \in flags[p] => sendTo[p] \in R

(* Mutant of Locked: the walk stops after its first step.                  *)
LockedOneStep(c, d) == "SENDING" \in flags[d] /\ sendTo[d] = c

Locked(c, d) == \A R \in SUBSET Proc : d \in R /\ ChainClosed(R) => c \in R

(* The error returns of flyanx_send, in their order: a user process to a   *)
(* process that is no server, a free slot, a cycle of senders.             *)
SendAllowed(c, d) ==
    /\ IsUser(c) => d \in Server
    /\ priority[d] # "none"
    /\ ~ Locked(c, d)

(* Mutant of WillTake: receive(ANY) is forgotten.                          *)
WillTakeNamed(d, c) ==
    /\ flags[d] \cap {"SENDING", "RECEIVING"} = {"RECEIVING"}
    /\ getFrom[d] = c

WillTake(d, c) ==
    /\ flags[d] \cap {"SENDING", "RECEIVING"} = {"RECEIVING"}
    /\ getFrom[d] \in {ANY, c}

SendDeliver(c, d) ==
    /\ WillTake(d, c)
    /\ Unblock(d, "RECEIVING")
    /\ UNCHANGED <<priority, sendTo, getFrom, callers, intBlocked>>

(* Mutant of SendQueue: the sender becomes the list instead of its end.    *)
SendQueueAlone(c, d) ==
    /\ ~ WillTake(d, c)
    /\ Block(c, "SENDING")
    /\ sendTo' = [sendTo EXCEPT ![c] = d]
    /\ callers' = [callers EXCEPT ![d] = <<c>>]
    /\ UNCHANGED <<priority, getFrom, intBlocked>>

SendQueue(c, d) ==
    /\ ~ WillTake(d, c)
    /\ Block(c, "SENDING")
    /\ sendTo' = [sendTo EXCEPT ![c] = d]
    /\ callers' = [callers EXCEPT ![d] = Append(@, c)]
    /\ UNCHANGED <<priority, getFrom, intBlocked>>

flyanx_send(c, d) == SendAllowed(c, d) /\ (SendDeliver(c, d) \/ SendQueue(c, d))

-----------------------------------------------------------------------------
Matches(src, p) == src \in {ANY, p}

(* The queued senders that c would take a message from, by position.       *)
Candidates(c, src) ==
    IF "SENDING" \in flags[c] THEN {}
    ELSE {i \in DOMAIN callers[c] : Matches(src, callers[c][i])}

ReceiveQueued(c, src) ==
    \E i \in Candidates(c, src) :
        /\ \A j \in Candidates(c, src) : i <= j
        /\ Unblock(callers[c][i], "SENDING")
        /\ callers' = [callers EXCEPT ![c] = RemoveAt(@, i)]
        /\ UNCHANGED <<priority, sendTo, getFrom, intBlocked>>

TakesInterrupt(c, src) ==
    /\ "SENDING" \notin flags[c]
    /\ intBlocked[c]
    /\ src \in {ANY, HARDWARE}

ReceiveInterrupt(c, src) ==
    /\ Candidates(c, src) = {}
    /\ TakesInterrupt(c, src)
    /\ intBlocked' = [intBlocked EXCEPT ![c] = FALSE]
    /\ UNCHANGED <<priority, flags, sendTo, getFrom, callers, rq>>

(* Mutant of ReceiveBlock: going to sleep forgets a pending interrupt.     *)
ReceiveBlockForgets(c, src) ==
    /\ Candidates(c, src) = {}
    /\ ~ TakesInterrupt(c, src)
    /\ getFrom' = [getFrom EXCEPT ![c] = src]
    /\ Block(c, "RECEIVING")
    /\ intBlocked' = [intBlocked EXCEPT ![c] = FALSE]
    /\ UNCHANGED <<priority, sendTo, callers>>

ReceiveBlock(c, src) ==
    /\ Candidates(c, src) = {}
    /\ ~ TakesInterrupt(c, src)
    /\ getFrom' = [getFrom EXCEPT ![c] = src]
    /\ Block(c, "RECEIVING")
    /\ UNCHANGED <<priority, sendTo, callers, intBlocked>>

flyanx_receive(c, src) ==
    ReceiveQueued(c, src) \/ ReceiveInterrupt(c, src) \/ ReceiveBlock(c, src)

-----------------------------------------------------------------------------
(***************************************************************************)
(* sys_call, made by the running process.  A user process may try any      *)
(* destination.  The kernel trusts tasks and servers, and their code keeps *)
(* a discipline: SEND_REC is a call, to a task or, by MM, to another       *)
(* server; SEND is a reply, by a task to a task or a server and by a       *)
(* server to a server or to a user process blocked in a call to it; plain  *)
(* receives are receive(ANY) and, in a driver, receive(HARDWARE).  A       *)
(* refused call changes nothing.                                           *)
(***************************************************************************)
CallTargets(c) ==
    CASE IsUser(c) -> Proc \ {c}
      [] c = MM -> (Task \cup Server) \ {c}
      [] OTHER -> Task \ {c}

ReplyTargets(c) ==
    IF c \in Task THEN (Task \cup Server) \ {c}
    ELSE (Server \ {c}) \cup {u \in User : priority[u] = "user" /\ WaitingFor(u, c)}

ReceiveSource(c) == IF c \in IrqTask THEN {ANY, HARDWARE} ELSE {ANY}

InProcess == secondHalf = <<>> /\ Caller \in Proc

CallSend == InProcess /\ \E d \in ReplyTargets(Caller) :
    /\ ~ IsUser(Caller)
    /\ flyanx_send(Caller, d)
    /\ UNCHANGED secondHalf

CallReceive == InProcess /\ \E src \in ReceiveSource(Caller) :
    /\ ~ IsUser(Caller)
    /\ flyanx_receive(Caller, src)
    /\ UNCHANGED secondHalf

CallSendRec == InProcess /\ \E d \in CallTargets(Caller) :
    /\ flyanx_send(Caller, d)
    /\ secondHalf' = <<Caller, d>>

CallSendRecReceive ==
    /\ secondHalf # <<>>
    /\ flyanx_receive(secondHalf[1], secondHalf[2])
    /\ secondHalf' = <<>>

-----------------------------------------------------------------------------
WaitsForInterrupt(t) ==
    /\ flags[t] \cap {"SENDING", "RECEIVING"} = {"RECEIVING"}
    /\ getFrom[t] \in {ANY, HARDWARE}

(* interrupt() from a device handler, or from unhold() once the sys_call   *)
(* that held it is over.  It carries its own copy of ready().              *)
Interrupt(t) ==
    /\ secondHalf = <<>>
    /\ \/ /\ ~ WaitsForInterrupt(t)
          /\ intBlocked' = [intBlocked EXCEPT ![t] = TRUE]
          /\ UNCHANGED <<flags, rq>>
       \/ /\ WaitsForInterrupt(t)
          /\ flags' = [flags EXCEPT ![t] = @ \ {"RECEIVING"}]
          /\ intBlocked' = [intBlocked EXCEPT ![t] = FALSE]
          /\ rq' = ReadySystem(rq, "task", t)
    /\ UNCHANGED <<priority, sendTo, getFrom, callers, secondHalf>>

(***************************************************************************)
(* clock_handler at the end of a quantum, when a user process is ready and *)
(* the process billed now was billed at the last quantum end too           *)
(* (bill_proc = prev_proc: accounting, which any quantum end may meet).    *)
(* It does not look at kernel_reenter: it also comes in the middle of a    *)
(* sys_call.                                                               *)
(***************************************************************************)
QuantumEnd ==
    /\ rq.queue["user"] # <<>>
    /\ rq' = Schedule(rq)
    /\ UNCHANGED <<ipcVars, secondHalf>>

-----------------------------------------------------------------------------
(***************************************************************************)
(* The system task, running, with a request of MM in hand: MM is blocked   *)
(* in the SEND_REC of task_call, and the user process the request is about *)
(* is blocked in the SEND_REC of its own call to MM.                       *)
(***************************************************************************)
Serving == Caller = SYS /\ secondHalf = <<>> /\ WaitingFor(MM, SYS)

MmClients == {u \in User : priority[u] = "user" /\ WaitingFor(u, MM)}

(* *child = *parent copies every field of the table entry.                 *)
do_fork(parent, child) ==
    /\ Serving /\ parent \in MmClients /\ priority[child] = "none"
    /\ priority' = [priority EXCEPT ![child] = priority[parent]]
    /\ flags' = [flags EXCEPT ![child] = flags[parent] \cup {"NO_MAP"}]
    /\ sendTo' = [sendTo EXCEPT ![child] = sendTo[parent]]
    /\ getFrom' = [getFrom EXCEPT ![child] = getFrom[parent]]
    /\ callers' = [callers EXCEPT ![child] = callers[parent]]
    /\ intBlocked' = [intBlocked EXCEPT ![child] = intBlocked[parent]]
    /\ UNCHANGED <<rq, secondHalf>>

do_new_map(child) ==
    /\ Serving /\ priority[child] = "user" /\ "NO_MAP" \in flags[child]
    /\ Unblock(child, "NO_MAP")
    /\ UNCHANGED <<priority, sendTo, getFrom, callers, intBlocked, secondHalf>>

(* A successful EXEC is never answered: the system task lets the process   *)
(* go itself.                                                              *)
do_exec(p) ==
    /\ Serving /\ p \in MmClients
    /\ Unblock(p, "RECEIVING")
    /\ UNCHANGED <<priority, sendTo, getFrom, callers, intBlocked, secondHalf>>

do_exit(p) ==
    /\ Serving /\ p \in MmClients \ {ORIGIN}
    /\ rq' = IF flags[p] = {} THEN Unready(rq, priority[p], p) ELSE rq
    /\ callers' = IF "SENDING" \in flags[p]
                  THEN [q \in Proc |-> Remove(callers[q], p)]
                  ELSE callers
    /\ flags' = [flags EXCEPT ![p] = {}]
    /\ priority' = [priority EXCEPT ![p] = "none"]
    /\ UNCHANGED <<sendTo, getFrom, intBlocked, secondHalf>>

-----------------------------------------------------------------------------
Next ==
    \/ CallSend \/ CallReceive \/ CallSendRec \/ CallSendRecReceive
    \/ \E t \in IrqTask : Interrupt(t)
    \/ QuantumEnd
    \/ \E p, c \in User : do_fork(p, c)
    \/ \E u \in User : do_new_map(u) \/ do_exec(u) \/ do_exit(u)

Spec == Init /\ [][Next]_vars

-----------------------------------------------------------------------------
(* Every field holds a value of its kind.                                  *)
TypeOK ==
    /\ priority \in [Proc -> Priority]
    /\ flags \in [Proc -> SUBSET Flag]
    /\ sendTo \in [Proc -> Proc \cup {NIL}]
    /\ getFrom \in [Proc -> Source \cup {NIL}]
    /\ callers \in [Proc -> Seq(Proc)]
    /\ intBlocked \in [Proc -> BOOLEAN]
    /\ rq \in [queue : [Classes -> Seq(Proc)], tail : [Classes -> Proc \cup {NIL}],
               curr : Proc \cup {IDLE}]
    /\ secondHalf \in {<<>>} \cup (Proc \X Proc)

(***************************************************************************)
(* A process is on the caller list of q exactly when it is SENDING to q,   *)
(* and it is there once: no message is queued twice, none is forgotten,    *)
(* none is left behind in the list of a process that is gone (flyanx_send, *)
(* flyanx_receive, do_fork, do_exit).                                      *)
(***************************************************************************)
CallersAreSenders ==
    /\ \A q \in Proc :
          /\ IsInjective(callers[q])
          /\ ToSet(callers[q]) = {p \in Proc : "SENDING" \in flags[p] /\ sendTo[p] = q}
    /\ \A p \in Proc : "SENDING" \in flags[p] =>
          sendTo[p] \in Proc /\ priority[sendTo[p]] \in {"task", "server"}

(***************************************************************************)
(* No group of blocked senders waits in a circle: every non-empty set of   *)
(* SENDING processes has one whose destination is outside the set          *)
(* (the chain walk of flyanx_send).                                        *)
(***************************************************************************)
NoSendCycle ==
    \A S \in SUBSET Proc :
        (S # {} /\ \A p \in S : "SENDING" \in flags[p]) => \E p \in S : sendTo[p] \notin S

(***************************************************************************)
(* A process that waits for a message has none to take: no queued sender   *)
(* it would accept, and no pending interrupt when it accepts one.  Sender  *)
(* and receiver can never both sleep on the same rendezvous                *)
(* (flyanx_send, flyanx_receive, interrupt).                               *)
(***************************************************************************)
NoMissedRendezvous ==
    \A p \in Proc : flags[p] \cap {"SENDING", "RECEIVING"} = {"RECEIVING"} =>
        /\ \A s \in ToSet(callers[p]) : ~ Matches(getFrom[p], s)
        /\ intBlocked[p] => getFrom[p] \notin {ANY, HARDWARE}

(***************************************************************************)
(* The ready lists hold only unblocked processes of their class, each once,*)
(* and every unblocked task and server: a task or a server that can run is *)
(* never lost to the scheduler.                                            *)
(***************************************************************************)
ReadyListsExact ==
    /\ \A k \in Classes :
          /\ IsInjective(rq.queue[k])
          /\ ToSet(rq.queue[k]) \subseteq {p \in Proc : priority[p] = k /\ flags[p] = {}}
    /\ \A p \in Task \cup Server : flags[p] = {} => Queued(rq, priority[p], p)

(***************************************************************************)
(* The CPU is given to the head of a ready list, so never to a blocked     *)
(* process, and is idle only when no process is queued: no ready() is      *)
(* without effect on an idle CPU (ready, unready, hunter, interrupt).      *)
(***************************************************************************)
CpuAtListHead ==
    IF rq.curr = IDLE THEN \A k \in Classes : rq.queue[k] = <<>>
    ELSE LET q == rq.queue[priority[rq.curr]] IN q # <<>> /\ Head(q) = rq.curr

(***************************************************************************)
(* A message is never dropped: a process stops SENDING only when the       *)
(* process it sends to was neither sending nor waiting and took it, and an *)
(* interrupt stops being pending only for a task that is free to take it.  *)
(***************************************************************************)
Taken ==
    /\ \A p \in Proc : "SENDING" \in flags[p] /\ "SENDING" \notin flags'[p] =>
          /\ flags[sendTo[p]] = {}
          /\ Len(callers'[sendTo[p]]) = Len(callers[sendTo[p]]) - 1
    /\ \A t \in Task : intBlocked[t] /\ ~ intBlocked'[t] => flags[t] = {} /\ flags'[t] = {}

NothingDropped == [][Taken]_vars

(* process.c:22 says that the first process of the highest priority queue  *)
(* is always the one chosen to run: with a task ready, a task runs.        *)
HighestPriorityRuns ==
    rq.queue["task"] # <<>> => rq.curr = Head(rq.queue["task"])

(* process.c:24 says that a user process whose quantum is used up goes to  *)
(* the tail of its queue: no step takes the running user process off the   *)
(* user list and leaves it runnable.                                       *)
RunningUserKept ==
    (rq.curr \in User /\ flags'[rq.curr] = {}) => Queued(rq', "user", rq.curr)

RoundRobin == [][RunningUserKept]_vars
=============================================================================
