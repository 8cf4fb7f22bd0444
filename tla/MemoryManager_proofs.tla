------------------------ MODULE MemoryManager_proofs ------------------------
(***************************************************************************)
(* The memory manager's tables stay right for any number of slots, blocks  *)
(* and process numbers: MM and the kernel agree on who is there, no block  *)
(* of memory is lost or shared, every process that waits for an answer is  *)
(* owed one, and parents find their dead children.                         *)
(*                                                                         *)
(* What is not in those statements, and what the induction needs, is how   *)
(* a request that MM is busy with shows in both tables: its caller waits,  *)
(* has no answer due, and no other answer is due either; the child of a    *)
(* fork is there for MM before it is there for the kernel.                 *)
(***************************************************************************)
EXTENDS MemoryManager, FiniteSetTheorems, TLAPS

Busy == {"call", "sys_fork", "new_map", "sys_exit"}
Forking == {"sys_fork", "new_map"}
Idle(s) == proc[s].waiting = NOT_WAITING /\ proc[s].reply = ERROR_NO_MESSAGE

(* The servers and ORIGIN are there for good, and have no process number.  *)
BootSlots == \A s \in Slot : s <= ORIGIN => proc[s].state = "live" /\ proc[s].pid = ORIGIN_PID

(* Where MM is, who it works for, and what is due meanwhile.               *)
WorkInv ==
    /\ IF At("reply") THEN Due # {} ELSE Due = {}
    /\ IF work.step \in Busy
       THEN /\ work.who \in User /\ Live(work.who) /\ Idle(work.who)
            /\ kernel[work.who] = "awaiting"
            /\ At("sys_exit") => work.who # ORIGIN
       ELSE work.who = NONE
    /\ IF work.step \in Forking
       THEN /\ work.child \in User /\ work.child # ORIGIN /\ work.child # work.who
            /\ Live(work.child) /\ Idle(work.child)
       ELSE work.child = NONE
    /\ noMap = IF At("new_map") THEN {work.child} ELSE {}
    /\ At("new_map") => kernel[work.child] = "awaiting"

(* The callers that queue are different ones, and have called.             *)
InboxInv ==
    /\ \A i \in DOMAIN inbox : kernel[inbox[i]] = "calling"
    /\ \A i, j \in DOMAIN inbox : inbox[i] = inbox[j] => i = j

(* The parts of TablesAgree.                                               *)
CountRight == mm.procs_in_use = Cardinality({s \in Slot : InUse(s)})
KernelAgrees ==
    \A s \in User : kernel[s] # "none" <=> Live(s) /\ ~ (At("sys_fork") /\ s = work.child)

IInv == /\ TypeOK /\ BootSlots /\ WorkInv /\ InboxInv
        /\ PidsUnique /\ CountRight /\ KernelAgrees
        /\ MemoryOwned /\ AnswersOwed /\ NoZombieAwaited /\ ParentAlive

-----------------------------------------------------------------------------
(* The least number of a set of numbers, and the first fit of Min.         *)
LEMMA NatLeast == ASSUME NEW T \in SUBSET Nat, T # {} PROVE \E x \in T : \A y \in T : x <= y
<1> DEFINE R == OpToRel(<, Nat)
<1>1. IsWellFoundedOn(R, Nat)
  BY NatLessThanWellFounded
<1>2. T \subseteq Nat
  OBVIOUS
<1> HIDE DEF R
<1>3. PICK x \in T : \A y \in T : ~ (<<y, x>> \in R)
  BY <1>1, <1>2, WFMin
<1>4. \A y \in T : ~ (y < x)
  BY <1>2, <1>3 DEF R, OpToRel
<1> QED
  BY <1>2, <1>4

(* Min of a set of slots or blocks is one of them.                         *)
LEMMA MinIsIn == ASSUME NEW T \in SUBSET Nat, T # {} PROVE Min(T) \in T
BY NatLeast DEF Min

(* The parameters, and the slots they give.                                *)
LEMMA Params ==
    /\ LOW_USER \in Nat \ {0} /\ NR_PROCS \in Nat /\ NR_PROCS > LOW_USER
    /\ MAX_PID \in Nat \ {0} /\ MAX_PID >= NR_PROCS - LOW_USER - 1
    /\ NR_BLOCKS \in Nat /\ MaxQueued \in Nat \ {0} /\ PidsAsked \subseteq 1 .. MAX_PID
    /\ ORIGIN \in User /\ ORIGIN \in Slot /\ User \subseteq Slot /\ Slot \subseteq Nat /\ 0 \in Slot
    /\ NONE \notin Slot /\ NONE \notin User /\ Block \subseteq Nat /\ BOOT_IMAGE \notin Block
    /\ \A s \in User : s # ORIGIN => s > ORIGIN
    /\ \A s \in Slot : s > ORIGIN => s \in User
BY MMAssumption DEF ORIGIN, User, Slot, NONE, Block, BOOT_IMAGE

(* Slots are finitely many.                                                *)
LEMMA SlotsFinite == IsFiniteSet(Slot) /\ Cardinality(Slot) = NR_PROCS
<1>1. 0 \in Int /\ NR_PROCS - 1 \in Int /\ ~ (0 > NR_PROCS - 1)
  BY Params
<1>2. IsFiniteSet(0 .. NR_PROCS - 1) /\ Cardinality(0 .. NR_PROCS - 1) = (NR_PROCS - 1) - 0 + 1
  BY <1>1, FS_Interval
<1> QED
  BY <1>2, Params DEF Slot

-----------------------------------------------------------------------------
(* What the functions on MM's memory change, field by field.               *)
ReplyCode == 0 .. MAX_PID \cup {ERROR, ERROR_NO_MESSAGE}
Memory == [proc : [Slot -> Entry], procs_in_use : Int, next_pid : 0 .. MAX_PID]

(* The entries m and n have the same fields but state, waiting and reply.  *)
SameRest(m, n) ==
    /\ n.next_pid = m.next_pid
    /\ \A s \in Slot : n.proc[s].pid = m.proc[s].pid /\ n.proc[s].map = m.proc[s].map

(* n is m with the answer rs for process p.                                *)
Answered(m, p, rs, n) ==
    /\ n \in Memory /\ SameRest(m, n) /\ n.procs_in_use = m.procs_in_use
    /\ \A s \in Slot :
          /\ n.proc[s].state = m.proc[s].state
          /\ n.proc[s].parent = m.proc[s].parent
          /\ n.proc[s].waiting = m.proc[s].waiting
          /\ n.proc[s].reply = IF s = p THEN rs ELSE m.proc[s].reply

(* An answer is set in one entry, and nothing else changes.                *)
LEMMA SetReply ==
    ASSUME NEW m \in Memory, NEW p \in Slot, NEW rs \in ReplyCode, NEW n, n = set_reply(m, p, rs)
    PROVE  Answered(m, p, rs, n)
BY DEF Answered, Memory, Entry, ReplyCode, set_reply, SameRest

(* Two answers set at once, to different processes.                        *)
LEMMA TwoReplies ==
    ASSUME NEW m \in Memory, NEW p \in Slot, NEW rs \in ReplyCode,
           NEW q \in Slot, NEW rq \in ReplyCode, NEW n, n = set_reply(set_reply(m, p, rs), q, rq)
    PROVE  \E k : Answered(m, p, rs, k) /\ Answered(k, q, rq, n)
<1>1. PICK k : k = set_reply(m, p, rs)
  OBVIOUS
<1>2. Answered(m, p, rs, k)
  BY <1>1, SetReply
<1>3. k \in Memory /\ n = set_reply(k, q, rq)
  BY <1>1, <1>2 DEF Answered
<1>4. Answered(k, q, rq, n)
  BY <1>3, SetReply
<1> QED
  BY <1>2, <1>4

(* exit_cleanup frees the slot s, whose father no longer waits and gets    *)
(* the pid for an answer, and leaves everything else alone.                *)
LEMMA ExitCleanup ==
    ASSUME NEW m \in Memory, NEW s \in Slot, NEW n, n = exit_cleanup(m, s)
    PROVE  LET father == m.proc[s].parent IN
           /\ n \in Memory /\ SameRest(m, n) /\ n.procs_in_use = m.procs_in_use - 1
           /\ father \in Slot
           /\ \A q \in Slot :
                 /\ n.proc[q].state = IF q = s THEN "free" ELSE m.proc[q].state
                 /\ n.proc[q].parent = m.proc[q].parent
                 /\ n.proc[q].waiting = IF q = father THEN NOT_WAITING ELSE m.proc[q].waiting
                 /\ n.proc[q].reply = IF q = father THEN m.proc[s].pid ELSE m.proc[q].reply
<1> DEFINE father == m.proc[s].parent
<1>1. father \in Slot /\ m.proc[s].pid \in ReplyCode
  BY DEF Memory, Entry, ReplyCode
<1> DEFINE m1 == set_reply(m, father, m.proc[s].pid)
<1>2. /\ m1 \in Memory /\ SameRest(m, m1) /\ m1.procs_in_use = m.procs_in_use
      /\ \A q \in Slot :
            /\ m1.proc[q].state = m.proc[q].state
            /\ m1.proc[q].parent = m.proc[q].parent
            /\ m1.proc[q].waiting = m.proc[q].waiting
            /\ m1.proc[q].reply = IF q = father THEN m.proc[s].pid ELSE m.proc[q].reply
  BY <1>1, SetReply DEF Answered
<1>3. n = [m1 EXCEPT !.proc[father].waiting = NOT_WAITING, !.proc[s].state = "free",
                     !.procs_in_use = @ - 1]
  BY DEF exit_cleanup
<1> HIDE DEF m1, father
<1>4. /\ n \in Memory /\ SameRest(m1, n) /\ n.procs_in_use = m1.procs_in_use - 1
      /\ \A q \in Slot :
            /\ n.proc[q].state = IF q = s THEN "free" ELSE m1.proc[q].state
            /\ n.proc[q].parent = m1.proc[q].parent
            /\ n.proc[q].waiting = IF q = father THEN NOT_WAITING ELSE m1.proc[q].waiting
            /\ n.proc[q].reply = m1.proc[q].reply
  <2> DEFINE f == [m1.proc EXCEPT ![father].waiting = NOT_WAITING]
             g == [f EXCEPT ![s].state = "free"]
  <2>1. m1.proc \in [Slot -> Entry] /\ m1.procs_in_use \in Int /\ m1.next_pid \in 0 .. MAX_PID
        /\ m1 = [proc |-> m1.proc, procs_in_use |-> m1.procs_in_use, next_pid |-> m1.next_pid]
    BY <1>2 DEF Memory
  <2>2. /\ f \in [Slot -> Entry]
        /\ \A q \in Slot :
              /\ f[q].state = m1.proc[q].state /\ f[q].parent = m1.proc[q].parent
              /\ f[q].waiting = IF q = father THEN NOT_WAITING ELSE m1.proc[q].waiting
              /\ f[q].reply = m1.proc[q].reply /\ f[q].pid = m1.proc[q].pid /\ f[q].map = m1.proc[q].map
    BY <1>1, <2>1 DEF Entry
  <2> HIDE DEF f
  <2>3. /\ g \in [Slot -> Entry]
        /\ \A q \in Slot :
              /\ g[q].state = (IF q = s THEN "free" ELSE f[q].state) /\ g[q].parent = f[q].parent
              /\ g[q].waiting = f[q].waiting /\ g[q].reply = f[q].reply
              /\ g[q].pid = f[q].pid /\ g[q].map = f[q].map
    BY <2>2 DEF Entry
  <2>4. n = [m1 EXCEPT !.proc = g, !.procs_in_use = m1.procs_in_use - 1]
    BY <1>3, <2>1 DEF f
  <2>5. n = [proc |-> g, procs_in_use |-> m1.procs_in_use - 1, next_pid |-> m1.next_pid]
    BY <2>1, <2>4
  <2> QED
    BY <2>1, <2>2, <2>3, <2>5 DEF Memory, SameRest
<1> QED
  BY <1>1, <1>2, <1>4 DEF SameRest, father

-----------------------------------------------------------------------------
(* The first state.                                                        *)
LEMMA InitIInv == Init => IInv
<1> SUFFICES ASSUME Init PROVE IInv
  OBVIOUS
<1> USE Params DEF Init
<1>1. /\ mm.procs_in_use = LOW_USER + 1 /\ mm.next_pid = 0
      /\ \A s \in Slot : proc[s] = [state |-> IF s <= ORIGIN THEN "live" ELSE "free",
                                    pid |-> ORIGIN_PID, parent |-> 0, map |-> BOOT_IMAGE,
                                    waiting |-> NOT_WAITING, reply |-> ERROR_NO_MESSAGE]
  BY DEF proc, ORIGIN_PID
<1>2. mm \in [proc : [Slot -> Entry], procs_in_use : 0 .. NR_PROCS, next_pid : 0 .. MAX_PID]
  BY DEF Entry, ORIGIN_PID
<1>3. << >> \in Seq(User)
  OBVIOUS
<1>4. TypeOK
  BY <1>2, <1>3 DEF TypeOK, Work
<1>5. BootSlots
  BY <1>1 DEF BootSlots
<1>6. Due = {} /\ \A s \in Slot : (Live(s) <=> s <= ORIGIN) /\ (InUse(s) <=> s <= ORIGIN)
  <2>1. \A s \in Slot : proc[s].reply = ERROR_NO_MESSAGE
                         /\ proc[s].state = IF s <= ORIGIN THEN "live" ELSE "free"
    BY <1>1
  <2>2. Due = {}
    BY <2>1 DEF Due
  <2> QED
    BY <2>1, <2>2 DEF Live, InUse
<1>7. WorkInv
  BY <1>6 DEF WorkInv, Work, At, Busy, Forking
<1>8. InboxInv
  BY DEF InboxInv
<1>9. \A s \in User : InUse(s) => s = ORIGIN
  BY <1>6
<1>10. PidsUnique /\ KernelAgrees /\ ParentAlive
  BY <1>6, <1>9 DEF PidsUnique, KernelAgrees, ParentAlive, At, Work
<1>11. CountRight
  <2>1. {s \in Slot : InUse(s)} = 0 .. LOW_USER
    BY <1>6 DEF Slot, ORIGIN
  <2>2. Cardinality(0 .. LOW_USER) = LOW_USER + 1
    BY FS_Interval
  <2> QED
    BY ONLY <1>1, <2>1, <2>2 DEF CountRight
<1>12. MemoryOwned
  BY <1>6 DEF MemoryOwned, Live, InUse
<1>13. AnswersOwed /\ NoZombieAwaited
  BY <1>1, <1>6 DEF AnswersOwed, NoZombieAwaited
<1> QED
  BY <1>4, <1>5, <1>7, <1>8, <1>10, <1>11, <1>12, <1>13 DEF IInv

-----------------------------------------------------------------------------
(* What the steps have in common.                                          *)

(* A handler is done: MM goes to send the answers, or to receive.          *)
LEMMA AnswerEnds ==
    ASSUME Answer, noMap' = {}
    PROVE  /\ WorkInv' /\ work'.who = NONE /\ work'.child = NONE /\ work'.step \in {"receive", "reply"}
           /\ work' \in [step : {"receive", "reply"}, who : {NONE}, child : {NONE}]
BY DEF Answer, WorkInv, Work, At, Busy, Forking

(* A step that leaves the processes, their numbers, parents and images.    *)
LEMMA SameFamily ==
    ASSUME IInv, UNCHANGED holes, mm'.procs_in_use = mm.procs_in_use,
           \A s \in Slot : /\ proc'[s].state = proc[s].state /\ proc'[s].pid = proc[s].pid
                           /\ proc'[s].parent = proc[s].parent /\ proc'[s].map = proc[s].map
    PROVE  BootSlots' /\ MemoryOwned' /\ PidsUnique' /\ CountRight' /\ ParentAlive'
<1>1. User \subseteq Slot /\ ORIGIN \in Slot
  BY Params
<1>2. \A s \in Slot : (Live(s)' <=> Live(s)) /\ (InUse(s)' <=> InUse(s))
  BY DEF Live, InUse
<1>3. BootSlots'
  BY DEF IInv, BootSlots
<1>4. MemoryOwned'
  BY <1>1, <1>2 DEF IInv, MemoryOwned
<1>5. PidsUnique'
  BY <1>1, <1>2 DEF IInv, PidsUnique
<1>6. CountRight'
  <2>1. {s \in Slot : InUse(s)}' = {s \in Slot : InUse(s)}
    BY <1>2
  <2> QED
    BY <2>1 DEF IInv, CountRight
<1>7. ParentAlive'
  <2>1. \A s \in User : proc[s].parent \in Slot
    BY <1>1 DEF IInv, TypeOK, Entry, proc
  <2> QED
    BY <1>1, <1>2, <2>1 DEF IInv, ParentAlive
<1> QED
  BY <1>3, <1>4, <1>5, <1>6, <1>7

(* Nobody begins to wait, and nobody becomes a zombie.                     *)
LEMMA NoNewZombie ==
    ASSUME IInv,
           \A s \in Slot : /\ proc'[s].waiting \in {proc[s].waiting, NOT_WAITING}
                           /\ proc'[s].state = "zombie" =>
                                 /\ proc[s].state = "zombie" /\ proc'[s].pid = proc[s].pid
                                 /\ proc'[s].parent = proc[s].parent
    PROVE  NoZombieAwaited'
BY Params DEF IInv, NoZombieAwaited, Accepts

(* The queue of callers when nobody leaves it and its members stay.        *)
LEMMA SameInbox ==
    ASSUME IInv, UNCHANGED inbox,
           \A s \in User : kernel[s] = "calling" => kernel'[s] = "calling"
    PROVE  InboxInv'
<1>1. \A i \in DOMAIN inbox : inbox[i] \in User
  BY DEF IInv, TypeOK
<1> QED
  BY <1>1 DEF IInv, InboxInv

(* The entries are what TypeOK says.                                       *)
LEMMA Types ==
    ASSUME TypeOK
    PROVE  /\ mm \in Memory
           /\ \A s \in Slot : proc[s] \in Entry /\ proc[s].pid \in ReplyCode /\ proc[s].parent \in Slot
           /\ 0 \in ReplyCode /\ ERROR \in ReplyCode /\ ERROR_NO_MESSAGE \notin 0 .. MAX_PID
           /\ ERROR # ERROR_NO_MESSAGE
BY Params DEF TypeOK, Memory, ReplyCode, Entry, proc, ERROR, ERROR_NO_MESSAGE

(* MM is busy with the call of a live process that waits for it alone.     *)
LEMMA Caller ==
    ASSUME IInv, work.step \in Busy
    PROVE  /\ work.who \in User /\ work.who \in Slot /\ Live(work.who) /\ Idle(work.who)
           /\ kernel[work.who] = "awaiting" /\ Due = {}
           /\ At("call") => work.child = NONE /\ noMap = {}
BY Params DEF IInv, WorkInv, Busy, Forking, At

-----------------------------------------------------------------------------
(* The steps of MM that leave the family of processes as it is.            *)

(* A process calls.                                                        *)
LEMMA CallKeeps == ASSUME NEW p \in User PROVE IInv /\ Call(p) => IInv'
<1> SUFFICES ASSUME IInv, Call(p) PROVE IInv'
  OBVIOUS
<1> USE DEF Call
<1>1. TypeOK'
  BY DEF IInv, TypeOK
<1>2. BootSlots' /\ MemoryOwned' /\ PidsUnique' /\ CountRight' /\ ParentAlive' /\ NoZombieAwaited'
  BY SameFamily, NoNewZombie DEF proc
<1>3. \A s \in User : kernel'[s] = IF s = p THEN "calling" ELSE kernel[s]
  BY DEF IInv, TypeOK
<1>4. WorkInv'
  BY <1>3 DEF IInv, WorkInv, Due, Idle, At, Live, proc, Busy, Forking
<1>5. KernelAgrees'
  BY <1>3 DEF IInv, KernelAgrees, Live, At, proc
<1>6. AnswersOwed'
  BY <1>3 DEF IInv, AnswersOwed, Due, proc
<1>7. InboxInv'
  <2>1. inbox \in Seq(User) /\ inbox' = Append(inbox, p)
    BY DEF IInv, TypeOK
  <2>2. \A i \in DOMAIN inbox : inbox[i] \in User /\ inbox[i] # p /\ kernel'[inbox[i]] = "calling"
    BY <1>3, <2>1 DEF IInv, InboxInv
  <2>3. \A i \in DOMAIN inbox' : /\ i \in DOMAIN inbox => inbox'[i] = inbox[i]
                                 /\ i \notin DOMAIN inbox => inbox'[i] = p /\ i = Len(inbox) + 1
    BY <2>1
  <2>4. \A i \in DOMAIN inbox' : kernel'[inbox'[i]] = "calling"
    BY <1>3, <2>2, <2>3
  <2>5. \A i, j \in DOMAIN inbox' : inbox'[i] = inbox'[j] => i = j
    BY <2>2, <2>3 DEF IInv, InboxInv
  <2> QED
    BY <2>4, <2>5 DEF InboxInv
<1> QED
  BY <1>1, <1>2, <1>4, <1>5, <1>6, <1>7 DEF IInv

(* MM takes the first caller.                                              *)
LEMMA GetWorkKeeps == IInv /\ get_work => IInv'
<1> SUFFICES ASSUME IInv, get_work PROVE IInv'
  OBVIOUS
<1> USE DEF get_work
<1>0. PICK c \in User : c = Head(inbox)
  BY DEF IInv, TypeOK
<1>1. /\ Head(inbox) = c /\ inbox[1] = c /\ Tail(inbox) \in Seq(User) /\ inbox \in Seq(User) /\ 1 \in DOMAIN inbox
  BY <1>0 DEF IInv, TypeOK
<1>2. kernel[c] = "calling" /\ \A s \in User : kernel'[s] = IF s = c THEN "awaiting" ELSE kernel[s]
  BY <1>1 DEF IInv, InboxInv, TypeOK
<1>3. work' = [step |-> "call", who |-> c, child |-> NONE] /\ work.who = NONE /\ work.child = NONE
      /\ Due = {} /\ noMap = {} /\ At("receive")
  BY <1>1 DEF Work, IInv, WorkInv, At, Busy, Forking
<1>4. TypeOK'
  BY <1>1, <1>2, <1>3 DEF IInv, TypeOK
<1>5. BootSlots' /\ MemoryOwned' /\ PidsUnique' /\ CountRight' /\ ParentAlive' /\ NoZombieAwaited'
  BY SameFamily, NoNewZombie DEF proc
<1>6. Live(c) /\ Idle(c)
  <2>1. Live(c)
    BY <1>1, <1>2 DEF IInv, KernelAgrees
  <2>2. Idle(c)
    BY <1>1, <1>2 DEF IInv, AnswersOwed, Idle
  <2> QED
    BY <2>1, <2>2
<1>7. Due' = Due /\ (Live(c)' <=> Live(c)) /\ (Idle(c)' <=> Idle(c))
  BY DEF Due, Live, Idle, proc
<1>8. WorkInv'
  BY <1>1, <1>2, <1>3, <1>6, <1>7 DEF WorkInv, At, Busy, Forking
<1>9. KernelAgrees'
  BY <1>2, <1>3 DEF IInv, KernelAgrees, Live, At, proc
<1>10. AnswersOwed'
  <2> SUFFICES ASSUME NEW s \in User
               PROVE  /\ proc[s].reply # ERROR_NO_MESSAGE => kernel'[s] = "awaiting" /\ proc[s].waiting = NOT_WAITING
                      /\ proc[s].waiting # NOT_WAITING => kernel'[s] = "awaiting"
                      /\ kernel'[s] = "awaiting" => \/ s \in Due
                                                    \/ proc[s].waiting # NOT_WAITING
                                                    \/ s \in {work'.who, work'.child}
    BY <1>7 DEF AnswersOwed, proc
  <2>1. CASE s = c
    BY <1>2, <1>3, <1>6, <2>1 DEF Idle
  <2>2. CASE s # c
    BY <1>1, <1>2, <1>3, <2>2, Params DEF IInv, AnswersOwed
  <2> QED
    BY <2>1, <2>2
<1>11. InboxInv'
  <2>1. \A i \in DOMAIN Tail(inbox) : i + 1 \in DOMAIN inbox /\ Tail(inbox)[i] = inbox[i + 1] /\ i + 1 # 1
                                      /\ i \in Nat
    BY <1>1
  <2>2. \A i \in DOMAIN Tail(inbox) : Tail(inbox)[i] # c /\ Tail(inbox)[i] \in User
                                      /\ kernel[Tail(inbox)[i]] = "calling"
    BY <1>1, <2>1 DEF IInv, InboxInv
  <2>3. \A i \in DOMAIN Tail(inbox) : kernel'[Tail(inbox)[i]] = "calling"
    BY <1>2, <2>2
  <2>4. \A i, j \in DOMAIN Tail(inbox) : Tail(inbox)[i] = Tail(inbox)[j] => i = j
    BY <2>1 DEF IInv, InboxInv
  <2> QED
    BY <2>3, <2>4 DEF InboxInv
<1> QED
  BY <1>4, <1>5, <1>8, <1>9, <1>10, <1>11 DEF IInv

(* A handler that returns a code has its answer due.                       *)
LEMMA ReturnKeeps ==
    ASSUME NEW rs \in {0, ERROR} PROVE IInv /\ At("call") /\ Return(rs) => IInv'
<1> SUFFICES ASSUME IInv, At("call"), Return(rs) PROVE IInv'
  OBVIOUS
<1> USE DEF Return
<1>0. PICK c \in User : c = work.who
  BY Caller DEF At, Busy
<1>1. /\ c = work.who /\ c \in Slot /\ Live(c) /\ Idle(c) /\ kernel[c] = "awaiting" /\ Due = {}
      /\ work.child = NONE /\ noMap = {}
  BY <1>0, Caller DEF At, Busy
<1>2. rs \in ReplyCode /\ rs # ERROR_NO_MESSAGE
  BY Types DEF IInv, ERROR_NO_MESSAGE, ERROR
<1>3. /\ mm' \in Memory /\ SameRest(mm, mm') /\ mm'.procs_in_use = mm.procs_in_use
      /\ \A s \in Slot :
            /\ proc'[s].state = proc[s].state /\ proc'[s].parent = proc[s].parent
            /\ proc'[s].waiting = proc[s].waiting
            /\ proc'[s].reply = IF s = c THEN rs ELSE proc[s].reply
            /\ proc'[s].pid = proc[s].pid /\ proc'[s].map = proc[s].map
  <2>1. mm' = set_reply(mm, c, rs) /\ mm \in Memory
    BY <1>1, Types DEF IInv
  <2> QED
    BY ONLY <2>1, <1>1, <1>2, SetReply DEF Answered, SameRest, proc
<1>4. WorkInv' /\ work'.who = NONE /\ work'.child = NONE /\ work'.step \in {"receive", "reply"}
      /\ work' \in [step : {"receive", "reply"}, who : {NONE}, child : {NONE}]
  BY <1>1, AnswerEnds
<1>5. TypeOK'
  BY <1>3, <1>4 DEF IInv, TypeOK, Memory
<1>6. BootSlots' /\ MemoryOwned' /\ PidsUnique' /\ CountRight' /\ ParentAlive' /\ NoZombieAwaited'
  BY <1>3, SameFamily, NoNewZombie
<1>7. InboxInv'
  BY SameInbox
<1>8. KernelAgrees'
  BY <1>3, <1>4, Params DEF IInv, KernelAgrees, Live, At
<1>9. AnswersOwed'
  <2> SUFFICES ASSUME NEW s \in User
               PROVE  /\ proc'[s].reply # ERROR_NO_MESSAGE => kernel[s] = "awaiting" /\ proc'[s].waiting = NOT_WAITING
                      /\ proc'[s].waiting # NOT_WAITING => kernel[s] = "awaiting"
                      /\ kernel[s] = "awaiting" => s \in Due' \/ proc'[s].waiting # NOT_WAITING
    BY DEF AnswersOwed
  <2>1. CASE s = c
    BY <1>1, <1>2, <1>3, <2>1 DEF Due, Idle
  <2>2. CASE s # c
    BY <1>1, <1>3, <2>2, Params DEF IInv, AnswersOwed, Due
  <2> QED
    BY <2>1, <2>2
<1> QED
  BY <1>4, <1>5, <1>6, <1>7, <1>8, <1>9 DEF IInv

(* exec lets its caller run in the new image, and owes it nothing.         *)
LEMMA ExecKeeps == IInv /\ do_exec => IInv'
<1> SUFFICES ASSUME IInv, do_exec PROVE IInv'
  OBVIOUS
<1>0. At("call")
  BY DEF do_exec
<1>1. CASE Return(ERROR)
  BY <1>0, <1>1, ReturnKeeps
<1>2. CASE /\ kernel' = [kernel EXCEPT ![work.who] = "running"]
           /\ UNCHANGED <<mm, holes, inbox, noMap>>
           /\ Answer
  <2>0. PICK c \in User : c = work.who
    BY <1>0, Caller DEF At, Busy
  <2>1. /\ c = work.who /\ c \in Slot /\ Live(c) /\ Idle(c) /\ kernel[c] = "awaiting" /\ Due = {}
        /\ work.child = NONE /\ noMap = {}
    BY <1>0, <2>0, Caller DEF At, Busy
  <2>2. \A s \in User : kernel'[s] = IF s = c THEN "running" ELSE kernel[s]
    BY <1>2, <2>1 DEF IInv, TypeOK
  <2>3. WorkInv' /\ work'.who = NONE /\ work'.child = NONE /\ work'.step \in {"receive", "reply"}
        /\ work' \in [step : {"receive", "reply"}, who : {NONE}, child : {NONE}]
    BY <1>2, <2>1, AnswerEnds
  <2>4. TypeOK'
    BY <1>2, <2>2, <2>3 DEF IInv, TypeOK
  <2>5. BootSlots' /\ MemoryOwned' /\ PidsUnique' /\ CountRight' /\ ParentAlive' /\ NoZombieAwaited'
    BY <1>2, SameFamily, NoNewZombie DEF proc
  <2>6. InboxInv'
    BY <1>2, <2>1, <2>2, SameInbox
  <2>7. KernelAgrees'
    BY <1>0, <1>2, <2>1, <2>2, <2>3 DEF IInv, KernelAgrees, Live, At, proc
  <2>8. AnswersOwed'
    BY <1>2, <2>1, <2>2, Params DEF IInv, AnswersOwed, Idle, Due, proc
  <2> QED
    BY <2>3, <2>4, <2>5, <2>6, <2>7, <2>8 DEF IInv
<1> QED
  BY <1>1, <1>2 DEF do_exec

(* MM asks the kernel to end the caller, who is not ORIGIN.                *)
LEMMA DoExitKeeps == IInv /\ do_exit => IInv'
<1> SUFFICES ASSUME IInv, do_exit PROVE IInv'
  OBVIOUS
<1> USE DEF do_exit
<1>1. /\ work' = [step |-> "sys_exit", who |-> work.who, child |-> work.child] /\ At("call")
      /\ UNCHANGED <<mm, holes, inbox, kernel, noMap>> /\ work.who # ORIGIN
  BY DEF IInv, TypeOK
<1>2. TypeOK'
  BY <1>1 DEF IInv, TypeOK
<1>3. BootSlots' /\ MemoryOwned' /\ PidsUnique' /\ CountRight' /\ ParentAlive' /\ NoZombieAwaited'
  BY <1>1, SameFamily, NoNewZombie DEF proc
<1>4. InboxInv'
  BY <1>1, SameInbox
<1>5. (Due' = Due) /\ \A s \in Slot : (Live(s)' <=> Live(s)) /\ (Idle(s)' <=> Idle(s))
  BY <1>1 DEF Due, Live, Idle, proc
<1>6. WorkInv'
  BY <1>1, <1>5, Caller DEF IInv, WorkInv, At, Busy, Forking, Live, Idle, proc
<1>7. KernelAgrees'
  BY <1>1, <1>5 DEF IInv, KernelAgrees, At, Live, proc
<1>8. AnswersOwed'
  BY <1>1, <1>5 DEF IInv, AnswersOwed, proc
<1> QED
  BY <1>2, <1>3, <1>4, <1>6, <1>7, <1>8 DEF IInv

(* wait: the caller waits, for no child of it is a zombie.                 *)
LEMMA BlockKeeps ==
    ASSUME NEW pid \in {ANY_CHILD} \cup PidsAsked
    PROVE  IInv /\ At("call") /\ waitpid_block(pid) => IInv'
<1> SUFFICES ASSUME IInv, At("call"), waitpid_block(pid) PROVE IInv'
  OBVIOUS
<1> USE DEF waitpid_block
<1>0. PICK c \in User : c = work.who
  BY Caller DEF At, Busy
<1>1. /\ c = work.who /\ c \in Slot /\ Live(c) /\ Idle(c) /\ kernel[c] = "awaiting" /\ Due = {}
      /\ work.child = NONE /\ noMap = {}
  BY <1>0, Caller DEF At, Busy
<1>2. pid # NOT_WAITING /\ pid \in {NOT_WAITING, ANY_CHILD} \cup PidsAsked
  BY Params DEF NOT_WAITING, ANY_CHILD
<1>3. /\ mm' \in Memory /\ SameRest(mm, mm') /\ mm'.procs_in_use = mm.procs_in_use
      /\ \A s \in Slot :
            /\ proc'[s].state = proc[s].state /\ proc'[s].parent = proc[s].parent
            /\ proc'[s].waiting = IF s = c THEN pid ELSE proc[s].waiting
            /\ proc'[s].reply = proc[s].reply
            /\ proc'[s].pid = proc[s].pid /\ proc'[s].map = proc[s].map
  <2>1. mm' = [mm EXCEPT !.proc[c].waiting = pid] /\ mm \in Memory
    BY <1>1, Types DEF IInv
  <2> QED
    BY ONLY <2>1, <1>1, <1>2 DEF SameRest, proc, Memory, Entry
<1>4. WorkInv' /\ work'.who = NONE /\ work'.child = NONE /\ work'.step \in {"receive", "reply"}
      /\ work' \in [step : {"receive", "reply"}, who : {NONE}, child : {NONE}]
  BY <1>1, AnswerEnds
<1>5. TypeOK'
  BY <1>3, <1>4 DEF IInv, TypeOK, Memory
<1>6. BootSlots' /\ MemoryOwned' /\ PidsUnique' /\ CountRight' /\ ParentAlive'
  BY <1>3, SameFamily
<1>7. InboxInv'
  BY SameInbox
<1>8. KernelAgrees'
  BY <1>3, <1>4, Params DEF IInv, KernelAgrees, Live, At
<1>9. AnswersOwed'
  BY <1>1, <1>2, <1>3, Params DEF IInv, AnswersOwed, Due, Idle
<1>10. NoZombieAwaited'
  <2>1. \A s \in Slot : ~ (proc[s].parent = c /\ proc[s].state = "zombie" /\ Accepts(pid, s))
    BY <1>1 DEF ZombiesOf, Counted
  <2>2. \A p \in User : proc'[p].waiting = IF p = c THEN pid ELSE proc[p].waiting
    BY <1>3, Params
  <2> QED
    BY <1>3, <2>1, <2>2 DEF IInv, NoZombieAwaited, Accepts
<1> QED
  BY <1>4, <1>5, <1>6, <1>7, <1>8, <1>9, <1>10 DEF IInv

(* The answer to the first of those that are due.                          *)
LEMMA ReplyKeeps == IInv /\ Reply => IInv'
<1> SUFFICES ASSUME IInv, Reply PROVE IInv'
  OBVIOUS
<1> USE DEF Reply
<1>0. PICK c \in User : c = Min(Due)
  <2>1. Due # {} /\ Due \in SUBSET Nat /\ Due \subseteq User
    BY Params DEF IInv, WorkInv, Due
  <2> QED
    BY <2>1, MinIsIn
<1>1. /\ c = Min(Due) /\ c \in Slot /\ kernel[c] = "awaiting" /\ c \in Due
      /\ work.who = NONE /\ work.child = NONE /\ noMap = {} /\ At("reply")
  <2>1. Due # {} /\ Due \in SUBSET Nat
    BY Params DEF IInv, WorkInv, Due
  <2>2. work.who = NONE /\ work.child = NONE /\ noMap = {}
    BY DEF IInv, WorkInv, At, Busy, Forking
  <2> QED
    BY <1>0, <2>1, <2>2, MinIsIn, Params
<1>2. \A s \in User : kernel'[s] = IF s = c THEN "running" ELSE kernel[s]
  BY <1>1 DEF IInv, TypeOK
<1>3. /\ mm' \in Memory /\ SameRest(mm, mm') /\ mm'.procs_in_use = mm.procs_in_use
      /\ \A s \in Slot :
            /\ proc'[s].state = proc[s].state /\ proc'[s].parent = proc[s].parent
            /\ proc'[s].waiting = proc[s].waiting
            /\ proc'[s].reply = IF s = c THEN ERROR_NO_MESSAGE ELSE proc[s].reply
            /\ proc'[s].pid = proc[s].pid /\ proc'[s].map = proc[s].map
  <2>1. mm' = set_reply(mm, c, ERROR_NO_MESSAGE) /\ mm \in Memory
    BY <1>1, Types DEF IInv
  <2>2. ERROR_NO_MESSAGE \in ReplyCode
    BY DEF ReplyCode
  <2> QED
    BY ONLY <2>1, <2>2, <1>1, SetReply DEF Answered, SameRest, proc
<1>4. WorkInv' /\ work'.who = NONE /\ work'.child = NONE /\ work'.step \in {"receive", "reply"}
      /\ work' \in [step : {"receive", "reply"}, who : {NONE}, child : {NONE}]
  BY <1>1, AnswerEnds
<1>5. TypeOK'
  BY <1>2, <1>3, <1>4 DEF IInv, TypeOK, Memory
<1>6. BootSlots' /\ MemoryOwned' /\ PidsUnique' /\ CountRight' /\ ParentAlive' /\ NoZombieAwaited'
  BY <1>3, SameFamily, NoNewZombie
<1>7. InboxInv'
  BY <1>1, <1>2, SameInbox
<1>8. KernelAgrees'
  BY <1>1, <1>2, <1>3, <1>4, Params DEF IInv, KernelAgrees, Live, At
<1>9. AnswersOwed'
  BY <1>1, <1>2, <1>3, Params DEF IInv, AnswersOwed, Due
<1> QED
  BY <1>4, <1>5, <1>6, <1>7, <1>8, <1>9 DEF IInv

(* The kernel has the child, which waits for its parent's call to end.     *)
LEMMA SysForkKeeps == IInv /\ sys_fork => IInv'
<1> SUFFICES ASSUME IInv, sys_fork PROVE IInv'
  OBVIOUS
<1> USE DEF sys_fork
<1>0. PICK c \in User, d \in User : c = work.who /\ d = work.child
  BY DEF IInv, WorkInv, At, Busy, Forking
<1>1. /\ c = work.who /\ d = work.child /\ d # ORIGIN /\ d # c
      /\ Live(c) /\ Idle(c) /\ Live(d) /\ Idle(d) /\ kernel[c] = "awaiting" /\ Due = {} /\ noMap = {}
      /\ At("sys_fork")
  BY <1>0, Caller DEF IInv, WorkInv, At, Busy, Forking
<1>2. work' = [step |-> "new_map", who |-> c, child |-> d]
  BY <1>1 DEF IInv, TypeOK
<1>3. \A s \in User : kernel'[s] = IF s = d THEN "awaiting" ELSE kernel[s]
  BY <1>0, <1>1 DEF IInv, TypeOK
<1>4. kernel[d] = "none"
  BY <1>1 DEF IInv, KernelAgrees, TypeOK
<1>5. TypeOK'
  <2>1. kernel' \in [User -> {"none", "running", "calling", "awaiting"}]
    BY <1>0, <1>1 DEF IInv, TypeOK
  <2>2. noMap' = {d}
    BY <1>1
  <2> QED
    BY <1>2, <2>1, <2>2 DEF IInv, TypeOK
<1>6. BootSlots' /\ MemoryOwned' /\ PidsUnique' /\ CountRight' /\ ParentAlive' /\ NoZombieAwaited'
  BY SameFamily, NoNewZombie DEF proc
<1>7. InboxInv'
  BY <1>3, <1>4, SameInbox
<1>8. (Due' = Due) /\ \A s \in Slot : (Live(s)' <=> Live(s)) /\ (Idle(s)' <=> Idle(s))
  BY DEF Due, Live, Idle, proc
<1>9. WorkInv'
  <2>1. noMap' = {d} /\ kernel'[c] = "awaiting" /\ kernel'[d] = "awaiting"
    BY <1>1, <1>3
  <2>2. (Live(c)' /\ Idle(c)') /\ (Live(d)' /\ Idle(d)')
    BY <1>1, <1>8, Params
  <2> QED
    BY <1>1, <1>2, <1>8, <2>1, <2>2 DEF WorkInv, At, Busy, Forking
<1>10. KernelAgrees'
  <2>1. \A s \in User : Live(s)' <=> Live(s)
    BY <1>8, Params
  <2> QED
    BY <1>1, <1>2, <1>3, <2>1 DEF IInv, KernelAgrees, At
<1>11. AnswersOwed'
  BY <1>1, <1>2, <1>3, <1>4, <1>8 DEF IInv, AnswersOwed, proc, Idle
<1> QED
  BY <1>5, <1>6, <1>7, <1>9, <1>10, <1>11 DEF IInv

(* The fork ends: the parent is owed the child's number, the child a 0.    *)
LEMMA NewMapKeeps == IInv /\ sys_new_map => IInv'
<1> SUFFICES ASSUME IInv, sys_new_map PROVE IInv'
  OBVIOUS
<1> USE DEF sys_new_map
<1>0. PICK c \in User, d \in User : c = work.who /\ d = work.child
  BY DEF IInv, WorkInv, At, Busy, Forking
<1>1. /\ c = work.who /\ d = work.child /\ d # c /\ c \in Slot /\ d \in Slot
      /\ Idle(c) /\ Idle(d) /\ kernel[c] = "awaiting" /\ kernel[d] = "awaiting"
      /\ Due = {} /\ noMap = {d} /\ At("new_map")
  BY <1>0, Caller, Params DEF IInv, WorkInv, At, Busy, Forking
<1>2. proc[d].pid \in 0 .. MAX_PID /\ proc[d].pid \in ReplyCode /\ proc[d].pid # ERROR_NO_MESSAGE
      /\ 0 \in ReplyCode /\ 0 # ERROR_NO_MESSAGE
  BY <1>1, Params DEF IInv, TypeOK, Entry, proc, ReplyCode, ERROR_NO_MESSAGE
<1>3. /\ mm' \in Memory /\ SameRest(mm, mm') /\ mm'.procs_in_use = mm.procs_in_use
      /\ \A s \in Slot :
            /\ proc'[s].state = proc[s].state /\ proc'[s].parent = proc[s].parent
            /\ proc'[s].waiting = proc[s].waiting
            /\ proc'[s].reply = IF s = c THEN proc[d].pid ELSE IF s = d THEN 0 ELSE proc[s].reply
            /\ proc'[s].pid = proc[s].pid /\ proc'[s].map = proc[s].map
  <2>1. mm' = set_reply(set_reply(mm, d, 0), c, proc[d].pid) /\ mm \in Memory
    BY <1>1, Types DEF IInv
  <2>2. PICK k : Answered(mm, d, 0, k) /\ Answered(k, c, proc[d].pid, mm')
    BY ONLY <2>1, <1>1, <1>2, TwoReplies
  <2> QED
    BY ONLY <2>2 DEF Answered, SameRest, proc
<1>4. noMap' = {}
  BY <1>1
<1>5. WorkInv' /\ work'.who = NONE /\ work'.child = NONE /\ work'.step \in {"receive", "reply"}
      /\ work' \in [step : {"receive", "reply"}, who : {NONE}, child : {NONE}]
  BY <1>4, AnswerEnds
<1>6. TypeOK'
  BY <1>3, <1>4, <1>5 DEF IInv, TypeOK, Memory
<1>7. BootSlots' /\ MemoryOwned' /\ PidsUnique' /\ CountRight' /\ ParentAlive' /\ NoZombieAwaited'
  BY <1>3, SameFamily, NoNewZombie
<1>8. InboxInv'
  BY SameInbox
<1>9. KernelAgrees'
  BY <1>1, <1>3, <1>5, Params DEF IInv, KernelAgrees, Live, At
<1>10. AnswersOwed'
  BY <1>1, <1>2, <1>3, Params DEF IInv, AnswersOwed, Due, Idle
<1> QED
  BY <1>5, <1>6, <1>7, <1>8, <1>9, <1>10 DEF IInv

-----------------------------------------------------------------------------
Used(m) == {s \in Slot : m.proc[s].state # "free"}

(* Of the slots in use there is one fewer after one is given up.           *)
LEMMA OneFewer ==
    ASSUME NEW m, NEW n, NEW z \in Slot, m.proc[z].state # "free",
           \A s \in Slot : n.proc[s].state = IF s = z THEN "free" ELSE m.proc[s].state
    PROVE  Cardinality(Used(n)) = Cardinality(Used(m)) - 1
<1>1. Used(n) = Used(m) \ {z} /\ z \in Used(m) /\ Used(m) \subseteq Slot
  BY DEF Used
<1>2. IsFiniteSet(Used(m))
  BY <1>1, SlotsFinite, FS_Subset
<1> QED
  BY <1>1, <1>2, FS_RemoveElement

(* The count fits the table.                                               *)
LEMMA CountFits == ASSUME NEW m PROVE Cardinality(Used(m)) \in 0 .. NR_PROCS
<1>1. Used(m) \subseteq Slot
  BY DEF Used
<1>2. Cardinality(Used(m)) \in Nat /\ Cardinality(Used(m)) <= NR_PROCS
  BY <1>1, SlotsFinite, FS_Subset, FS_CardinalityType
<1> QED
  BY <1>2, Params

(* wait: the caller gets the number of a zombie, and its slot is free.     *)
LEMMA CollectKeeps ==
    ASSUME NEW pid \in {ANY_CHILD} \cup PidsAsked
    PROVE  IInv /\ At("call") /\ waitpid_collect(pid) => IInv' /\ Reported
<1> SUFFICES ASSUME IInv, At("call"), waitpid_collect(pid) PROVE IInv' /\ Reported
  OBVIOUS
<1> USE DEF waitpid_collect
<1>0. PICK c \in User : c = work.who
  BY Caller DEF At, Busy
<1>1. /\ c = work.who /\ c \in Slot /\ Live(c) /\ Idle(c) /\ kernel[c] = "awaiting" /\ Due = {}
      /\ work.child = NONE /\ noMap = {}
  BY <1>0, Caller DEF At, Busy
<1>2. PICK z \in Slot : /\ z = Min(ZombiesOf(pid))
                        /\ proc[z].parent = c /\ proc[z].state = "zombie"
  <2>1. ZombiesOf(pid) \in SUBSET Nat /\ ZombiesOf(pid) # {}
    BY Params DEF ZombiesOf, Counted
  <2>2. Min(ZombiesOf(pid)) \in ZombiesOf(pid)
    BY <2>1, MinIsIn
  <2> QED
    BY <1>1, <2>2 DEF ZombiesOf, Counted
<1>3. z \in User /\ z # c /\ z # ORIGIN /\ proc[z].pid \in 0 .. MAX_PID /\ proc[z].pid # ERROR_NO_MESSAGE
  <2>1. ~ (z <= ORIGIN) /\ z # c
    BY <1>1, <1>2 DEF IInv, BootSlots, Live
  <2>2. proc[z].pid \in 0 .. MAX_PID
    BY <1>2 DEF IInv, TypeOK, Entry, proc
  <2> QED
    BY <2>1, <2>2, Params DEF ERROR_NO_MESSAGE
<1>4. /\ mm' \in Memory /\ SameRest(mm, mm') /\ mm'.procs_in_use = mm.procs_in_use - 1
      /\ \A s \in Slot :
            /\ proc'[s].state = IF s = z THEN "free" ELSE proc[s].state
            /\ proc'[s].parent = proc[s].parent
            /\ proc'[s].waiting = IF s = c THEN NOT_WAITING ELSE proc[s].waiting
            /\ proc'[s].reply = IF s = c THEN proc[z].pid ELSE proc[s].reply
            /\ proc'[s].pid = proc[s].pid /\ proc'[s].map = proc[s].map
  <2>1. mm' = exit_cleanup(mm, z) /\ mm \in Memory
    BY <1>2, Types DEF IInv
  <2>2. mm.proc[z].parent = c
    BY <1>2 DEF proc
  <2> QED
    BY ONLY <2>1, <2>2, ExitCleanup DEF SameRest, proc
<1>5. WorkInv' /\ work'.who = NONE /\ work'.child = NONE /\ work'.step \in {"receive", "reply"}
      /\ work' \in [step : {"receive", "reply"}, who : {NONE}, child : {NONE}]
  BY <1>1, AnswerEnds
<1>6. CountRight'
  <2>1. Cardinality(Used(mm')) = Cardinality(Used(mm)) - 1
    <3>1. /\ mm.proc[z].state # "free"
          /\ \A s \in Slot : mm'.proc[s].state = IF s = z THEN "free" ELSE mm.proc[s].state
      BY <1>2, <1>4 DEF proc
    <3> QED
      BY ONLY <3>1, <1>2, OneFewer
  <2>2. mm.procs_in_use = Cardinality(Used(mm))
    BY DEF IInv, CountRight, Used, InUse, proc
  <2> QED
    BY <1>4, <2>1, <2>2 DEF CountRight, Used, InUse, proc
<1>7. TypeOK'
  <2>1. mm'.procs_in_use \in 0 .. NR_PROCS
    BY <1>6, CountFits DEF CountRight, Used, InUse, proc
  <2> QED
    BY <1>4, <1>5, <2>1 DEF IInv, TypeOK, Memory
<1>8. \A s \in Slot : /\ Live(s)' <=> Live(s)
                      /\ InUse(s)' <=> InUse(s) /\ s # z
  BY <1>2, <1>4 DEF Live, InUse
<1>9. BootSlots'
  BY <1>3, <1>4, Params DEF IInv, BootSlots
<1>10. InboxInv'
  BY SameInbox
<1>11. PidsUnique'
  BY <1>4, <1>8, Params DEF IInv, PidsUnique
<1>12. KernelAgrees'
  BY <1>5, <1>8, Params DEF IInv, KernelAgrees, At
<1>13. MemoryOwned'
  BY <1>4, <1>8, Params DEF IInv, MemoryOwned
<1>14. AnswersOwed'
  BY <1>1, <1>3, <1>4, Params DEF IInv, AnswersOwed, Due, Idle
<1>15. NoZombieAwaited'
  BY <1>4, NoNewZombie
<1>16. ParentAlive'
  <2>1. \A s \in User : proc[s].parent \in Slot
    BY Types, Params DEF IInv
  <2> QED
    BY <1>4, <1>8, <2>1, Params DEF IInv, ParentAlive
<1>17. Reported
  BY <1>2, <1>3, <1>4, <1>8, Params DEF Reported, proc
<1> QED
  BY <1>5, <1>6, <1>7, <1>9, <1>10, <1>11, <1>12, <1>13, <1>14, <1>15, <1>16, <1>17 DEF IInv

-----------------------------------------------------------------------------
(* The number of a new process: one is left, for there are more numbers    *)
(* than slots for the others, and no other slot has it.                    *)
LEMMA NewPidIsNew ==
    ASSUME TypeOK, BootSlots, NEW d \in User, d # ORIGIN
    PROVE  NewPid(d) \in 1 .. MAX_PID /\ \A s \in Slot \ {d} : proc[s].pid # NewPid(d)
<1> DEFINE Taken    == {proc[s].pid : s \in Slot \ {d}}
           Tries(q) == (q - mm.next_pid - 1) % MAX_PID
           Left     == (1 .. MAX_PID) \ Taken
           Others   == (User \ {ORIGIN}) \ {d}
<1>1. IsFiniteSet(Others) /\ Cardinality(Others) < MAX_PID
  <2>1. LOW_USER \in Int /\ NR_PROCS - 1 \in Int /\ ~ (LOW_USER > NR_PROCS - 1)
    BY Params
  <2>2. IsFiniteSet(LOW_USER .. NR_PROCS - 1)
        /\ Cardinality(LOW_USER .. NR_PROCS - 1) = (NR_PROCS - 1) - LOW_USER + 1
    BY <2>1, FS_Interval
  <2>3. IsFiniteSet(User) /\ Cardinality(User) = NR_PROCS - LOW_USER
    BY <2>2, Params DEF User
  <2>4. IsFiniteSet(User \ {ORIGIN}) /\ Cardinality(User \ {ORIGIN}) = NR_PROCS - LOW_USER - 1
    BY <2>3, FS_RemoveElement, Params
  <2>5. IsFiniteSet(Others) /\ Cardinality(Others) = NR_PROCS - LOW_USER - 2
    BY <2>4, FS_RemoveElement, Params
  <2> QED
    BY <2>5, Params
<1>2. IsFiniteSet(1 .. MAX_PID) /\ Cardinality(1 .. MAX_PID) = MAX_PID
  <2>1. 1 \in Int /\ MAX_PID \in Int /\ ~ (1 > MAX_PID)
    BY Params
  <2>2. IsFiniteSet(1 .. MAX_PID) /\ Cardinality(1 .. MAX_PID) = MAX_PID - 1 + 1
    BY <2>1, FS_Interval
  <2> QED
    BY <2>2, Params
<1>3. \A s \in Slot : proc[s].pid \in 0 .. MAX_PID
  BY DEF TypeOK, Entry, proc
<1>4. \A q \in Taken : q \in 1 .. MAX_PID => \E s \in Others : proc[s].pid = q
  BY Params DEF BootSlots, ORIGIN_PID
<1>5. Left # {}
  <2> SUFFICES ASSUME Left = {} PROVE FALSE
    OBVIOUS
  <2> DEFINE g == [q \in 1 .. MAX_PID |-> CHOOSE s \in Others : proc[s].pid = q]
  <2>1. \A q \in 1 .. MAX_PID : g[q] \in Others /\ proc[g[q]].pid = q
    <3> SUFFICES ASSUME NEW q \in 1 .. MAX_PID PROVE g[q] \in Others /\ proc[g[q]].pid = q
      OBVIOUS
    <3>1. \E s \in Others : proc[s].pid = q
      BY <1>4
    <3> QED
      BY <3>1
  <2>2. g \in [1 .. MAX_PID -> Others]
    BY <2>1
  <2> HIDE DEF g, Others
  <2>3. Cardinality(Others) < Cardinality(1 .. MAX_PID)
    BY <1>1, <1>2
  <2>4. \E x, y \in 1 .. MAX_PID : x # y /\ g[x] = g[y]
    BY ONLY <1>1, <1>2, <2>2, <2>3, FS_PigeonHole
  <2> QED
    BY <2>1, <2>4
<1>6. \E q \in Left : \A r \in Left : Tries(q) <= Tries(r)
  <2>1. \A q \in Left : Tries(q) \in Nat
    <3>1. mm.next_pid \in Nat
      BY DEF TypeOK
    <3> QED
      BY <3>1, Params
  <2> HIDE DEF Tries, Left
  <2> DEFINE T == {Tries(q) : q \in Left}
  <2>2. T \in SUBSET Nat /\ T # {}
    BY <1>5, <2>1
  <2>3. PICK x \in T : \A y \in T : x <= y
    BY <2>2, NatLeast
  <2> QED
    BY <2>3
<1>7. NewPid(d) \in Left
  BY <1>6 DEF NewPid
<1> QED
  BY <1>7

(* The first half of fork: MM has the child, the kernel does not yet.      *)
LEMMA ForkKeeps == IInv /\ do_fork => IInv'
<1> SUFFICES ASSUME IInv, do_fork PROVE IInv'
  OBVIOUS
<1>0. PICK c \in User : c = work.who
  BY Caller DEF do_fork, At, Busy
<1>1. /\ c = work.who /\ c \in Slot /\ Live(c) /\ Idle(c) /\ kernel[c] = "awaiting" /\ Due = {}
      /\ work.child = NONE /\ noMap = {} /\ At("call")
  BY <1>0, Caller DEF do_fork, At, Busy
<1>2. PICK b \in Block : b = Min(holes) /\ b \in holes
  <2>1. holes \in SUBSET Nat /\ holes # {} /\ holes \subseteq Block
    BY Params DEF do_fork, IInv, TypeOK
  <2> QED
    BY <2>1, MinIsIn
<1>3. PICK d \in Slot : d = Min(FreeSlots) /\ proc[d].state = "free"
  <2>1. FreeSlots # {}
    <3> SUFFICES ASSUME FreeSlots = {} PROVE FALSE
      OBVIOUS
    <3>1. {s \in Slot : InUse(s)} = Slot
      BY DEF FreeSlots, InUse
    <3> QED
      BY <3>1, SlotsFinite DEF IInv, CountRight, do_fork
  <2>2. FreeSlots \in SUBSET Nat
    BY Params DEF FreeSlots
  <2>3. Min(FreeSlots) \in FreeSlots
    BY <2>1, <2>2, MinIsIn
  <2> QED
    BY <2>3 DEF FreeSlots
<1>4. d \in User /\ d # ORIGIN /\ d # c /\ ~ (d <= ORIGIN) /\ kernel[d] = "none"
  <2>1. ~ (d <= ORIGIN) /\ d # c /\ ~ Live(d)
    BY <1>1, <1>3 DEF IInv, BootSlots, Live
  <2>2. d \in User /\ d # ORIGIN
    BY <2>1, Params
  <2> QED
    BY <2>1, <2>2 DEF IInv, KernelAgrees
<1>5. PICK n \in 1 .. MAX_PID : n = NewPid(d) /\ \A s \in Slot \ {d} : proc[s].pid # n
  BY <1>4, NewPidIsNew DEF IInv
<1>6. /\ holes' = holes \ {b}
      /\ mm' = [proc |-> [proc EXCEPT ![d] = [proc[c] EXCEPT
                             !.state = "live", !.pid = n, !.parent = c, !.map = b,
                             !.waiting = NOT_WAITING, !.reply = ERROR_NO_MESSAGE]],
                procs_in_use |-> mm.procs_in_use + 1,
                next_pid |-> n]
      /\ work' = [step |-> "sys_fork", who |-> c, child |-> d]
      /\ UNCHANGED <<inbox, kernel, noMap>>
  BY <1>1, <1>2, <1>3, <1>5 DEF do_fork, Work
<1>7. /\ proc' \in [Slot -> Entry]
      /\ \A s \in Slot \ {d} : proc'[s] = proc[s]
      /\ proc'[d].state = "live" /\ proc'[d].pid = n /\ proc'[d].parent = c /\ proc'[d].map = b
      /\ proc'[d].waiting = NOT_WAITING /\ proc'[d].reply = ERROR_NO_MESSAGE
  <2>1. proc \in [Slot -> Entry]
    BY DEF IInv, TypeOK, proc
  <2> DEFINE e == [proc[c] EXCEPT !.state = "live", !.pid = n, !.parent = c, !.map = b,
                             !.waiting = NOT_WAITING, !.reply = ERROR_NO_MESSAGE]
  <2>2. /\ e \in Entry /\ e.state = "live" /\ e.pid = n /\ e.parent = c /\ e.map = b
        /\ e.waiting = NOT_WAITING /\ e.reply = ERROR_NO_MESSAGE
    <3>1. proc[c] \in Entry /\ n \in 0 .. MAX_PID
      BY <1>1, <2>1, Params
    <3> QED
      BY <1>1, <3>1 DEF Entry
  <2>3. mm'.proc = [proc EXCEPT ![d] = e]
    BY <1>6
  <2> HIDE DEF e
  <2>4. [proc EXCEPT ![d] = e] \in [Slot -> Entry] /\ [proc EXCEPT ![d] = e][d] = e
        /\ \A s \in Slot \ {d} : [proc EXCEPT ![d] = e][s] = proc[s]
    BY <2>1, <2>2
  <2>5. proc' = [proc EXCEPT ![d] = e]
    BY <2>3 DEF proc
  <2> QED
    BY <2>2, <2>4, <2>5
<1>8. mm'.procs_in_use = mm.procs_in_use + 1 /\ mm'.next_pid = n
  BY <1>6
<1>9. \A s \in Slot : /\ Live(s)' <=> Live(s) \/ s = d
                      /\ InUse(s)' <=> InUse(s) \/ s = d
  BY <1>7 DEF Live, InUse
<1>10. CountRight'
  <2>1. {s \in Slot : InUse(s)}' = {s \in Slot : InUse(s)} \cup {d} /\ d \notin {s \in Slot : InUse(s)}
    BY <1>3, <1>9 DEF InUse
  <2>2. IsFiniteSet({s \in Slot : InUse(s)})
    BY SlotsFinite, FS_Subset
  <2>3. Cardinality({s \in Slot : InUse(s)} \cup {d}) = Cardinality({s \in Slot : InUse(s)}) + 1
    BY <2>1, <2>2, FS_AddElement
  <2> QED
    BY <1>8, <2>1, <2>3 DEF IInv, CountRight
<1>11. TypeOK'
  <2>1. mm.procs_in_use + 1 \in 0 .. NR_PROCS
    <3>1. mm.procs_in_use \in 0 .. NR_PROCS
      BY DEF IInv, TypeOK
    <3>2. mm.procs_in_use # NR_PROCS
      BY DEF do_fork
    <3> QED
      BY <3>1, <3>2, Params
  <2>2. mm' \in [proc : [Slot -> Entry], procs_in_use : 0 .. NR_PROCS, next_pid : 0 .. MAX_PID]
    <3>1. mm' = [proc |-> proc', procs_in_use |-> mm.procs_in_use + 1, next_pid |-> n]
      BY <1>6 DEF proc
    <3>2. n \in 0 .. MAX_PID
      BY Params
    <3> QED
      BY <1>7, <2>1, <3>1, <3>2
  <2> QED
    BY <1>2, <1>4, <1>6, <2>2 DEF IInv, TypeOK
<1>12. BootSlots'
  BY <1>4, <1>7 DEF IInv, BootSlots
<1>13. WorkInv'
  <2>1. Due' = {}
    BY <1>1, <1>7, Params DEF Due
  <2>2. (Live(c)' /\ Idle(c)') /\ (Live(d)' /\ Idle(d)')
    BY <1>1, <1>4, <1>7 DEF Live, Idle
  <2> QED
    BY <1>1, <1>4, <1>6, <2>1, <2>2 DEF WorkInv, At, Busy, Forking
<1>14. InboxInv'
  BY <1>6, SameInbox
<1>15. PidsUnique'
  <2> SUFFICES ASSUME NEW s \in User, NEW r \in User, InUse(s)', InUse(r)', proc'[s].pid = proc'[r].pid
               PROVE  s = r
    BY DEF PidsUnique
  <2>1. s \in Slot /\ r \in Slot
    BY Params
  <2>2. CASE s # d /\ r # d
    BY <1>7, <1>9, <2>1, <2>2 DEF IInv, PidsUnique
  <2>3. CASE s = d \/ r = d
    BY <1>5, <1>7, <2>1, <2>3
  <2> QED
    BY <2>2, <2>3
<1>16. KernelAgrees'
  BY <1>1, <1>4, <1>6, <1>9, Params DEF IInv, KernelAgrees, At
<1>17. MemoryOwned'
  <2>1. \A s \in User : Live(s) => s # d
    BY <1>3 DEF Live
  <2>2. \A s \in User \ {ORIGIN} : Live(s)' => proc'[s].map \in Block \ holes'
    BY <1>2, <1>6, <1>7, <1>9, Params DEF IInv, MemoryOwned
  <2>3. \A k \in Block \ holes' : \E s \in User : Live(s)' /\ proc'[s].map = k
    <3> SUFFICES ASSUME NEW k \in Block \ holes' PROVE \E s \in User : Live(s)' /\ proc'[s].map = k
      OBVIOUS
    <3>1. CASE k = b
      BY <1>4, <1>7, <1>9, <3>1, Params
    <3>2. CASE k # b
      <4>1. PICK s \in User : Live(s) /\ proc[s].map = k
        BY <1>6, <3>2 DEF IInv, MemoryOwned
      <4> QED
        BY <1>7, <1>9, <2>1, <4>1, Params
    <3> QED
      BY <3>1, <3>2
  <2>4. \A s, r \in User \ {ORIGIN} : Live(s)' /\ Live(r)' /\ proc'[s].map = proc'[r].map => s = r
    BY <1>2, <1>7, <1>9, Params DEF IInv, MemoryOwned
  <2> QED
    BY <2>2, <2>3, <2>4 DEF MemoryOwned
<1>18. AnswersOwed'
  <2> SUFFICES ASSUME NEW s \in User
               PROVE  /\ proc'[s].reply # ERROR_NO_MESSAGE => kernel[s] = "awaiting" /\ proc'[s].waiting = NOT_WAITING
                      /\ proc'[s].waiting # NOT_WAITING => kernel[s] = "awaiting"
                      /\ kernel[s] = "awaiting" => s \in Due' \/ proc'[s].waiting # NOT_WAITING
                                                   \/ s \in {work'.who, work'.child}
    BY <1>6 DEF AnswersOwed
  <2>1. CASE s = d
    BY <1>4, <1>7, <2>1
  <2>2. CASE s # d
    BY <1>1, <1>6, <1>7, <2>2, Params DEF IInv, AnswersOwed, Due
  <2> QED
    BY <2>1, <2>2
<1>19. NoZombieAwaited'
  BY <1>7, NoNewZombie
<1>20. ParentAlive'
  <2>1. \A s \in User \ {ORIGIN} : InUse(s)' /\ s # d =>
           /\ proc'[s].parent = proc[s].parent /\ proc[s].parent \in User /\ Live(proc[s].parent)
    BY <1>7, <1>9, Params DEF IInv, ParentAlive
  <2>2. \A q \in User : Live(q) => Live(q)'
    BY <1>9, Params
  <2>3. \A s \in User \ {ORIGIN} : InUse(s)' =>
           \E q \in User : proc'[s].parent = q /\ Live(q)'
    BY <1>1, <1>7, <2>1, <2>2
  <2> QED
    BY <2>3 DEF ParentAlive, Live
<1> QED
  BY <1>10, <1>11, <1>12, <1>13, <1>14, <1>15, <1>16, <1>17, <1>18, <1>19, <1>20 DEF IInv

-----------------------------------------------------------------------------
(* A death.  The waiting parent collects it, or it is a zombie.            *)
LEMMA Burial ==
    ASSUME NEW m \in Memory, NEW p \in Slot, NEW f \in Slot, f = m.proc[p].parent,
           m.proc[p].state = "live", m.procs_in_use = Cardinality(Used(m)),
           NEW n, n = Buried(m, p)
    PROVE  /\ n \in Memory /\ SameRest(m, n) /\ n.procs_in_use = Cardinality(Used(n))
           /\ \A q \in Slot : n.proc[q].parent = m.proc[q].parent
           /\ \A q \in Slot \ {p} : n.proc[q].state = m.proc[q].state
           /\ m.proc[f].waiting # NOT_WAITING =>
                 /\ n.proc[p].state = "free"
                 /\ \A q \in Slot :
                       /\ n.proc[q].waiting = IF q = f THEN NOT_WAITING ELSE m.proc[q].waiting
                       /\ n.proc[q].reply = IF q = f THEN m.proc[p].pid ELSE m.proc[q].reply
           /\ m.proc[f].waiting = NOT_WAITING =>
                 /\ n.proc[p].state = "zombie"
                 /\ \A q \in Slot : /\ n.proc[q].waiting = m.proc[q].waiting
                                    /\ n.proc[q].reply = m.proc[q].reply
<1>1. CASE m.proc[f].waiting # NOT_WAITING
  <2>1. n = exit_cleanup(m, p)
    BY <1>1 DEF Buried, IsWaiting
  <2>2. /\ n \in Memory /\ SameRest(m, n) /\ n.procs_in_use = m.procs_in_use - 1
        /\ \A q \in Slot :
              /\ n.proc[q].state = IF q = p THEN "free" ELSE m.proc[q].state
              /\ n.proc[q].parent = m.proc[q].parent
              /\ n.proc[q].waiting = IF q = f THEN NOT_WAITING ELSE m.proc[q].waiting
              /\ n.proc[q].reply = IF q = f THEN m.proc[p].pid ELSE m.proc[q].reply
    BY <2>1, ExitCleanup
  <2>3. Cardinality(Used(n)) = Cardinality(Used(m)) - 1
    BY <2>2, OneFewer
  <2> QED
    BY <1>1, <2>2, <2>3
<1>2. CASE m.proc[f].waiting = NOT_WAITING
  <2>1. n = [m EXCEPT !.proc[p].state = "zombie"]
    BY <1>2 DEF Buried, IsWaiting
  <2>2. /\ n \in Memory /\ SameRest(m, n) /\ n.procs_in_use = m.procs_in_use
        /\ \A q \in Slot :
              /\ n.proc[q].state = IF q = p THEN "zombie" ELSE m.proc[q].state
              /\ n.proc[q].parent = m.proc[q].parent
              /\ n.proc[q].waiting = m.proc[q].waiting
              /\ n.proc[q].reply = m.proc[q].reply
    BY <2>1 DEF Memory, Entry, SameRest
  <2>3. Used(n) = Used(m)
    BY <2>2 DEF Used
  <2> QED
    BY <1>2, <2>2, <2>3
<1> QED
  BY <1>1, <1>2

(* n is m after ORIGIN adopted the children of p, and collected one of     *)
(* them that was dead already, if it waited and there was one.             *)
AdoptedFrom(m, p, n) ==
    /\ n \in Memory /\ SameRest(m, n) /\ n.procs_in_use = Cardinality(Used(n))
    /\ \A q \in Slot :
          n.proc[q].parent = IF m.proc[q].parent = p THEN ORIGIN ELSE m.proc[q].parent
    /\ \/ /\ \A q \in Slot : /\ n.proc[q].state = m.proc[q].state
                             /\ n.proc[q].waiting = m.proc[q].waiting
                             /\ n.proc[q].reply = m.proc[q].reply
          /\ \/ m.proc[ORIGIN].waiting = NOT_WAITING
             \/ \A q \in Slot : m.proc[q].parent = p => m.proc[q].state # "zombie"
       \/ \E z \in Slot :
             /\ m.proc[ORIGIN].waiting # NOT_WAITING
             /\ m.proc[z].parent = p /\ m.proc[z].state = "zombie"
             /\ \A q \in Slot :
                   /\ n.proc[q].state = IF q = z THEN "free" ELSE m.proc[q].state
                   /\ n.proc[q].waiting = IF q = ORIGIN THEN NOT_WAITING ELSE m.proc[q].waiting
                   /\ n.proc[q].reply = IF q = ORIGIN THEN m.proc[z].pid ELSE m.proc[q].reply

(* The loop over the children of a process that is gone does just that.    *)
LEMMA Adoption ==
    ASSUME NEW m \in Memory, NEW p \in Slot, m.procs_in_use = Cardinality(Used(m)),
           NEW n, n = Orphaned(m, p)
    PROVE  AdoptedFrom(m, p, n)
<1> USE DEF AdoptedFrom
<1> DEFINE orphans == {s \in Slot : m.proc[s].parent = p}
           zombies == {s \in orphans : m.proc[s].state = "zombie"}
           g == [s \in Slot |-> [m.proc[s] EXCEPT !.parent = IF s \in orphans THEN ORIGIN ELSE @]]
           a == [m EXCEPT !.proc = g]
<1>1. /\ a \in Memory /\ SameRest(m, a) /\ a.procs_in_use = m.procs_in_use
      /\ \A q \in Slot :
            /\ a.proc[q].state = m.proc[q].state
            /\ a.proc[q].parent = IF m.proc[q].parent = p THEN ORIGIN ELSE m.proc[q].parent
            /\ a.proc[q].waiting = m.proc[q].waiting
            /\ a.proc[q].reply = m.proc[q].reply
  <2>1. m.proc \in [Slot -> Entry] /\ m.procs_in_use \in Int /\ m.next_pid \in 0 .. MAX_PID
        /\ m = [proc |-> m.proc, procs_in_use |-> m.procs_in_use, next_pid |-> m.next_pid]
    BY DEF Memory
  <2>2. g \in [Slot -> Entry]
    BY <2>1, Params DEF Entry
  <2>3. \A q \in Slot :
            /\ g[q].state = m.proc[q].state
            /\ g[q].parent = IF m.proc[q].parent = p THEN ORIGIN ELSE m.proc[q].parent
            /\ g[q].waiting = m.proc[q].waiting /\ g[q].reply = m.proc[q].reply
            /\ g[q].pid = m.proc[q].pid /\ g[q].map = m.proc[q].map
    BY <2>1 DEF Entry
  <2> HIDE DEF g
  <2>4. a = [proc |-> g, procs_in_use |-> m.procs_in_use, next_pid |-> m.next_pid]
    BY <2>1
  <2> QED
    BY <2>1, <2>2, <2>3, <2>4 DEF Memory, SameRest
<1>2. Used(a) = Used(m)
  BY <1>1 DEF Used
<1>3. n = IF zombies # {} /\ IsWaiting(m, ORIGIN) THEN exit_cleanup(a, Min(zombies)) ELSE a
  BY DEF Orphaned
<1> HIDE DEF a
<1>4. CASE zombies # {} /\ IsWaiting(m, ORIGIN)
  <2>1. PICK z \in Slot : z = Min(zombies) /\ m.proc[z].parent = p /\ m.proc[z].state = "zombie"
    <3>1. zombies \in SUBSET Nat
      BY Params
    <3>2. Min(zombies) \in zombies
      BY <1>4, <3>1, MinIsIn
    <3> QED
      BY <3>2
  <2>2. a \in Memory /\ a.proc[z].parent = ORIGIN /\ n = exit_cleanup(a, z)
    BY <1>1, <1>3, <1>4, <2>1
  <2>3. /\ n \in Memory /\ SameRest(a, n) /\ n.procs_in_use = a.procs_in_use - 1
        /\ \A q \in Slot :
              /\ n.proc[q].state = IF q = z THEN "free" ELSE a.proc[q].state
              /\ n.proc[q].parent = a.proc[q].parent
              /\ n.proc[q].waiting = IF q = ORIGIN THEN NOT_WAITING ELSE a.proc[q].waiting
              /\ n.proc[q].reply = IF q = ORIGIN THEN a.proc[z].pid ELSE a.proc[q].reply
    BY <2>2, ExitCleanup
  <2>4. Cardinality(Used(n)) = Cardinality(Used(a)) - 1
    BY <1>1, <2>1, <2>3, OneFewer
  <2>5. n.procs_in_use = Cardinality(Used(n)) /\ SameRest(m, n)
    BY <1>1, <1>2, <2>3, <2>4 DEF SameRest
  <2>6. /\ m.proc[ORIGIN].waiting # NOT_WAITING
        /\ \A q \in Slot :
              /\ n.proc[q].state = IF q = z THEN "free" ELSE m.proc[q].state
              /\ n.proc[q].waiting = IF q = ORIGIN THEN NOT_WAITING ELSE m.proc[q].waiting
              /\ n.proc[q].reply = IF q = ORIGIN THEN m.proc[z].pid ELSE m.proc[q].reply
    BY <1>1, <1>4, <2>3 DEF IsWaiting, SameRest
  <2>7. \A q \in Slot :
           n.proc[q].parent = IF m.proc[q].parent = p THEN ORIGIN ELSE m.proc[q].parent
    BY <1>1, <2>3
  <2> QED
    BY <2>1, <2>3, <2>5, <2>6, <2>7
<1>5. CASE ~ (zombies # {} /\ IsWaiting(m, ORIGIN))
  <2>1. n = a
    BY <1>3, <1>5
  <2>2. \/ m.proc[ORIGIN].waiting = NOT_WAITING
        \/ \A q \in Slot : m.proc[q].parent = p => m.proc[q].state # "zombie"
    BY <1>5 DEF IsWaiting
  <2> QED
    BY <1>1, <1>2, <2>1, <2>2
<1> QED
  BY <1>4, <1>5

(* The caller is gone: what both functions have done together.             *)
LEMMA MmExitKeeps == IInv /\ mm_exit => IInv' /\ Reported
<1> SUFFICES ASSUME IInv, mm_exit PROVE IInv' /\ Reported
  OBVIOUS
<1>0. PICK c \in User : c = work.who
  BY Caller DEF mm_exit, At, Busy
<1>1. /\ c = work.who /\ c \in Slot /\ Live(c) /\ Idle(c) /\ kernel[c] = "awaiting" /\ Due = {}
      /\ work.child = NONE /\ noMap = {} /\ c # ORIGIN /\ At("sys_exit")
  <2>1. work.step = "sys_exit"
    BY DEF mm_exit, At
  <2> QED
    BY <1>0, <2>1, Caller DEF IInv, WorkInv, At, Busy, Forking
<1>2. PICK f \in User : f = proc[c].parent /\ Live(f) /\ f \in Slot
  BY <1>1, Params DEF IInv, ParentAlive, Live, InUse
<1>3. PICK m1 : m1 = Buried(mm, c)
  OBVIOUS
<1>4. mm' = Orphaned(m1, c) /\ mm \in Memory /\ mm.procs_in_use = Cardinality(Used(mm))
      /\ f = mm.proc[c].parent /\ mm.proc[c].state = "live" /\ f \in Slot /\ c \in Slot
  BY <1>1, <1>2, <1>3, Types DEF IInv, CountRight, Used, InUse, mm_exit, proc, Live
<1>5. /\ m1 \in Memory /\ SameRest(mm, m1) /\ m1.procs_in_use = Cardinality(Used(m1))
      /\ \A q \in Slot : m1.proc[q].parent = proc[q].parent
      /\ \A q \in Slot \ {c} : m1.proc[q].state = proc[q].state
      /\ proc[f].waiting # NOT_WAITING =>
            /\ m1.proc[c].state = "free"
            /\ \A q \in Slot :
                  /\ m1.proc[q].waiting = IF q = f THEN NOT_WAITING ELSE proc[q].waiting
                  /\ m1.proc[q].reply = IF q = f THEN proc[c].pid ELSE proc[q].reply
      /\ proc[f].waiting = NOT_WAITING =>
            /\ m1.proc[c].state = "zombie"
            /\ \A q \in Slot : /\ m1.proc[q].waiting = proc[q].waiting
                               /\ m1.proc[q].reply = proc[q].reply
  BY ONLY <1>3, <1>4, Burial DEF proc
<1>6. /\ mm' \in Memory /\ SameRest(m1, mm') /\ mm'.procs_in_use = Cardinality(Used(mm'))
      /\ \A q \in Slot :
            proc'[q].parent = IF m1.proc[q].parent = c THEN ORIGIN ELSE m1.proc[q].parent
      /\ \/ /\ \A q \in Slot : /\ proc'[q].state = m1.proc[q].state
                               /\ proc'[q].waiting = m1.proc[q].waiting
                               /\ proc'[q].reply = m1.proc[q].reply
            /\ \/ m1.proc[ORIGIN].waiting = NOT_WAITING
               \/ \A q \in Slot : m1.proc[q].parent = c => m1.proc[q].state # "zombie"
         \/ \E z \in Slot :
               /\ m1.proc[ORIGIN].waiting # NOT_WAITING
               /\ m1.proc[z].parent = c /\ m1.proc[z].state = "zombie"
               /\ \A q \in Slot :
                     /\ proc'[q].state = IF q = z THEN "free" ELSE m1.proc[q].state
                     /\ proc'[q].waiting = IF q = ORIGIN THEN NOT_WAITING ELSE m1.proc[q].waiting
                     /\ proc'[q].reply = IF q = ORIGIN THEN m1.proc[z].pid ELSE m1.proc[q].reply
  <2>1. AdoptedFrom(m1, c, mm')
    BY ONLY <1>4, <1>5, Adoption
  <2> QED
    BY ONLY <2>1 DEF AdoptedFrom, proc
<1>7. \A q \in Slot : proc'[q].pid = proc[q].pid /\ proc'[q].map = proc[q].map
  BY <1>5, <1>6 DEF SameRest, proc
<1>8. /\ \A q \in Slot : proc'[q].parent = IF proc[q].parent = c THEN ORIGIN ELSE proc[q].parent
      /\ \A q \in Slot \ {c} : \/ proc'[q].state = proc[q].state
                               \/ proc[q].state = "zombie" /\ proc'[q].state = "free"
      /\ proc'[c].state \in {"zombie", "free"}
  BY <1>1, <1>5, <1>6
<1>9. \A q \in Slot : \/ proc'[q].waiting = proc[q].waiting /\ proc'[q].reply = proc[q].reply
                      \/ /\ q \in {f, ORIGIN} /\ proc[q].waiting # NOT_WAITING
                         /\ proc'[q].waiting = NOT_WAITING
                         /\ \E z \in Slot : proc'[q].reply = proc[z].pid
  <2>1. \A q \in Slot : m1.proc[q].pid = proc[q].pid
    BY <1>5 DEF SameRest, proc
  <2>2. \A q \in Slot : \/ m1.proc[q].waiting = proc[q].waiting /\ m1.proc[q].reply = proc[q].reply
                        \/ /\ q = f /\ proc[q].waiting # NOT_WAITING
                           /\ m1.proc[q].waiting = NOT_WAITING /\ m1.proc[q].reply = proc[c].pid
    BY <1>1, <1>2, <1>5
  <2>3. \A q \in Slot : \/ proc'[q].waiting = m1.proc[q].waiting /\ proc'[q].reply = m1.proc[q].reply
                        \/ /\ q = ORIGIN /\ m1.proc[q].waiting # NOT_WAITING
                           /\ proc'[q].waiting = NOT_WAITING
                           /\ \E z \in Slot : proc'[q].reply = m1.proc[z].pid
    BY <1>6
  <2> QED
    BY <1>1, <2>1, <2>2, <2>3
<1>10. /\ holes' = holes \cup {proc[c].map} /\ UNCHANGED <<inbox, noMap>> /\ Answer
       /\ \A s \in User : kernel'[s] = IF s = c THEN "none" ELSE kernel[s]
       /\ kernel' \in [User -> {"none", "running", "calling", "awaiting"}]
  <2>1. kernel' = [kernel EXCEPT ![c] = "none"]
    BY <1>1 DEF mm_exit
  <2>2. kernel \in [User -> {"none", "running", "calling", "awaiting"}]
    BY DEF IInv, TypeOK
  <2>3. holes' = holes \cup {proc[c].map} /\ UNCHANGED <<inbox, noMap>> /\ Answer
    BY <1>1 DEF mm_exit, Freed
  <2> QED
    BY <2>1, <2>2, <2>3
<1>11. noMap' = {}
  BY <1>1, <1>10
<1>12. WorkInv' /\ work'.who = NONE /\ work'.child = NONE /\ work'.step \in {"receive", "reply"}
       /\ work' \in [step : {"receive", "reply"}, who : {NONE}, child : {NONE}]
  BY <1>10, <1>11, AnswerEnds
<1>13. CountRight'
  BY <1>6 DEF CountRight, Used, InUse, proc
<1>14. \A s \in Slot : /\ (Live(s)' <=> Live(s) /\ s # c)
                       /\ (InUse(s)' => InUse(s))
  BY <1>1, <1>8 DEF Live, InUse
<1>15. proc[c].map \in Block \ holes /\ c \in User \ {ORIGIN}
  BY <1>1 DEF IInv, MemoryOwned
<1>16. TypeOK'
  <2>1. mm'.procs_in_use \in 0 .. NR_PROCS
    BY <1>6, CountFits
  <2>2. mm' \in [proc : [Slot -> Entry], procs_in_use : 0 .. NR_PROCS, next_pid : 0 .. MAX_PID]
    BY <1>6, <2>1 DEF Memory
  <2>3. holes' \subseteq Block
    BY <1>10, <1>15 DEF IInv, TypeOK
  <2> QED
    BY <1>10, <1>12, <2>2, <2>3 DEF IInv, TypeOK
<1>17. BootSlots'
  <2>1. ~ (c <= ORIGIN)
    BY <1>1, Params
  <2> QED
    BY <1>7, <1>8, <2>1 DEF IInv, BootSlots
<1>18. InboxInv'
  BY <1>1, <1>10, SameInbox
<1>19. PidsUnique'
  BY <1>7, <1>14, Params DEF IInv, PidsUnique
<1>20. KernelAgrees'
  BY <1>1, <1>10, <1>12, <1>14, Params DEF IInv, KernelAgrees, At
<1>21. MemoryOwned'
  <2>1. \A s \in User \ {ORIGIN} : Live(s)' => proc'[s].map \in Block \ holes'
    <3> SUFFICES ASSUME NEW s \in User \ {ORIGIN}, Live(s)' PROVE proc'[s].map \in Block \ holes'
      OBVIOUS
    <3>1. s \in Slot /\ Live(s) /\ s # c
      BY <1>14, Params
    <3>2. proc[s].map \in Block \ holes /\ proc[s].map # proc[c].map
      BY <1>1, <1>15, <3>1 DEF IInv, MemoryOwned
    <3> QED
      BY <1>7, <1>10, <3>1, <3>2
  <2>2. \A b \in Block \ holes' : \E s \in User : Live(s)' /\ proc'[s].map = b
    <3> SUFFICES ASSUME NEW b \in Block \ holes' PROVE \E s \in User : Live(s)' /\ proc'[s].map = b
      OBVIOUS
    <3>1. b \in Block \ holes /\ b # proc[c].map
      BY <1>10
    <3>2. PICK s \in User : Live(s) /\ proc[s].map = b
      BY <3>1 DEF IInv, MemoryOwned
    <3> QED
      BY <1>7, <1>14, <3>1, <3>2, Params
  <2>3. \A s, r \in User \ {ORIGIN} : Live(s)' /\ Live(r)' /\ proc'[s].map = proc'[r].map => s = r
    BY <1>7, <1>14, Params DEF IInv, MemoryOwned
  <2> QED
    BY <2>1, <2>2, <2>3 DEF MemoryOwned
<1>22. AnswersOwed'
  <2> SUFFICES ASSUME NEW s \in User
               PROVE  /\ proc'[s].reply # ERROR_NO_MESSAGE => kernel'[s] = "awaiting" /\ proc'[s].waiting = NOT_WAITING
                      /\ proc'[s].waiting # NOT_WAITING => kernel'[s] = "awaiting"
                      /\ kernel'[s] = "awaiting" => s \in Due' \/ proc'[s].waiting # NOT_WAITING
    BY DEF AnswersOwed
  <2>1. s \in Slot
    BY Params
  <2>2. /\ proc[s].reply = ERROR_NO_MESSAGE
        /\ proc[s].waiting # NOT_WAITING => kernel[s] = "awaiting"
        /\ kernel[s] = "awaiting" => proc[s].waiting # NOT_WAITING \/ s = c
    BY <1>1, Params DEF IInv, AnswersOwed, Due
  <2>3. proc[c].waiting = NOT_WAITING
    BY <1>1 DEF Idle
  <2>4. CASE proc'[s].waiting = proc[s].waiting /\ proc'[s].reply = proc[s].reply
    BY <1>10, <2>2, <2>3, <2>4
  <2>5. CASE /\ proc[s].waiting # NOT_WAITING /\ proc'[s].waiting = NOT_WAITING
             /\ \E z \in Slot : proc'[s].reply = proc[z].pid
    <3>1. proc'[s].reply # ERROR_NO_MESSAGE
      BY <2>5, Types DEF IInv, TypeOK, Entry, proc
    <3>2. s \in Due'
      BY <3>1 DEF Due
    <3> QED
      BY <1>10, <2>2, <2>3, <2>5, <3>2
  <2> QED
    BY <1>9, <2>1, <2>4, <2>5
<1>23. NoZombieAwaited'
  <2> SUFFICES ASSUME NEW p \in User, NEW s \in Slot, proc'[p].waiting # NOT_WAITING,
                      proc'[s].parent = p, proc'[s].state = "zombie", Accepts(proc[p].waiting, s)'
               PROVE  FALSE
    BY DEF NoZombieAwaited
  <2>1. p \in Slot /\ ORIGIN \in Slot
    BY Params
  <2>2. proc'[p].waiting = proc[p].waiting /\ m1.proc[p].waiting = proc[p].waiting
    BY <1>5, <1>6, <1>9, <2>1
  <2>3. CASE s # c /\ proc[s].parent # c
    BY <1>7, <1>8, <2>2, <2>3 DEF IInv, NoZombieAwaited, Accepts
  <2>4. CASE s = c /\ proc[s].parent # c
    <3>1. p = f
      BY <1>2, <1>8, <2>4
    <3>2. m1.proc[c].state = "zombie"
      BY <1>6, <2>4
    <3> QED
      BY <1>5, <2>2, <3>1, <3>2
  <2>5. CASE proc[s].parent = c
    <3>1. p = ORIGIN
      BY <1>8, <2>5
    <3>2. m1.proc[s].state = "zombie" /\ m1.proc[s].parent = c
      BY <1>5, <1>6, <2>5
    <3> QED
      BY <1>6, <2>1, <2>2, <3>1, <3>2
  <2> QED
    BY <2>3, <2>4, <2>5
<1>24. ParentAlive'
  <2>1. Live(ORIGIN)'
    BY <1>14, <1>1, Params DEF IInv, BootSlots, Live
  <2>2. \A s \in User \ {ORIGIN} : InUse(s)' =>
           \E q \in User : proc'[s].parent = q /\ Live(q)'
    <3> SUFFICES ASSUME NEW s \in User \ {ORIGIN}, InUse(s)'
                 PROVE  \E q \in User : proc'[s].parent = q /\ Live(q)'
      OBVIOUS
    <3>1. CASE proc[s].parent = c
      BY <1>8, <2>1, <3>1, Params
    <3>2. CASE proc[s].parent # c
      BY <1>8, <1>14, <3>2, Params DEF IInv, ParentAlive
    <3> QED
      BY <3>1, <3>2
  <2> QED
    BY <2>2 DEF ParentAlive, Live
<1>25. Reported
  <2> SUFFICES ASSUME NEW s \in User, InUse(s), ~ InUse(s)'
               PROVE  proc'[proc'[s].parent].reply = proc[s].pid
    BY DEF Reported, proc
  <2>1. s \in Slot /\ ORIGIN \in Slot /\ m1.proc[s].pid = proc[s].pid
    BY <1>5, Params DEF SameRest, proc
  <2>2. CASE m1.proc[s].state = "free"
    <3>1. s = c /\ proc[f].waiting # NOT_WAITING
      BY <1>5, <2>1, <2>2 DEF InUse
    <3>2. f # c /\ proc'[s].parent = f /\ m1.proc[f].reply = proc[c].pid /\ m1.proc[f].waiting = NOT_WAITING
      BY <1>1, <1>2, <1>5, <1>8, <3>1 DEF Idle
    <3>3. proc'[f].reply = m1.proc[f].reply
      BY <1>2, <1>6, <3>2
    <3> QED
      BY <3>1, <3>2, <3>3
  <2>3. CASE m1.proc[s].state # "free"
    <3>1. proc'[s].state = "free"
      BY DEF InUse
    <3>2. PICK z \in Slot :
               /\ m1.proc[z].parent = c
               /\ \A q \in Slot :
                     /\ proc'[q].state = IF q = z THEN "free" ELSE m1.proc[q].state
                     /\ proc'[q].reply = IF q = ORIGIN THEN m1.proc[z].pid ELSE m1.proc[q].reply
      BY <1>6, <2>1, <2>3, <3>1
    <3>3. s = z
      BY <2>1, <2>3, <3>1, <3>2
    <3> QED
      BY <1>6, <2>1, <3>2, <3>3
  <2> QED
    BY <2>2, <2>3
<1> QED
  BY <1>12, <1>13, <1>16, <1>17, <1>18, <1>19, <1>20, <1>21, <1>22, <1>23, <1>24, <1>25 DEF IInv

-----------------------------------------------------------------------------
(* Every step keeps the invariant.                                         *)
LEMMA NextIInv == IInv /\ [Next]_vars => IInv'
<1> SUFFICES ASSUME IInv, [Next]_vars PROVE IInv'
  OBVIOUS
<1>1. CASE UNCHANGED vars
  BY <1>1 DEF vars, IInv, TypeOK, BootSlots, WorkInv, InboxInv, PidsUnique, CountRight, KernelAgrees,
     MemoryOwned, AnswersOwed, NoZombieAwaited, ParentAlive, Due, Idle, InUse, Live, Accepts, At, proc
<1>2. ASSUME NEW p \in User, Call(p) PROVE IInv'
  BY <1>2, CallKeeps
<1>3. CASE get_work
  BY <1>3, GetWorkKeeps
<1>4. CASE do_get \/ mm_no_sys \/ do_fork_refused
  BY <1>4, ReturnKeeps DEF do_get, mm_no_sys, do_fork_refused
<1>5. CASE do_exec
  BY <1>5, ExecKeeps
<1>6. CASE do_fork \/ sys_fork \/ sys_new_map
  BY <1>6, ForkKeeps, SysForkKeeps, NewMapKeeps
<1>7. CASE do_exit \/ mm_exit
  BY <1>7, DoExitKeeps, MmExitKeeps
<1>8. CASE mm_waitpid
  <2>1. At("call")
    BY <1>8 DEF mm_waitpid
  <2>2. PICK pid \in {ANY_CHILD} \cup PidsAsked : \/ waitpid_collect(pid) \/ waitpid_none(pid)
                                                  \/ waitpid_nohang(pid) \/ waitpid_block(pid)
    BY <1>8 DEF mm_waitpid
  <2>3. CASE waitpid_collect(pid)
    BY <2>1, <2>3, CollectKeeps
  <2>4. CASE waitpid_none(pid)
    BY <2>1, <2>4, ReturnKeeps DEF waitpid_none
  <2>5. CASE waitpid_nohang(pid)
    BY <2>1, <2>5, ReturnKeeps DEF waitpid_nohang
  <2>6. CASE waitpid_block(pid)
    BY <2>1, <2>6, BlockKeeps
  <2> QED
    BY <2>2, <2>3, <2>4, <2>5, <2>6
<1>9. CASE Reply
  BY <1>9, ReplyKeeps
<1> QED
  BY <1>1, <1>2, <1>3, <1>4, <1>5, <1>6, <1>7, <1>8, <1>9 DEF Next, mm_main

(* It holds in every state.                                                *)
LEMMA Invariance == Spec => []IInv
BY InitIInv, NextIInv, PTL DEF Spec

(* The fields of both tables hold values of their kinds, whatever fork,    *)
(* exit and wait do to them.                                               *)
THEOREM TablesWellFormed == Spec => []TypeOK
<1>1. IInv => TypeOK
  BY DEF IInv
<1> QED
  BY <1>1, Invariance, PTL

(* Two processes never have one number, the count of slots in use is       *)
(* right, and MM and the kernel agree on which processes there are, for    *)
(* any number of slots and numbers (do_fork, mm_exit, exit_cleanup).       *)
THEOREM TablesAlwaysAgree == Spec => []TablesAgree
<1>1. IInv => TablesAgree
  BY DEF IInv, TablesAgree, CountRight, KernelAgrees
<1> QED
  BY <1>1, Invariance, PTL

(* No block of memory is shared, lost or freed twice by fork and exit.     *)
THEOREM MemoryAlwaysOwned == Spec => []MemoryOwned
<1>1. IInv => MemoryOwned
  BY DEF IInv
<1> QED
  BY <1>1, Invariance, PTL

(* Answers are due to exactly the processes that wait for MM, so that its  *)
(* send never blocks (mm_main).                                            *)
THEOREM AnswersAlwaysOwed == Spec => []AnswersOwed
<1>1. IInv => AnswersOwed
  BY DEF IInv
<1> QED
  BY <1>1, Invariance, PTL

(* Nobody waits for a child that is dead already, and the parent of every  *)
(* process and zombie is alive (mm_exit, mm_waitpid).                      *)
THEOREM FamilyAlwaysKept == Spec => []FamilyKept
<1>1. IInv => FamilyKept
  BY DEF IInv, FamilyKept
<1> QED
  BY <1>1, Invariance, PTL

-----------------------------------------------------------------------------
(* A step that leaves every slot in use in use reports nothing wrongly.    *)
LEMMA NothingGivenUp ==
    ASSUME \A s \in Slot : proc[s].state # "free" => proc'[s].state # "free"
    PROVE  Reported
BY Params DEF Reported, InUse

(* Every step that gives a slot up answers the parent with its number.     *)
LEMMA NextReports == IInv /\ [Next]_vars => Reported
<1> SUFFICES ASSUME IInv, [Next]_vars PROVE Reported
  OBVIOUS
<1>1. mm \in Memory
  BY Types DEF IInv
<1>2. CASE UNCHANGED mm
  BY <1>2, NothingGivenUp DEF proc
<1>3. ASSUME NEW p \in Slot, NEW rs \in ReplyCode, mm' = set_reply(mm, p, rs) PROVE Reported
  <2>1. Answered(mm, p, rs, mm')
    BY <1>1, <1>3, SetReply
  <2> QED
    BY <2>1, NothingGivenUp DEF Answered, proc
<1>4. ASSUME At("call"), NEW rs \in {0, ERROR}, Return(rs) PROVE Reported
  <2>1. work.who \in Slot
    BY <1>4, Caller DEF At, Busy
  <2> QED
    BY <1>3, <1>4, <2>1, Types DEF Return, IInv
<1>5. CASE do_get \/ mm_no_sys \/ do_fork_refused \/ do_exec
  BY <1>2, <1>4, <1>5 DEF do_get, mm_no_sys, do_fork_refused, do_exec
<1>6. CASE do_fork
  <2>1. PICK c \in Slot : c = work.who
    BY <1>6, Caller DEF do_fork, At, Busy
  <2>2. PICK b, d, n : mm'.proc = [proc EXCEPT ![d] = [proc[c] EXCEPT
                             !.state = "live", !.pid = n, !.parent = c, !.map = b,
                             !.waiting = NOT_WAITING, !.reply = ERROR_NO_MESSAGE]]
    BY <1>6, <2>1 DEF do_fork
  <2>3. proc \in [Slot -> Entry] /\ proc[c] \in Entry
    BY <1>1 DEF Memory, proc
  <2>4. \A s \in Slot : proc'[s] = proc[s] \/ proc'[s].state = "live"
    BY ONLY <2>2, <2>3 DEF proc, Entry
  <2> QED
    BY <2>4, NothingGivenUp
<1>7. CASE sys_new_map
  <2>1. PICK c \in Slot, d \in Slot : c = work.who /\ d = work.child
    BY <1>7, Params DEF sys_new_map, IInv, WorkInv, At, Busy, Forking
  <2>2. 0 \in ReplyCode /\ proc[d].pid \in ReplyCode
    BY Types DEF IInv
  <2>3. mm' = set_reply(set_reply(mm, d, 0), c, proc[d].pid)
    BY <1>7, <2>1 DEF sys_new_map
  <2>4. PICK k : Answered(mm, d, 0, k) /\ Answered(k, c, proc[d].pid, mm')
    BY <1>1, <2>2, <2>3, TwoReplies
  <2> QED
    BY ONLY <2>4, NothingGivenUp DEF Answered, proc
<1>8. CASE mm_waitpid
  <2>1. At("call")
    BY <1>8 DEF mm_waitpid
  <2>2. PICK pid \in {ANY_CHILD} \cup PidsAsked : \/ waitpid_collect(pid) \/ waitpid_none(pid)
                                                  \/ waitpid_nohang(pid) \/ waitpid_block(pid)
    BY <1>8 DEF mm_waitpid
  <2>3. CASE waitpid_collect(pid)
    BY <2>1, <2>3, CollectKeeps
  <2>4. CASE waitpid_none(pid) \/ waitpid_nohang(pid)
    BY <1>4, <2>1, <2>4 DEF waitpid_none, waitpid_nohang
  <2>5. CASE waitpid_block(pid)
    <3>1. PICK c \in Slot : c = work.who
      BY <2>1, Caller DEF At, Busy
    <3>2. mm' = [mm EXCEPT !.proc[c].waiting = pid]
      BY <2>5, <3>1 DEF waitpid_block
    <3>3. \A s \in Slot : mm'.proc[s].state = mm.proc[s].state
      BY <1>1, <3>2 DEF Memory, Entry
    <3> QED
      BY <3>3, NothingGivenUp DEF proc
  <2> QED
    BY <2>2, <2>3, <2>4, <2>5
<1>9. CASE Reply
  <2>1. Min(Due) \in Slot
    <3>1. Due # {} /\ Due \in SUBSET Nat /\ Due \subseteq Slot
      BY <1>9, Params DEF Reply, IInv, WorkInv, Due
    <3> QED
      BY <3>1, MinIsIn
  <2>2. ERROR_NO_MESSAGE \in ReplyCode
    BY DEF ReplyCode
  <2> QED
    BY <1>3, <1>9, <2>1, <2>2 DEF Reply
<1>10. CASE get_work \/ sys_fork \/ do_exit \/ (\E p \in User : Call(p)) \/ UNCHANGED vars
  BY <1>2, <1>10 DEF get_work, sys_fork, do_exit, Call, vars
<1>11. CASE mm_exit
  BY <1>11, MmExitKeeps
<1> QED
  BY <1>5, <1>6, <1>7, <1>8, <1>9, <1>10, <1>11 DEF Next, mm_main

(* No death is collected unreported, and none in the place of another:     *)
(* whoever gives a slot up, in exit, in wait, or when ORIGIN adopts, has   *)
(* its number sent to the parent.                                          *)
THEOREM DeathsReported == Spec => EveryDeathReported
<1>1. IInv /\ [Next]_vars => [Reported]_vars
  BY NextReports
<1> QED
  BY <1>1, Invariance, PTL DEF Spec, EveryDeathReported
=============================================================================
