---------------------------- MODULE ReadyQueues ----------------------------
(***************************************************************************)
(* The ready queues of the kernel (src/kernel/process.c) as operators on a *)
(* record                                                                  *)
(*     rq.queue  ready_head and the next_ready links, one list per class   *)
(*     rq.tail   ready_tail, a pointer the code maintains on its own       *)
(*     rq.curr   curr_proc                                                 *)
(* A list is the sequence of the processes reached from ready_head.  The   *)
(* tail pointer is kept beside it, because ready() of a user process and   *)
(* schedule() do not leave it at the last element.                         *)
(***************************************************************************)
EXTENDS Integers, Sequences, SequencesExt

CONSTANTS IDLE,   \* proc_addr(IDLE_TASK)
          NIL     \* NIL_PROC

Classes == {"task", "server", "user"}

Queued(rq, k, p) == p \in ToSet(rq.queue[k])

Position(q, p) == CHOOSE i \in DOMAIN q : q[i] = p

(***************************************************************************)
(* t->next_ready = p; p->next_ready = NIL_PROC: the list now ends with p   *)
(* behind t, and whatever followed t is cut off.  A t that is not on the   *)
(* list (a stale or a NIL tail) leaves the list alone.                     *)
(***************************************************************************)
LinkBehind(q, t, p) ==
    IF t \in ToSet(q)
    THEN Append(SubSeq(q, 1, Position(q, t)), p)
    ELSE q

(* Mutant of Hunter: without a process to pick it leaves no process at all. *)
HunterNoIdle(rq) ==
    LET k == CHOOSE c \in Classes : rq.queue[c] # <<>>
    IN  [rq EXCEPT !.curr = IF \A c \in Classes : rq.queue[c] = <<>> THEN NIL
                            ELSE Head(rq.queue[k])]

(* Pick the head of the highest non-empty class.  (bill_proc, which hunter *)
(* sets too, is accounting and is left out.)                               *)
Hunter(rq) ==
    CASE rq.queue["task"] # <<>> ->
            [rq EXCEPT !.curr = Head(rq.queue["task"])]
      [] rq.queue["task"] = <<>> /\ rq.queue["server"] # <<>> ->
            [rq EXCEPT !.curr = Head(rq.queue["server"])]
      [] rq.queue["task"] = <<>> /\ rq.queue["server"] = <<>> /\ rq.queue["user"] # <<>> ->
            [rq EXCEPT !.curr = Head(rq.queue["user"])]
      [] OTHER -> [rq EXCEPT !.curr = IDLE]

(* Mutants of ReadySystem: the tail is not set with the first element; the  *)
(* CPU is not taken when the list was empty.                               *)
ReadySystemNoTail(rq, k, p) ==
    IF rq.queue[k] = <<>>
    THEN [rq EXCEPT !.queue[k] = <<p>>, !.curr = p]
    ELSE [rq EXCEPT !.queue[k] = LinkBehind(@, rq.tail[k], p), !.tail[k] = p]

ReadySystemNoCpu(rq, k, p) ==
    IF rq.queue[k] = <<>>
    THEN [rq EXCEPT !.queue[k] = <<p>>, !.tail[k] = p]
    ELSE [rq EXCEPT !.queue[k] = LinkBehind(@, rq.tail[k], p), !.tail[k] = p]

(* A task or a server goes to the tail of its list, and takes the CPU when *)
(* that list was empty, whatever was running.                              *)
ReadySystem(rq, k, p) ==
    IF rq.queue[k] = <<>>
    THEN [rq EXCEPT !.queue[k] = <<p>>, !.tail[k] = p, !.curr = p]
    ELSE [rq EXCEPT !.queue[k] = LinkBehind(@, rq.tail[k], p), !.tail[k] = p]

(* A user process goes to the head of its list; the tail pointer is set    *)
(* only when the list was NOT empty.                                       *)
ReadyUser(rq, p) ==
    [rq EXCEPT !.queue["user"] = <<p>> \o @,
               !.tail["user"] = IF rq.queue["user"] # <<>> THEN p ELSE @]

Ready(rq, k, p) == IF k = "user" THEN ReadyUser(rq, p) ELSE ReadySystem(rq, k, p)

(***************************************************************************)
(* unready(): the head of a list is popped and a new process is hunted     *)
(* (for a task only when it is the running one); any other element is      *)
(* unlinked and the tail pointer moves back when it named that element.    *)
(***************************************************************************)
Unready(rq, k, p) ==
    LET q      == rq.queue[k]
        popped == [rq EXCEPT !.queue[k] = Tail(@)]
        i      == Position(q, p)
    IN  CASE ~ Queued(rq, k, p) -> rq
          [] Queued(rq, k, p) /\ Head(q) = p ->
                IF k = "task" /\ p # rq.curr THEN popped ELSE Hunter(popped)
          [] OTHER -> [rq EXCEPT !.queue[k] = RemoveAt(q, i),
                                 !.tail[k] = IF @ = p THEN q[i - 1] ELSE @]

(***************************************************************************)
(* schedule(): meant to move the head of the user list to its end.  It     *)
(* links the head behind ready_tail, takes the second element as the new   *)
(* head, and hunts.  The head survives only behind a tail pointer that     *)
(* names a later element of the list.                                      *)
(***************************************************************************)
Schedule(rq) ==
    LET q == rq.queue["user"]
        h == Head(q)
        rest == LinkBehind(Tail(q), rq.tail["user"], h)
    IN  IF q = <<>> THEN rq
        ELSE Hunter([rq EXCEPT !.queue["user"] = rest, !.tail["user"] = h])
=============================================================================
