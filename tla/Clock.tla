------------------------------- MODULE Clock -------------------------------
(***************************************************************************)
(* The clock (kernel/clock.c): the handler that counts ticks, the task     *)
(* that keeps the time and the alarms, and the callers that wait in        *)
(* milli_delay.  Tasks are not preempted: the clock task does not run      *)
(* while another task spins in milli_delay.                                *)
(*                                                                         *)
(* The handler and the task share ticks, pending_ticks, next_alarm and     *)
(* milli_delay_alarm; the handler may come between any two of the task's   *)
(* accesses that are not under interrupt_lock.  The wake-up of the         *)
(* terminal task is in Terminal, what lock_schedule does in ReadyQueues.   *)
(***************************************************************************)
EXTENDS Integers, Sequences, FiniteSets, SequencesExt

CONSTANTS
    Proc,            \* the processes that set alarms, in the order of the table
    HZ,              \* ticks in a second
    SCHEDULE_TICKS,  \* ticks in a quantum
    Deltas,          \* bound: the ticks asked of an alarm, 0 cancels it
    Delays,          \* bound: the ticks asked of milli_delay
    Times,           \* bound: the times that SET_TIME sets
    MaxTicks,        \* bound: interrupts of the timer
    NoOne            \* in the place of a process

LONG_MAX == 2147483647   \* greater than every time

ASSUME ClockAssumption ==
    /\ Proc \in Seq(Range(Proc)) /\ NoOne \notin Range(Proc)
    /\ {HZ, SCHEDULE_TICKS} \subseteq Nat \ {0}
    /\ Deltas \subseteq Nat /\ Delays \subseteq Nat /\ Times \subseteq Nat
    /\ MaxTicks \in Nat /\ \A d \in Deltas : MaxTicks + d < LONG_MAX

VARIABLES
    elapsed,         \* the interrupts of the timer so far
    ticks, pending_ticks, boot_time,
    next_alarm, alarm, milli_delay_alarm,
    schedule_ticks, prev_proc,
    hard,            \* an interrupt message waits for the clock task
    task             \* where the clock task is, and what it has been asked

vars == <<elapsed, ticks, pending_ticks, boot_time, next_alarm, alarm,
          milli_delay_alarm, schedule_ticks, prev_proc, hard, task>>

Who == Range(Proc)

Request ==
    [kind : {"GET_UPTIME", "GET_TIME"}, proc : {NoOne}, arg : {0}]
    \cup [kind : {"SET_TIME"}, proc : {NoOne}, arg : Times]
    \cup [kind : {"SET_ALARM"}, proc : Who, arg : Deltas]

HardInt == [kind |-> "HARD_INT", proc |-> NoOne, arg |-> 0]

Waiting == [at |-> "receive", req |-> HardInt, todo |-> << >>, answer |-> 0]

Init ==
    /\ elapsed = 0 /\ ticks = 0 /\ pending_ticks = 0 /\ boot_time = 0
    /\ next_alarm = 0 /\ alarm = [p \in Who |-> 0] /\ milli_delay_alarm = 0
    /\ schedule_ticks = SCHEDULE_TICKS /\ prev_proc = NoOne
    /\ hard = FALSE
    /\ task = Waiting

now == ticks + pending_ticks

------------------------------------------------------------------------------
(* The end of clock_handler: the process that is billed and the length of  *)
(* the user list are what they happen to be.                               *)
quantum(bill_proc, ready) ==
    IF schedule_ticks - 1 = 0 /\ ready
    THEN schedule_ticks' = SCHEDULE_TICKS /\ prev_proc' = bill_proc
    ELSE schedule_ticks' = schedule_ticks - 1 /\ UNCHANGED prev_proc

clock_handler ==
    LET due   == next_alarm # 0 /\ next_alarm <= now + 1
        awake == milli_delay_alarm # 0 /\ milli_delay_alarm <= now + 1
    IN  /\ elapsed < MaxTicks
        /\ elapsed' = elapsed + 1
        /\ pending_ticks' = pending_ticks + 1
        /\ \/ /\ due
              /\ hard' = TRUE
              /\ UNCHANGED <<milli_delay_alarm, schedule_ticks, prev_proc>>
           \/ /\ ~ due
              /\ milli_delay_alarm' = IF awake THEN 0 ELSE milli_delay_alarm
              /\ \E bill_proc \in Who, ready \in BOOLEAN : quantum(bill_proc, ready)
              /\ UNCHANGED hard
        /\ UNCHANGED <<ticks, boot_time, next_alarm, alarm, task>>

(* A task spins until the handler clears milli_delay_alarm.                *)
Spinning == milli_delay_alarm # 0

milli_delay(delay) ==
    /\ task.at = "receive" /\ ~ Spinning
    /\ milli_delay_alarm' = ticks + delay
    /\ UNCHANGED <<elapsed, ticks, pending_ticks, boot_time, next_alarm, alarm,
                   schedule_ticks, prev_proc, hard, task>>

------------------------------------------------------------------------------
At(at) == task.at = at /\ ~ Spinning

Handled == UNCHANGED <<elapsed, milli_delay_alarm, schedule_ticks, prev_proc>>

clock_receive(req) ==
    /\ At("receive")
    /\ req = HardInt => hard
    /\ hard' = (hard /\ req # HardInt)
    /\ task' = [task EXCEPT !.at = "calibrate", !.req = req]
    /\ Handled /\ UNCHANGED <<ticks, pending_ticks, boot_time, next_alarm, alarm>>

(* A mutant that does not begin again with pending_ticks.                  *)
calibrateTwiceMutant ==
    /\ At("calibrate")
    /\ ticks' = ticks + pending_ticks
    /\ task' = [task EXCEPT !.at = "serve"]
    /\ Handled /\ UNCHANGED <<pending_ticks, boot_time, next_alarm, alarm, hard>>

(* Under interrupt_lock.                                                   *)
calibrate ==
    /\ At("calibrate")
    /\ ticks' = ticks + pending_ticks
    /\ pending_ticks' = 0
    /\ task' = [task EXCEPT !.at = "serve"]
    /\ Handled /\ UNCHANGED <<boot_time, next_alarm, alarm, hard>>

realtime == ticks \div HZ

Serve(kind) == At("serve") /\ task.req.kind = kind
Answer(value) == task' = [task EXCEPT !.at = "reply", !.answer = value]

do_get_uptime ==
    /\ Serve("GET_UPTIME") /\ Answer(ticks)
    /\ Handled /\ UNCHANGED <<ticks, pending_ticks, boot_time, next_alarm, alarm, hard>>

do_get_time ==
    /\ Serve("GET_TIME") /\ Answer(boot_time + realtime)
    /\ Handled /\ UNCHANGED <<ticks, pending_ticks, boot_time, next_alarm, alarm, hard>>

do_set_time ==
    /\ Serve("SET_TIME") /\ Answer(task.req.arg)
    /\ boot_time' = task.req.arg - realtime
    /\ Handled /\ UNCHANGED <<ticks, pending_ticks, next_alarm, alarm, hard>>

(* A mutant that does not look for the earliest alarm again.               *)
do_set_alarmSoonerMutant ==
    LET p == task.req.proc  d == task.req.arg  t == ticks + d IN
    /\ Serve("SET_ALARM")
    /\ alarm' = [alarm EXCEPT ![p] = IF d = 0 THEN 0 ELSE t]
    /\ next_alarm' = IF d # 0 /\ (next_alarm = 0 \/ t < next_alarm) THEN t ELSE next_alarm
    /\ Answer(0)
    /\ Handled /\ UNCHANGED <<ticks, pending_ticks, boot_time, hard>>

(* Division as in C.                                                       *)
Quot(a, b) == IF a >= 0 THEN a \div b ELSE - ((- a) \div b)

(* do_set_alarm, common_set_alarm: then the search for the next one.       *)
do_set_alarm ==
    LET p == task.req.proc  d == task.req.arg
        left == IF alarm[p] = 0 THEN 0 ELSE Quot(alarm[p] - ticks + (HZ - 1), HZ)
    IN  /\ Serve("SET_ALARM")
        /\ alarm' = [alarm EXCEPT ![p] = IF d = 0 THEN 0 ELSE ticks + d]
        /\ next_alarm' = LONG_MAX
        /\ task' = [task EXCEPT !.at = "search", !.todo = Proc, !.answer = left]
        /\ Handled /\ UNCHANGED <<ticks, pending_ticks, boot_time, hard>>

do_clock_int ==
    /\ Serve("HARD_INT")
    /\ \/ /\ next_alarm <= ticks
          /\ next_alarm' = LONG_MAX
          /\ task' = [task EXCEPT !.at = "search", !.todo = Proc]
       \/ /\ next_alarm > ticks
          /\ task' = Waiting /\ UNCHANGED next_alarm
    /\ Handled /\ UNCHANGED <<ticks, pending_ticks, boot_time, alarm, hard>>

(* A mutant that rings whatever is set.                                    *)
DueEarlyMutant(p) == task.req = HardInt /\ alarm[p] # 0

Due(p) == task.req = HardInt /\ alarm[p] # 0 /\ alarm[p] <= ticks

(* One turn of the loop over the process table, of do_clock_int and of     *)
(* common_set_alarm: an alarm rings, or may be the earliest.  What is      *)
(* called when it rings is the task's own; a user process gets no signal.  *)
search ==
    LET p == Head(task.todo) IN
    /\ At("search") /\ task.todo # << >>
    /\ task' = [task EXCEPT !.todo = Tail(@)]
    /\ \/ /\ Due(p)
          /\ alarm' = [alarm EXCEPT ![p] = 0]
          /\ UNCHANGED next_alarm
       \/ /\ ~ Due(p)
          /\ next_alarm' = IF alarm[p] # 0 /\ alarm[p] < next_alarm THEN alarm[p] ELSE next_alarm
          /\ UNCHANGED alarm
    /\ Handled /\ UNCHANGED <<ticks, pending_ticks, boot_time, hard>>

searched ==
    /\ At("search") /\ task.todo = << >>
    /\ task' = IF task.req = HardInt THEN Waiting ELSE [task EXCEPT !.at = "reply"]
    /\ Handled /\ UNCHANGED <<ticks, pending_ticks, boot_time, next_alarm, alarm, hard>>

clock_reply ==
    /\ At("reply")
    /\ task' = Waiting
    /\ Handled /\ UNCHANGED <<ticks, pending_ticks, boot_time, next_alarm, alarm, hard>>

Next ==
    \/ clock_handler
    \/ \E delay \in Delays : milli_delay(delay)
    \/ \E req \in Request \cup {HardInt} : clock_receive(req)
    \/ calibrate
    \/ do_get_uptime \/ do_get_time \/ do_set_time \/ do_set_alarm \/ do_clock_int
    \/ search \/ searched
    \/ clock_reply

Spec == Init /\ [][Next]_vars

------------------------------------------------------------------------------
(* Every field holds a value of its kind.                                *)
TypeOK ==
    /\ {elapsed, ticks, pending_ticks} \subseteq 0 .. MaxTicks
    /\ boot_time \in Int /\ next_alarm \in Nat
    /\ alarm \in [Who -> Nat]
    /\ milli_delay_alarm \in Nat
    /\ schedule_ticks \in Int /\ prev_proc \in Who \cup {NoOne}
    /\ hard \in BOOLEAN
    /\ task \in [at : {"receive", "calibrate", "serve", "search", "reply"},
                req : Request \cup {HardInt}, todo : Seq(Who), answer : Int]

(* No tick is lost or counted twice between the handler and the task.      *)
TimeKept == TypeOK /\ ticks + pending_ticks = elapsed

(* Whenever the task waits, next_alarm is the earliest alarm: the handler, *)
(* which wakes the task by it alone, cannot sleep through one.             *)
NextAlarmIsEarliest ==
    task.at = "receive" =>
        \A p \in Who : alarm[p] # 0 =>
            /\ next_alarm # 0 /\ next_alarm <= alarm[p]
            /\ \E q \in Who : next_alarm = alarm[q]

(* An alarm that nobody cancels or sets anew does not ring before its      *)
(* time, and a tick that finds it due while the task waits wakes the task. *)
AlarmsInTime ==
    [][\A p \in Who : alarm[p] # 0 =>
          /\ alarm'[p] = 0 /\ task.req = HardInt => alarm[p] <= elapsed
          /\ elapsed' > elapsed /\ task.at = "receive" /\ alarm[p] <= elapsed' => hard']_vars

(* Who spins in milli_delay is let go by the first tick after its time.    *)
DelayEnds == milli_delay_alarm # 0 => now <= milli_delay_alarm
=============================================================================
