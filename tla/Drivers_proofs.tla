--------------------------- MODULE Drivers_proofs ---------------------------
(***************************************************************************)
(* Two of the kernel's drivers, for any constants.                         *)
(*                                                                         *)
(* The clock keeps time, knows its next alarm and rings in time, for any   *)
(* process table, any requests and any number of ticks.  The inductive     *)
(* invariant says what next_alarm is while the task searches the table:    *)
(* not later than any alarm it has already looked at, and the alarm of     *)
(* somebody who is not about to be rung, if it is one at all.              *)
(*                                                                         *)
(* The console keeps its screens in their places, for any video memory and *)
(* any screen, and whatever is written, and its first console is the       *)
(* terminal that Screen describes.                                         *)
(***************************************************************************)
EXTENDS Clock, Console, FiniteSetTheorems, WellFoundedInduction, TLAPS
------------------------------------------------------------------------------
(* The clock                                                               *)

(* Every alarm is a time that a long can hold.                             *)
AlarmsFit == \A p \in Who : alarm[p] < LONG_MAX

Earliest(S) ==
    \A p \in S : alarm[p] # 0 =>
        /\ next_alarm # 0 /\ next_alarm <= alarm[p]
        /\ \E q \in Who : next_alarm = alarm[q]

(* The loop over the table has come as far as task.todo.                   *)
SearchRight ==
    /\ next_alarm # 0
    /\ \A p \in Who \ Range(task.todo) : alarm[p] # 0 => next_alarm <= alarm[p]
    /\ next_alarm # LONG_MAX => \E q \in Who : alarm[q] # 0 /\ next_alarm = alarm[q] /\ ~ Due(q)

NextAlarmInv ==
    IF task.at = "search" THEN SearchRight ELSE Earliest(Who)

IInv == TimeKept /\ AlarmsFit /\ NextAlarmInv

-----------------------------------------------------------------------------
(* Division as C does it gives an integer.                                 *)
LEMMA QuotIsInt ==
    ASSUME NEW a \in Int, NEW b \in Nat \ {0}
    PROVE  Quot(a, b) \in Int
BY DEF Quot

(* What the assumption says of each parameter.                             *)
LEMMA Params ==
    /\ MaxTicks \in Nat /\ HZ \in Nat \ {0} /\ SCHEDULE_TICKS \in Nat \ {0}
    /\ \A d \in Deltas : d \in Nat /\ MaxTicks + d < LONG_MAX
    /\ \A d \in Delays : d \in Nat
    /\ \A t \in Times : t \in Nat
BY ClockAssumption

(* The table of processes is a sequence of them.                           *)
LEMMA ProcIsSeq == Proc \in Seq(Who)
BY ClockAssumption DEF Who

(* A request is one of the four kinds.                                     *)
LEMMA Requests ==
    ASSUME NEW r \in Request
    PROVE  /\ r # HardInt /\ r.kind \in {"GET_UPTIME", "GET_TIME", "SET_TIME", "SET_ALARM"}
           /\ r.kind = "SET_TIME" => r.arg \in Times
           /\ r.kind = "SET_ALARM" => r.proc \in Who /\ r.arg \in Deltas
BY DEF Request, HardInt

(* LONG_MAX is a number, and no sign that nothing is set.                  *)
LEMMA LongMax == LONG_MAX \in Nat \ {0}
BY SMT DEF LONG_MAX

(* What the type invariant says of the numbers.                            *)
LEMMA Numbers ==
    ASSUME TypeOK
    PROVE  /\ elapsed \in 0 .. MaxTicks /\ ticks \in 0 .. MaxTicks /\ pending_ticks \in 0 .. MaxTicks
           /\ elapsed \in Nat /\ ticks \in Nat /\ pending_ticks \in Nat
           /\ next_alarm \in Nat /\ milli_delay_alarm \in Nat
BY Params DEF TypeOK

(* The first state: no alarm is set, and the task waits.                   *)
LEMMA InitIInv == Init => IInv
<1> SUFFICES ASSUME Init PROVE IInv
  OBVIOUS
<1> USE ClockAssumption, LongMax DEF Init
<1>1. task \in [at : {"receive", "calibrate", "serve", "search", "reply"},
                req : Request \cup {HardInt}, todo : Seq(Who), answer : Int]
  <2>1. << >> \in Seq(Who)
    OBVIOUS
  <2> QED
    BY <2>1 DEF Waiting
<1>2. TypeOK
  <2>1. {elapsed, ticks, pending_ticks} \subseteq 0 .. MaxTicks
    BY Params
  <2>2. alarm \in [Who -> Nat]
    OBVIOUS
  <2>3. schedule_ticks \in Int /\ prev_proc \in Who \cup {NoOne}
    BY Params
  <2>4. hard \in BOOLEAN
    OBVIOUS
  <2> QED
    BY <1>1, <2>1, <2>2, <2>3, <2>4 DEF TypeOK
<1>3. task.at = "receive" /\ \A p \in Who : alarm[p] = 0
  BY DEF Waiting
<1>4. AlarmsFit
  BY <1>3, LongMax DEF AlarmsFit
<1>5. NextAlarmInv
  BY <1>3 DEF NextAlarmInv, Earliest
<1> QED
  BY <1>2, <1>4, <1>5 DEF IInv, TimeKept

(* What the steps of the clock that touch no alarm leave as it was.        *)
LEMMA SameAlarms ==
    ASSUME NextAlarmInv, AlarmsFit, task.at # "search", task'.at # "search",
           UNCHANGED <<next_alarm, alarm>>
    PROVE  NextAlarmInv' /\ AlarmsFit'
BY DEF NextAlarmInv, AlarmsFit, Earliest

(* A tick moves neither an alarm nor next_alarm.                           *)
LEMMA HandlerKeeps == IInv /\ clock_handler => IInv'
<1> SUFFICES ASSUME IInv, clock_handler PROVE IInv'
  OBVIOUS
<1> USE DEF IInv, clock_handler, now
<1>1. elapsed' \in 0 .. MaxTicks /\ ticks' \in 0 .. MaxTicks /\ pending_ticks' \in 0 .. MaxTicks
      /\ ticks' + pending_ticks' = elapsed'
  BY Params, Numbers DEF TimeKept
<1>2. milli_delay_alarm' \in Nat
  BY Numbers DEF TimeKept
<1>8. hard' \in BOOLEAN
  BY DEF TimeKept, TypeOK
<1>3. schedule_ticks' \in Int /\ prev_proc' \in Who \cup {NoOne}
  BY Params DEF TimeKept, TypeOK, quantum
<1>4. TimeKept'
  BY <1>1, <1>2, <1>3, <1>8 DEF TimeKept, TypeOK
<1>5. AlarmsFit'
  BY DEF AlarmsFit
<1>6. NextAlarmInv'
  BY DEF NextAlarmInv, SearchRight, Earliest, Due
<1> QED
  BY <1>4, <1>5, <1>6

(* A task that begins to wait in milli_delay.                              *)
LEMMA DelayKeeps == ASSUME NEW delay \in Delays PROVE IInv /\ milli_delay(delay) => IInv'
<1> SUFFICES ASSUME IInv, milli_delay(delay) PROVE IInv'
  OBVIOUS
<1>1. TimeKept'
  BY Params DEF IInv, TimeKept, TypeOK, milli_delay
<1>2. NextAlarmInv' /\ AlarmsFit'
  BY SameAlarms DEF IInv, milli_delay
<1> QED
  BY <1>1, <1>2 DEF IInv

(* The task takes a request, or the message of the handler.                *)
LEMMA ReceiveKeeps ==
    ASSUME NEW req \in Request \cup {HardInt} PROVE IInv /\ clock_receive(req) => IInv'
<1> SUFFICES ASSUME IInv, clock_receive(req) PROVE IInv'
  OBVIOUS
<1> USE DEF IInv, clock_receive, At, Handled
<1>1. TimeKept'
  BY DEF TimeKept, TypeOK
<1>2. NextAlarmInv' /\ AlarmsFit'
  BY SameAlarms DEF TimeKept, TypeOK
<1> QED
  BY <1>1, <1>2

(* The ticks of the handler become ticks of the task.                      *)
LEMMA CalibrateKeeps == IInv /\ calibrate => IInv'
<1> SUFFICES ASSUME IInv, calibrate PROVE IInv'
  OBVIOUS
<1> USE DEF IInv, calibrate, At, Handled
<1>1. TimeKept'
  <2>1. ticks' \in 0 .. MaxTicks /\ pending_ticks' \in 0 .. MaxTicks /\ ticks' + pending_ticks' = elapsed'
    BY Params DEF TimeKept, TypeOK
  <2> QED
    BY <2>1 DEF TimeKept, TypeOK
<1>2. NextAlarmInv' /\ AlarmsFit'
  BY SameAlarms DEF TimeKept, TypeOK
<1> QED
  BY <1>1, <1>2

(* The requests about the time of day.                                     *)
LEMMA TimeCallsKeep == IInv /\ (do_get_uptime \/ do_get_time \/ do_set_time) => IInv'
<1> SUFFICES ASSUME IInv, do_get_uptime \/ do_get_time \/ do_set_time PROVE IInv'
  OBVIOUS
<1> USE DEF IInv, Serve, At, Answer, Handled
<1>1. realtime \in Int /\ ticks \in Int
  BY Params DEF TimeKept, TypeOK, realtime
<1>2. task.req.kind = "SET_TIME" => task.req.arg \in Nat
  BY Requests, Params DEF TimeKept, TypeOK, HardInt
<1>3. \E a \in Int : task' = [task EXCEPT !.at = "reply", !.answer = a]
  <2>1. CASE do_get_uptime
    BY <1>1, <2>1 DEF do_get_uptime
  <2>2. CASE do_get_time
    <3>1. boot_time + realtime \in Int
      BY <1>1 DEF TimeKept, TypeOK
    <3> QED
      BY <2>2, <3>1 DEF do_get_time
  <2>3. CASE do_set_time
    <3>1. task.req.arg \in Int /\ task' = [task EXCEPT !.at = "reply", !.answer = task.req.arg]
      BY <1>2, <2>3 DEF do_set_time
    <3> QED
      BY <3>1
  <2> QED
    BY <2>1, <2>2, <2>3
<1>4. boot_time' \in Int
  BY <1>1, <1>2 DEF TimeKept, TypeOK, do_get_uptime, do_get_time, do_set_time
<1>5. TimeKept'
  BY <1>3, <1>4 DEF TimeKept, TypeOK, do_get_uptime, do_get_time, do_set_time
<1>6. task.at # "search" /\ task'.at # "search"
  BY <1>3 DEF TimeKept, TypeOK, do_get_uptime, do_get_time, do_set_time
<1>7. NextAlarmInv' /\ AlarmsFit'
  BY <1>6, SameAlarms DEF do_get_uptime, do_get_time, do_set_time
<1> QED
  BY <1>5, <1>7

(* A search begins with LONG_MAX, which is no alarm, and with the table.   *)
LEMMA SearchBegins ==
    ASSUME AlarmsFit', task'.at = "search", task'.todo = Proc, next_alarm' = LONG_MAX
    PROVE  NextAlarmInv'
BY LongMax DEF NextAlarmInv, SearchRight, Who

(* An alarm is set or cancelled, and a search begins.                      *)
LEMMA SetAlarmKeeps == IInv /\ do_set_alarm => IInv'
<1> SUFFICES ASSUME IInv, do_set_alarm PROVE IInv'
  OBVIOUS
<1> DEFINE p == task.req.proc
           d == task.req.arg
           left == IF alarm[p] = 0 THEN 0 ELSE Quot(alarm[p] - ticks + (HZ - 1), HZ)
<1> USE DEF IInv, Serve, At, Handled
<1>1. p \in Who /\ d \in Deltas
  BY Requests DEF do_set_alarm, TimeKept, TypeOK, HardInt
<1>2. d \in Nat /\ ticks + d < LONG_MAX /\ ticks \in Nat
  BY <1>1, Params, LongMax DEF TimeKept, TypeOK
<1>3. alarm' = [alarm EXCEPT ![p] = IF d = 0 THEN 0 ELSE ticks + d]
  BY DEF do_set_alarm
<1>4. alarm' \in [Who -> Nat] /\ AlarmsFit'
  BY <1>1, <1>2, <1>3, LongMax DEF AlarmsFit, TimeKept, TypeOK
<1>5. left \in Int
  <2>1. alarm[p] \in Nat /\ ticks \in Nat /\ HZ \in Nat \ {0}
    BY <1>1, Params DEF TimeKept, TypeOK
  <2>2. alarm[p] - ticks + (HZ - 1) \in Int
    BY <2>1
  <2> QED
    BY <2>1, <2>2, QuotIsInt
<1>6. task' = [task EXCEPT !.at = "search", !.todo = Proc, !.answer = left]
  BY DEF do_set_alarm
<1>7. TimeKept'
  BY <1>4, <1>5, <1>6, ProcIsSeq, LongMax DEF do_set_alarm, TimeKept, TypeOK
<1>8. NextAlarmInv'
  BY <1>4, <1>6, SearchBegins DEF do_set_alarm, TimeKept, TypeOK
<1> QED
  BY <1>4, <1>7, <1>8

(* The message of the handler: a search begins if an alarm is due.         *)
LEMMA ClockIntKeeps == IInv /\ do_clock_int => IInv'
<1> SUFFICES ASSUME IInv, do_clock_int PROVE IInv'
  OBVIOUS
<1> USE DEF IInv, Serve, At, Handled, do_clock_int
<1>1. AlarmsFit'
  BY DEF AlarmsFit
<1>2. CASE next_alarm' = LONG_MAX /\ task' = [task EXCEPT !.at = "search", !.todo = Proc]
  <2>1. TimeKept'
    BY <1>2, ProcIsSeq, LongMax DEF TimeKept, TypeOK
  <2>2. NextAlarmInv'
    BY <1>1, <1>2, SearchBegins DEF TimeKept, TypeOK
  <2> QED
    BY <1>1, <2>1, <2>2
<1>3. CASE task' = Waiting /\ UNCHANGED next_alarm
  <2>1. task' \in [at : {"receive", "calibrate", "serve", "search", "reply"},
                   req : Request \cup {HardInt}, todo : Seq(Who), answer : Int]
    <3>1. << >> \in Seq(Who)
      OBVIOUS
    <3> QED
      BY <1>3, <3>1 DEF Waiting
  <2>2. TimeKept'
    BY <1>3, <2>1 DEF TimeKept, TypeOK
  <2>3. NextAlarmInv' /\ AlarmsFit'
    BY <1>3, SameAlarms DEF Waiting
  <2> QED
    BY <2>2, <2>3
<1> QED
  BY <1>2, <1>3

(* One turn of the search.  The table is seen as the part that is done and *)
(* the part to come, of which the turn takes the head.                     *)
LEMMA SearchTurn ==
    ASSUME NEW S, NEW q \in Seq(S), q # << >>
    PROVE  /\ Head(q) \in S /\ Tail(q) \in Seq(S)
           /\ Range(q) \subseteq Range(Tail(q)) \cup {Head(q)}
<1>1. Head(q) \in S /\ Tail(q) \in Seq(S)
  OBVIOUS
<1>2. ASSUME NEW i \in DOMAIN q, i # 1 PROVE q[i] \in Range(Tail(q))
  <2>1. i \in 2 .. Len(q) /\ Len(Tail(q)) = Len(q) - 1 /\ Len(q) \in Nat
    BY <1>2
  <2>2. i - 1 \in DOMAIN Tail(q) /\ Tail(q)[i - 1] = q[i]
    BY <1>1, <2>1
  <2> QED
    BY <2>2 DEF Range
<1>3. q[1] = Head(q)
  OBVIOUS
<1> QED
  BY <1>1, <1>2, <1>3 DEF Range

(* The table is one process further: its alarm rings, or may be the next.  *)
LEMMA SearchKeeps == IInv /\ search => IInv'
<1> SUFFICES ASSUME IInv, search PROVE IInv'
  OBVIOUS
<1> DEFINE p == Head(task.todo)
<1> USE DEF IInv, At, Handled
<1>1. task.at = "search" /\ task.todo \in Seq(Who) /\ task.todo # << >> /\ SearchRight
  BY DEF search, TimeKept, TypeOK, NextAlarmInv
<1>2. p \in Who /\ Tail(task.todo) \in Seq(Who)
      /\ Range(task.todo) \subseteq Range(Tail(task.todo)) \cup {p}
  BY <1>1, SearchTurn
<1>3. task' = [task EXCEPT !.todo = Tail(task.todo)]
  BY DEF search
<1>4. task'.at = "search" /\ task'.todo = Tail(task.todo) /\ task'.req = task.req /\ ticks' = ticks
  BY <1>1, <1>3 DEF TimeKept, TypeOK, search
<1>5. task' \in [at : {"receive", "calibrate", "serve", "search", "reply"},
                 req : Request \cup {HardInt}, todo : Seq(Who), answer : Int]
  BY <1>2, <1>3 DEF TimeKept, TypeOK
<1>6. /\ alarm \in [Who -> Nat] /\ next_alarm \in Nat /\ ticks \in Nat
      /\ next_alarm # 0 /\ AlarmsFit
  BY <1>1, Numbers DEF TimeKept, TypeOK, SearchRight
<1>7. CASE Due(p) /\ alarm' = [alarm EXCEPT ![p] = 0] /\ UNCHANGED next_alarm
  <2>1. alarm' \in [Who -> Nat] /\ AlarmsFit'
    BY <1>2, <1>6, <1>7, LongMax DEF AlarmsFit
  <2>2. TimeKept'
    BY <1>5, <1>7, <2>1 DEF search, TimeKept, TypeOK
  <2>3. \A r \in Who \ Range(Tail(task.todo)) : alarm'[r] # 0 => next_alarm <= alarm'[r]
    BY <1>1, <1>2, <1>6, <1>7 DEF SearchRight
  <2>4. ASSUME next_alarm # LONG_MAX
        PROVE  \E q \in Who : alarm'[q] # 0 /\ next_alarm = alarm'[q] /\ ~ Due(q)'
    <3>1. PICK q \in Who : alarm[q] # 0 /\ next_alarm = alarm[q] /\ ~ Due(q)
      BY <1>1, <2>4 DEF SearchRight
    <3>2. q # p
      BY <3>1, <1>7
    <3> QED
      BY <1>4, <1>6, <1>7, <3>1, <3>2 DEF Due
  <2>5. SearchRight'
    BY <1>4, <1>6, <1>7, <2>3, <2>4 DEF SearchRight
  <2> QED
    BY <1>4, <2>1, <2>2, <2>5 DEF NextAlarmInv
<1>8. CASE /\ ~ Due(p)
           /\ next_alarm' = IF alarm[p] # 0 /\ alarm[p] < next_alarm THEN alarm[p] ELSE next_alarm
           /\ UNCHANGED alarm
  <2>1. next_alarm' \in Nat /\ next_alarm' # 0 /\ next_alarm' <= next_alarm
        /\ (alarm[p] # 0 => next_alarm' <= alarm[p])
    BY <1>2, <1>6, <1>8
  <2>2. TimeKept'
    BY <1>5, <1>8, <2>1 DEF search, TimeKept, TypeOK
  <2>3. \A r \in Who \ Range(Tail(task.todo)) : alarm[r] # 0 => next_alarm' <= alarm[r]
    <3> SUFFICES ASSUME NEW r \in Who \ Range(Tail(task.todo)), alarm[r] # 0
                 PROVE  next_alarm' <= alarm[r]
      OBVIOUS
    <3>1. CASE r = p
      BY <2>1, <3>1
    <3>2. CASE r # p
      <4>1. next_alarm <= alarm[r] /\ alarm[r] \in Nat
        BY <1>1, <1>2, <1>6, <3>2 DEF SearchRight
      <4> QED
        BY <1>6, <2>1, <4>1
    <3> QED
      BY <3>1, <3>2
  <2>4. ASSUME next_alarm' # LONG_MAX
        PROVE  \E q \in Who : alarm[q] # 0 /\ next_alarm' = alarm[q] /\ ~ Due(q)
    BY <1>1, <1>2, <1>6, <1>8, <2>4 DEF SearchRight
  <2>5. \A q \in Who : Due(q)' = Due(q)
    BY <1>4, <1>8 DEF Due
  <2>6. SearchRight'
    BY <1>4, <1>8, <2>1, <2>3, <2>4, <2>5 DEF SearchRight
  <2> QED
    BY <1>4, <1>6, <1>8, <2>2, <2>6 DEF NextAlarmInv, AlarmsFit
<1> QED
  BY <1>7, <1>8 DEF search

(* The end of the search: everybody has been looked at, and an alarm that  *)
(* is set is earlier than LONG_MAX, so that next_alarm is somebody's.      *)
LEMMA SearchedKeeps == IInv /\ searched => IInv'
<1> SUFFICES ASSUME IInv, searched PROVE IInv'
  OBVIOUS
<1> USE DEF IInv, At, Handled, searched
<1>1. task.at = "search" /\ task.todo = << >> /\ SearchRight
  BY DEF NextAlarmInv
<1>2. Range(task.todo) = {}
  BY <1>1 DEF Range
<1>3. alarm \in [Who -> Nat] /\ next_alarm \in Nat
  BY Numbers DEF TimeKept, TypeOK
<1>4. Earliest(Who)
  <2> SUFFICES ASSUME NEW r \in Who, alarm[r] # 0
               PROVE  /\ next_alarm # 0 /\ next_alarm <= alarm[r]
                      /\ \E q \in Who : next_alarm = alarm[q]
    BY DEF Earliest
  <2>1. next_alarm # 0 /\ next_alarm <= alarm[r]
    BY <1>1, <1>2 DEF SearchRight
  <2>2. next_alarm # LONG_MAX
    BY <1>3, <2>1, LongMax DEF AlarmsFit
  <2> QED
    BY <1>1, <2>1, <2>2 DEF SearchRight
<1>5. task' \in [at : {"receive", "calibrate", "serve", "search", "reply"},
                 req : Request \cup {HardInt}, todo : Seq(Who), answer : Int]
      /\ task'.at # "search"
  <2>1. << >> \in Seq(Who)
    OBVIOUS
  <2> QED
    BY <2>1, SMTT(40) DEF Waiting, TimeKept, TypeOK
<1>6. TimeKept'
  BY <1>5 DEF TimeKept, TypeOK
<1>7. NextAlarmInv' /\ AlarmsFit'
  BY <1>4, <1>5 DEF NextAlarmInv, AlarmsFit, Earliest
<1> QED
  BY <1>6, <1>7

(* The task answers, and waits.                                            *)
LEMMA ReplyKeeps == IInv /\ clock_reply => IInv'
<1> SUFFICES ASSUME IInv, clock_reply PROVE IInv'
  OBVIOUS
<1> USE DEF IInv, At, Handled, clock_reply
<1>1. task' \in [at : {"receive", "calibrate", "serve", "search", "reply"},
                 req : Request \cup {HardInt}, todo : Seq(Who), answer : Int]
      /\ task'.at # "search"
  <2>1. << >> \in Seq(Who)
    OBVIOUS
  <2> QED
    BY <2>1 DEF Waiting
<1>2. TimeKept'
  BY <1>1 DEF TimeKept, TypeOK
<1>3. NextAlarmInv' /\ AlarmsFit'
  BY <1>1, SameAlarms
<1> QED
  BY <1>2, <1>3

-----------------------------------------------------------------------------
(* The invariant is inductive.                                             *)
LEMMA NextIInv == IInv /\ [Next]_vars => IInv'
<1> SUFFICES ASSUME IInv, [Next]_vars PROVE IInv'
  OBVIOUS
<1>1. CASE clock_handler
  BY <1>1, HandlerKeeps
<1>2. CASE \E delay \in Delays : milli_delay(delay)
  BY <1>2, DelayKeeps
<1>3. CASE \E req \in Request \cup {HardInt} : clock_receive(req)
  BY <1>3, ReceiveKeeps
<1>4. CASE calibrate
  BY <1>4, CalibrateKeeps
<1>5. CASE do_get_uptime \/ do_get_time \/ do_set_time
  BY <1>5, TimeCallsKeep
<1>6. CASE do_set_alarm
  BY <1>6, SetAlarmKeeps
<1>7. CASE do_clock_int
  BY <1>7, ClockIntKeeps
<1>8. CASE search
  BY <1>8, SearchKeeps
<1>9. CASE searched
  BY <1>9, SearchedKeeps
<1>10. CASE clock_reply
  BY <1>10, ReplyKeeps
<1>11. CASE UNCHANGED vars
  BY <1>11 DEF vars, IInv, TimeKept, TypeOK, AlarmsFit, NextAlarmInv, SearchRight, Earliest, Due
<1> QED
  BY <1>1, <1>2, <1>3, <1>4, <1>5, <1>6, <1>7, <1>8, <1>9, <1>10, <1>11 DEF Next

(* The invariant holds in every state.                                     *)
LEMMA Invariance == Spec => []IInv
<1> QED
  BY InitIInv, NextIInv, PTL DEF Spec

(* No tick is lost or counted twice between clock_handler and the task's   *)
(* calibration.                                                            *)
THEOREM TimeIsKept == Spec => []TimeKept
<1>1. IInv => TimeKept
  BY DEF IInv
<1> QED
  BY <1>1, Invariance, PTL

(* Whenever the clock task waits, next_alarm is the earliest alarm that is *)
(* set: clock_handler, which looks at nothing else, misses none.           *)
THEOREM EarliestAlarmIsNext == Spec => []NextAlarmIsEarliest
<1>1. IInv => NextAlarmIsEarliest
  BY DEF IInv, NextAlarmInv, Earliest, NextAlarmIsEarliest
<1> QED
  BY <1>1, Invariance, PTL

(* An alarm rings only in a turn of the search that finds it due.          *)
LEMMA OnlySearchRings ==
    ASSUME IInv, Next, task.req = HardInt, NEW p \in Who, alarm[p] # 0, alarm'[p] = 0
    PROVE  alarm[p] <= ticks
<1>1. alarm' # alarm
  OBVIOUS
<1>2. ~ do_set_alarm
  BY DEF do_set_alarm, Serve, HardInt
<1>3. search
  BY <1>1, <1>2 DEF Next, clock_handler, milli_delay, clock_receive, calibrate, do_get_uptime,
                    do_get_time, do_set_time, do_clock_int, searched, clock_reply
<1>4. p = Head(task.todo) /\ Due(p)
  BY <1>1, <1>3 DEF IInv, TimeKept, TypeOK, search
<1> QED
  BY <1>4 DEF Due

(* Only the handler counts a tick.                                         *)
LEMMA OnlyHandlerTicks == ASSUME IInv, Next, elapsed' # elapsed PROVE clock_handler
BY DEF Next, milli_delay, clock_receive, calibrate, do_get_uptime, do_get_time, do_set_time,
       do_set_alarm, do_clock_int, search, searched, clock_reply, Handled

(* No alarm rings before its time, and the tick that finds one due while   *)
(* the task waits wakes the task.                                          *)
THEOREM AlarmsRingInTime == Spec => AlarmsInTime
<1> DEFINE InTime(p) ==
        /\ alarm'[p] = 0 /\ task.req = HardInt => alarm[p] <= elapsed
        /\ elapsed' > elapsed /\ task.at = "receive" /\ alarm[p] <= elapsed' => hard'
<1>1. ASSUME IInv, Next, NEW p \in Who, alarm[p] # 0 PROVE InTime(p)
  <2>1. /\ elapsed \in Nat /\ ticks \in Nat /\ pending_ticks \in Nat /\ next_alarm \in Nat
        /\ alarm \in [Who -> Nat] /\ ticks + pending_ticks = elapsed
    BY <1>1, Numbers DEF IInv, TimeKept, TypeOK
  <2>2. ASSUME alarm'[p] = 0, task.req = HardInt PROVE alarm[p] <= elapsed
    <3>1. alarm[p] <= ticks
      BY <1>1, <2>2, OnlySearchRings
    <3> QED
      BY <2>1, <3>1
  <2>3. ASSUME elapsed' > elapsed, task.at = "receive", alarm[p] <= elapsed' PROVE hard'
    <3>1. elapsed' # elapsed
      BY <2>1, <2>3
    <3>2. clock_handler
      BY <1>1, <3>1, OnlyHandlerTicks
    <3>3. next_alarm # 0 /\ next_alarm <= alarm[p]
      BY <1>1, <2>3 DEF IInv, NextAlarmInv, Earliest
    <3>4. elapsed' = now + 1
      BY <2>1, <3>2 DEF clock_handler, now
    <3>5. next_alarm <= now + 1
      BY <2>1, <2>3, <3>3, <3>4 DEF now
    <3> QED
      BY <3>2, <3>3, <3>5 DEF clock_handler
  <2> QED
    BY <2>2, <2>3
<1>2. IInv /\ [Next]_vars => [\A p \in Who : alarm[p] # 0 => InTime(p)]_vars
  BY <1>1
<1> QED
  BY <1>2, Invariance, PTL DEF Spec, AlarmsInTime

------------------------------------------------------------------------------
(* The console (Console).  A text is a fold over its characters, which the *)
(* library defines by a function on sets of positions that CHOOSE picks.   *)
(* So the first lemmas are about those: there is such a function, and what *)
(* it keeps on the way it keeps to the end.                                *)

(* A set of numbers that is not empty has a least member.                  *)
LEMMA LeastMember ==
  ASSUME NEW S \in SUBSET Nat, S # {}
  PROVE  \E n \in S : \A m \in S : n <= m
<1> DEFINE R == OpToRel(<, Nat)
<1>1. IsWellFoundedOn(R, Nat)
  BY NatLessThanWellFounded
<1> HIDE DEF R
<1>2. PICK n \in S : \A m \in S : ~ (<<m, n>> \in R)
  BY <1>1, WFMin
<1>3. \A m \in S : ~ (m < n)
  BY <1>2 DEF R, OpToRel
<1> QED BY <1>3

(* Induction up to a number, said of a set.                                *)
LEMMA UpTo ==
  ASSUME NEW n \in Nat, NEW K, 0 \in K, \A k \in 0 .. n - 1 : k \in K => k + 1 \in K
  PROVE  0 .. n \subseteq K
<1> DEFINE Bad == {k \in 0 .. n : k \notin K}
<1> SUFFICES Bad = {}
  OBVIOUS
<1>1. SUFFICES ASSUME Bad # {} PROVE FALSE
  OBVIOUS
<1>2. Bad \in SUBSET Nat
  OBVIOUS
<1>3. PICK b \in Bad : \A m \in Bad : b <= m
  <2> HIDE DEF Bad
  <2> QED BY <1>1, <1>2, LeastMember
<1>4. b # 0 /\ b \in 0 .. n /\ b \notin K
  BY <1>3
<1>5. b - 1 \in 0 .. n - 1 /\ b - 1 \notin Bad
  BY <1>3, <1>4
<1>6. b - 1 \in K
  BY <1>5
<1>7. (b - 1) + 1 \in K
  BY <1>5, <1>6
<1> QED BY <1>4, <1>7

(* A set of numbers up to k + 1: its largest is k + 1, or it is one up to  *)
(* k.                                                                      *)
LEMMA TopOf ==
  ASSUME NEW k \in Nat, NEW x \in SUBSET (1 .. k + 1)
  PROVE  /\ k + 1 \in x => Max(x) = k + 1 /\ x \ {Max(x)} \in SUBSET (1 .. k)
         /\ k + 1 \notin x => x \in SUBSET (1 .. k)
<1>1. ASSUME k + 1 \in x PROVE Max(x) = k + 1
  <2> DEFINE P(m) == m \in x /\ \A y \in x : m >= y
  <2>1. P(k + 1)
    BY <1>1
  <2>2. \A m : P(m) => m = k + 1
    BY <1>1
  <2>3. Max(x) = CHOOSE m \in x : \A y \in x : m >= y
    BY DEF Max
  <2> QED BY <2>1, <2>2, <2>3
<1>2. k + 1 \notin x => x \in SUBSET (1 .. k)
  OBVIOUS
<1>3. ASSUME k + 1 \in x PROVE x \ {k + 1} \in SUBSET (1 .. k)
  OBVIOUS
<1> QED BY <1>1, <1>2, <1>3

(* What holds of the empty set, and of a set when it does of the set       *)
(* without its largest, holds of all sets of numbers up to n.              *)
LEMMA SubsetInduction ==
  ASSUME NEW n \in Nat, NEW P, {} \in P,
         \A x \in SUBSET (1 .. n) : Max(x) \in x /\ x \ {Max(x)} \in P => x \in P
  PROVE  SUBSET (1 .. n) \subseteq P
<1> DEFINE K == {k \in 0 .. n : SUBSET (1 .. k) \subseteq P}
<1>1. 0 \in K
  <2>1. SUBSET (1 .. 0) = {{}} /\ 0 \in 0 .. n
    OBVIOUS
  <2>2. SUBSET (1 .. 0) \subseteq P
    BY <2>1
  <2> QED BY <2>1, <2>2
<1>2. ASSUME NEW k \in 0 .. n - 1, k \in K
      PROVE  k + 1 \in K
  <2>1. SUBSET (1 .. k) \subseteq P
    BY <1>2
  <2>2. ASSUME NEW x \in SUBSET (1 .. k + 1)
        PROVE  x \in P
    <3>1. CASE k + 1 \in x
      <4>1. k \in Nat
        OBVIOUS
      <4>2. x \ {Max(x)} \in SUBSET (1 .. k)
        BY <3>1, <4>1, TopOf, Zenon
      <4>3. x \ {Max(x)} \in P
        BY <2>1, <4>2
      <4>4. x \in SUBSET (1 .. n)
        OBVIOUS
      <4>5. Max(x) \in x
        BY <3>1, <4>1, TopOf, Zenon
      <4> QED BY <4>3, <4>4, <4>5
    <3>2. CASE k + 1 \notin x
      BY <2>1, <3>2, TopOf
    <3> QED BY <3>1, <3>2
  <2>3. k + 1 \in 0 .. n
    OBVIOUS
  <2> QED BY <2>2, <2>3
<1>3. n \in K
  <2> HIDE DEF K
  <2>1. 0 .. n \subseteq K
    BY <1>1, <1>2, UpTo
  <2> QED BY <2>1
<1> QED BY <1>3

(* What F makes of s and the values of t, one after the other, exists.     *)
IsChain(n, F, s, t, r) ==
    \A x \in SUBSET (1 .. n) :
       r[x] = IF x = {} THEN s ELSE F[<<r[x \ {Max(x)}], t[Max(x)]>>]

(* For every function F that keeps to G there is such a chain: what        *)
(* MapThenFoldSet and FoldLeft choose.                                     *)
LEMMA ChainExists ==
  ASSUME NEW n \in Nat, NEW G, NEW V, NEW s \in G, NEW F \in [G \X V -> G], NEW t \in [1 .. n -> V]
  PROVE  \E r \in [SUBSET (1 .. n) -> G] : IsChain(n, F, s, t, r)
<1> DEFINE Chain(r, k) ==
             \A x \in SUBSET (1 .. k) :
               r[x] = IF x = {} THEN s ELSE F[<<r[x \ {Max(x)}], t[Max(x)]>>]
           K == {k \in 0 .. n : \E r \in [SUBSET (1 .. k) -> G] : Chain(r, k)}
<1>1. 0 \in K
  <2> DEFINE r == [x \in SUBSET (1 .. 0) |-> s]
  <2>1. SUBSET (1 .. 0) = {{}}
    OBVIOUS
  <2>2. r \in [SUBSET (1 .. 0) -> G] /\ Chain(r, 0)
    BY <2>1
  <2>3. 0 \in 0 .. n
    OBVIOUS
  <2> HIDE DEF r, Chain
  <2> QED BY <2>2, <2>3
<1>2. ASSUME NEW k \in 0 .. n - 1, k \in K
      PROVE  k + 1 \in K
  <2>1. PICK r \in [SUBSET (1 .. k) -> G] : Chain(r, k)
    BY <1>2
  <2> DEFINE q == [x \in SUBSET (1 .. k + 1) |->
                     IF k + 1 \in x THEN F[<<r[x \ {k + 1}], t[k + 1]>>] ELSE r[x]]
  <2>2. k \in Nat /\ k + 1 \in 1 .. n /\ t[k + 1] \in V
    OBVIOUS
  <2>3. ASSUME NEW x \in SUBSET (1 .. k + 1), k + 1 \in x
        PROVE  /\ x # {} /\ Max(x) = k + 1 /\ x \ {k + 1} \in SUBSET (1 .. k)
               /\ q[x \ {k + 1}] = r[x \ {k + 1}]
               /\ q[x] = F[<<r[x \ {k + 1}], t[k + 1]>>]
               /\ q[x] \in G
    <3>1. Max(x) = k + 1 /\ x \ {k + 1} \in SUBSET (1 .. k)
      BY <2>2, <2>3, TopOf
    <3>2. x \ {k + 1} \in SUBSET (1 .. k + 1) /\ k + 1 \notin x \ {k + 1}
      OBVIOUS
    <3>3. q[x \ {k + 1}] = r[x \ {k + 1}]
      BY <3>2
    <3>4. q[x] = F[<<r[x \ {k + 1}], t[k + 1]>>]
      BY <2>3
    <3>5. r[x \ {k + 1}] \in G
      BY <2>1, <3>1
    <3>6. q[x] \in G
      BY <2>2, <3>4, <3>5
    <3> QED BY <2>3, <3>1, <3>3, <3>4, <3>6
  <2>4. ASSUME NEW x \in SUBSET (1 .. k + 1), k + 1 \notin x
        PROVE  x \in SUBSET (1 .. k) /\ q[x] = r[x] /\ q[x] \in G
    BY <2>1, <2>4
  <2>5. q \in [SUBSET (1 .. k + 1) -> G]
    <3>1. \A x \in SUBSET (1 .. k + 1) : q[x] \in G
      BY <2>3, <2>4
    <3>2. q = [x \in SUBSET (1 .. k + 1) |-> q[x]]
      OBVIOUS
    <3> HIDE DEF q
    <3> QED BY <3>1, <3>2
  <2> HIDE DEF q
  <2>6. ASSUME NEW x \in SUBSET (1 .. k + 1)
        PROVE  q[x] = IF x = {} THEN s ELSE F[<<q[x \ {Max(x)}], t[Max(x)]>>]
    <3>1. CASE k + 1 \in x
      BY <2>3, <3>1
    <3>2. CASE k + 1 \notin x /\ x = {}
      <4>1. r[x] = s
        BY <2>1, <2>4, <3>2
      <4> QED BY <2>4, <3>2, <4>1
    <3>3. CASE k + 1 \notin x /\ x # {}
      <4>1. x \in SUBSET (1 .. k) /\ q[x] = r[x]
        BY <2>4, <3>3
      <4>2. r[x] = F[<<r[x \ {Max(x)}], t[Max(x)]>>]
        BY <2>1, <3>3, <4>1
      <4>3. x \ {Max(x)} \in SUBSET (1 .. k + 1) /\ k + 1 \notin x \ {Max(x)}
        BY <3>3
      <4>4. q[x \ {Max(x)}] = r[x \ {Max(x)}]
        BY <2>4, <4>3
      <4> QED BY <3>3, <4>1, <4>2, <4>4
    <3> QED BY <3>1, <3>2, <3>3
  <2>7. Chain(q, k + 1)
    BY <2>6
  <2> HIDE DEF Chain
  <2>8. k + 1 \in 0 .. n
    OBVIOUS
  <2> QED BY <2>5, <2>7, <2>8
<1>3. n \in K
  <2> HIDE DEF K
  <2>1. 0 .. n \subseteq K
    BY <1>1, <1>2, UpTo
  <2> QED BY <2>1
<1> QED BY <1>3 DEF IsChain

(* A chain goes from one value of t to the next.                           *)
LEMMA ChainSteps ==
  ASSUME NEW n \in Nat, NEW F, NEW s, NEW t, NEW r, IsChain(n, F, s, t, r)
  PROVE  /\ r[1 .. 0] = s
         /\ \A k \in 0 .. n - 1 : r[1 .. k + 1] = F[<<r[1 .. k], t[k + 1]>>]
<1>1. r[1 .. 0] = s
  <2>1. 1 .. 0 = {} /\ {} \in SUBSET (1 .. n)
    OBVIOUS
  <2>2. r[{}] = s
    BY <2>1 DEF IsChain
  <2> QED BY <2>1, <2>2
<1>2. ASSUME NEW k \in 0 .. n - 1
      PROVE  r[1 .. k + 1] = F[<<r[1 .. k], t[k + 1]>>]
  <2> DEFINE x == 1 .. k + 1
  <2>1. k \in Nat /\ x \in SUBSET (1 .. k + 1) /\ x \in SUBSET (1 .. n) /\ k + 1 \in x /\ x # {}
        /\ x \ {k + 1} = 1 .. k
    <3>1. k \in Nat /\ k + 1 \in x /\ x \in SUBSET (1 .. n)
      OBVIOUS
    <3>2. x \ {k + 1} = 1 .. k
      OBVIOUS
    <3> QED BY <3>1, <3>2
  <2> HIDE DEF x
  <2>2. Max(x) = k + 1
    BY <2>1, TopOf
  <2>3. r[x] = F[<<r[x \ {Max(x)}], t[Max(x)]>>]
    BY <2>1 DEF IsChain
  <2>4. r[x] = F[<<r[1 .. k], t[k + 1]>>]
    BY <2>1, <2>2, <2>3
  <2> QED BY <2>4 DEF x
<1> QED BY <1>1, <1>2

------------------------------------------------------------------------------
(* The inductive invariant says what holds between two routines of a call: *)
(* nothing waits on any console, or only on the one that is written to,    *)
(* and that one's origin and cursor are already right.                     *)

(* Division by b leaves a remainder below it.                              *)
LEMMA DivisionFacts ==
  ASSUME NEW a \in Nat, NEW b \in Nat \ {0}
  PROVE  /\ a \div b \in Nat /\ a % b \in 0 .. b - 1
         /\ a = (a \div b) * b + (a % b)
OBVIOUS

(* A product grows with its factor.                                        *)
LEMMA ProductGrows ==
  ASSUME NEW a \in Int, NEW b \in Int, a <= b, NEW c \in Nat
  PROVE  a * c <= b * c /\ a * c \in Int /\ b * c \in Int
OBVIOUS

(* What the assumptions say of the sizes.                                  *)
LEMMA SizesFit ==
  /\ NR_CONSOLES \in Nat \ {0} /\ VIDEO \in Nat \ {0} /\ WIDTH \in Nat \ {0} /\ LINES \in Nat \ {0}
  /\ TAB \in Nat \ {0} /\ RAM_WORDS \in Nat \ {0} /\ WIDTH <= RAM_WORDS
  /\ screen_size \in Nat \ {0} /\ screen_size <= VIDEO
  /\ chars \in Nat /\ chars = screen_size - WIDTH
<1>1. /\ NR_CONSOLES \in Nat \ {0} /\ VIDEO \in Nat \ {0} /\ WIDTH \in Nat \ {0} /\ LINES \in Nat \ {0}
      /\ TAB \in Nat \ {0} /\ RAM_WORDS \in Nat \ {0} /\ WIDTH <= RAM_WORDS /\ WIDTH * LINES <= VIDEO
  BY ScreenAssumption
<1>2. screen_size \in Nat \ {0} /\ screen_size <= VIDEO
  BY <1>1 DEF screen_size
<1>3. WIDTH <= screen_size
  <2>1. 1 * WIDTH <= LINES * WIDTH
    BY <1>1, ProductGrows
  <2>2. LINES * WIDTH = WIDTH * LINES /\ 1 * WIDTH = WIDTH
    BY <1>1
  <2> QED BY <2>1, <2>2 DEF screen_size
<1> QED BY <1>1, <1>2, <1>3 DEF chars

(* Every console has room for a screen, within the video memory.           *)
LEMMA ConsolesFit ==
  /\ nr_console \in Nat \ {0} /\ nr_console <= NR_CONSOLES /\ 0 \in Line
  /\ page_size \in Nat \ {0} /\ screen_size <= page_size
  /\ \A c \in Line : /\ start(c) \in Nat /\ limit(c) \in Nat
                     /\ limit(c) = start(c) + page_size /\ limit(c) <= VIDEO
<1> DEFINE n == nr_console
           q == VIDEO \div screen_size
           p == page_size
<1>1. q \in Nat /\ q * screen_size <= VIDEO /\ q # 0
  <2>1. q \in Nat /\ VIDEO % screen_size \in 0 .. screen_size - 1
        /\ VIDEO = q * screen_size + (VIDEO % screen_size)
    BY DivisionFacts, SizesFit
  <2>2. q * screen_size \in Nat
    BY <2>1, SizesFit
  <2>3. q = 0 => q * screen_size = 0
    BY SizesFit
  <2> HIDE DEF q
  <2> QED BY <2>1, <2>2, <2>3, SizesFit
<1>2. n \in Nat \ {0} /\ n <= q /\ n <= NR_CONSOLES
  BY <1>1, SizesFit DEF nr_console
<1> HIDE DEF n, q
<1>3. n * screen_size <= q * screen_size /\ n * screen_size \in Int /\ q * screen_size \in Int
  BY <1>1, <1>2, ProductGrows, SizesFit
<1>4. n * screen_size <= VIDEO
  BY <1>1, <1>3, SizesFit
<1>5. p \in Nat /\ VIDEO % n \in 0 .. n - 1 /\ VIDEO = p * n + (VIDEO % n)
  BY <1>2, DivisionFacts, SizesFit DEF page_size, n
<1> HIDE DEF p
<1>6. p * n <= VIDEO /\ VIDEO < p * n + n /\ p * n \in Nat
  <2>1. p * n \in Nat
    BY <1>2, <1>5
  <2> QED BY <1>2, <1>5, <2>1
<1>7. screen_size <= p
  <2>1. SUFFICES ASSUME p + 1 <= screen_size PROVE FALSE
    BY <1>5, SizesFit
  <2>2. (p + 1) * n <= screen_size * n
    BY <1>2, <1>5, <2>1, ProductGrows, SizesFit
  <2>3. (p + 1) * n = p * n + n /\ screen_size * n = n * screen_size
    BY <1>2, <1>5, SizesFit
  <2> QED BY <2>2, <2>3, <1>2, <1>3, <1>4, <1>6, SizesFit
<1>8. ASSUME NEW c \in Line
      PROVE  /\ start(c) \in Nat /\ limit(c) \in Nat
             /\ limit(c) = start(c) + p /\ limit(c) <= VIDEO
  <2>1. c \in Nat /\ c + 1 <= n
    BY <1>2 DEF Line, n
  <2>2. c * p \in Nat /\ (c + 1) * p <= n * p /\ (c + 1) * p = c * p + p /\ n * p = p * n
    BY <2>1, <1>2, <1>5, ProductGrows
  <2> QED BY <2>2, <1>5, <1>6, SizesFit DEF start, limit, p
<1>9. 0 \in Line
  BY <1>2 DEF Line, n
<1> QED BY <1>2, <1>5, <1>7, <1>8, <1>9, SizesFit DEF n, p

------------------------------------------------------------------------------
Word == Letter \cup {Blank}
Kind == [row : Int, column : Int, queue : Seq(Word), origin : Int, cursor : Int,
         escape : {"no", "ESC", "ESC ["}]
State == [video : [0 .. VIDEO - 1 -> Word], console : [Line -> Kind], org : Int, at : Int,
          current : Line, software : BOOLEAN, overrun : BOOLEAN]

(* The origin of a console is where a screen from it stays within.         *)
OriginRight(s, c) ==
    /\ start(c) <= s.console[c].cursor
    /\ start(c) <= s.console[c].origin /\ s.console[c].origin + screen_size <= limit(c)
    /\ s.software => s.console[c].origin = start(c)

Origins(s) ==
    /\ s \in State /\ ~ s.overrun
    /\ \A c \in Line : OriginRight(s, c)
    /\ s.at = s.console[s.current].cursor

(* Nothing waits on this console.                                          *)
Still(s, c) == LET k == s.console[c] IN
    /\ k.queue = << >> /\ k.row \in 0 .. LINES - 1 /\ k.column \in 0 .. WIDTH
    /\ k.cursor = k.origin + k.row * WIDTH + k.column

Busy(s, c) == Origins(s) /\ \A d \in Line \ {c} : Still(s, d)
Rest(s) == Origins(s) /\ \A d \in Line : Still(s, d)
OrgRight(s) == s.org = s.console[s.current].origin

(* What a console holds, and that it still is one after a change.          *)
LEMMA KindIs ==
  ASSUME NEW k \in Kind
  PROVE  /\ k.row \in Int /\ k.column \in Int /\ k.queue \in Seq(Word)
         /\ k.origin \in Int /\ k.cursor \in Int /\ k.escape \in {"no", "ESC", "ESC ["}
BY DEF Kind

(* A console with another row.                                             *)
LEMMA RowKind ==
  ASSUME NEW k \in Kind, NEW r \in Int
  PROVE  LET j == [k EXCEPT !.row = r] IN
         /\ j \in Kind /\ j.origin = k.origin /\ j.cursor = k.cursor /\ j.row = r
         /\ j.column = k.column /\ j.queue = k.queue /\ j.escape = k.escape
BY DEF Kind

(* A console with another column.                                          *)
LEMMA ColumnKind ==
  ASSUME NEW k \in Kind, NEW x \in Int
  PROVE  LET j == [k EXCEPT !.column = x] IN
         /\ j \in Kind /\ j.origin = k.origin /\ j.cursor = k.cursor /\ j.row = k.row
         /\ j.column = x /\ j.queue = k.queue /\ j.escape = k.escape
BY DEF Kind

(* Within keeps a number between 0 and the top, and one that lies there.   *)
LEMMA WithinIs ==
  ASSUME NEW x \in Int, NEW top \in Nat
  PROVE  Within(x, top) \in 0 .. top /\ (x \in 0 .. top => Within(x, top) = x)
BY DEF Within

(* memory2video_copy leaves the memory a memory.                           *)
LEMMA StoredKind ==
  ASSUME NEW v \in [0 .. VIDEO - 1 -> Word], NEW words \in Seq(Word), NEW dest \in Int
  PROVE  Stored(v, words, dest) \in [0 .. VIDEO - 1 -> Word]
<1>1. ASSUME NEW w \in 0 .. VIDEO - 1, w - dest \in 0 .. Len(words) - 1
      PROVE  words[w - dest + 1] \in Word
  <2>1. w - dest + 1 \in 1 .. Len(words)
    BY <1>1, SizesFit
  <2> QED BY <2>1
<1>2. DOMAIN v = 0 .. VIDEO - 1
  OBVIOUS
<1>3. \A w \in 0 .. VIDEO - 1 : v[w] \in Word
  OBVIOUS
<1> QED BY <1>1, <1>2, <1>3 DEF Stored

(* Blanking leaves the memory a memory.                                    *)
LEMMA BlankedKind ==
  ASSUME NEW v \in [0 .. VIDEO - 1 -> Word], NEW dest \in Int
  PROVE  Blanked(v, dest) \in [0 .. VIDEO - 1 -> Word]
BY DEF Blanked, Word

(* video2video_copy leaves the memory a memory when what it reads is       *)
(* within.                                                                 *)
LEMMA CopiedKind ==
  ASSUME NEW v \in [0 .. VIDEO - 1 -> Word], NEW src \in Nat, NEW dest \in Nat, NEW count \in Nat,
         src + count <= VIDEO, dest <= VIDEO
  PROVE  Copied(v, src, dest, count) \in [0 .. VIDEO - 1 -> Word]
<1>1. ASSUME NEW w \in 0 .. VIDEO - 1, w - dest \in 0 .. count - 1, src < dest
      PROVE  v[src + ((w - dest) % (dest - src))] \in Word
  <2>1. dest - src \in Nat \ {0} /\ w - dest \in Nat
    BY <1>1, SizesFit
  <2>2. ((w - dest) % (dest - src)) \in 0 .. (dest - src) - 1
    <3>1. \A a \in Nat : \A b \in Nat \ {0} : a % b \in 0 .. b - 1
      OBVIOUS
    <3> QED BY <2>1, <3>1
  <2> DEFINE m == (w - dest) % (dest - src)
  <2>3. m \in 0 .. (dest - src) - 1
    BY <2>2
  <2> HIDE DEF m
  <2>4. src + m \in 0 .. VIDEO - 1
    BY <2>1, <2>3, <1>1, SizesFit
  <2>5. v[src + m] \in Word
    BY <2>4
  <2> QED BY <2>5 DEF m
<1>2. ASSUME NEW w \in 0 .. VIDEO - 1, w - dest \in 0 .. count - 1
      PROVE  v[src + (w - dest)] \in Word
  <2>1. src + (w - dest) \in 0 .. VIDEO - 1
    BY <1>2, SizesFit
  <2> QED BY <2>1
<1>3. DOMAIN v = 0 .. VIDEO - 1
  OBVIOUS
<1>4. \A w \in 0 .. VIDEO - 1 : v[w] \in Word
  OBVIOUS
<1> DEFINE new == Copied(v, src, dest, count)
<1>5. \A w \in 0 .. VIDEO - 1 : new[w] \in Word
  <2> TAKE w \in 0 .. VIDEO - 1
  <2>1. new[w] = IF w - dest \notin 0 .. count - 1 THEN v[w]
                 ELSE IF src < dest THEN v[src + ((w - dest) % (dest - src))] ELSE v[src + (w - dest)]
    BY <1>3 DEF Copied
  <2>2. CASE w - dest \notin 0 .. count - 1
    BY <1>4, <2>1, <2>2
  <2>3. CASE w - dest \in 0 .. count - 1 /\ src < dest
    BY <1>1, <2>1, <2>3
  <2>4. CASE w - dest \in 0 .. count - 1 /\ ~ (src < dest)
    BY <1>2, <2>1, <2>4
  <2> QED BY <2>2, <2>3, <2>4
<1>6. new = [w \in 0 .. VIDEO - 1 |-> new[w]]
  BY <1>3 DEF Copied
<1> HIDE DEF new
<1>7. new \in [0 .. VIDEO - 1 -> Word]
  BY <1>5, <1>6
<1> QED BY <1>7 DEF new

(* Nothing is stored.                                                      *)
LEMMA StoredNothing ==
  ASSUME NEW v \in [0 .. VIDEO - 1 -> Word], NEW dest \in Int
  PROVE  Stored(v, << >>, dest) = v
<1>1. ASSUME NEW w \in 0 .. VIDEO - 1
      PROVE  w - dest \notin 0 .. Len(<< >>) - 1
  BY SizesFit
<1> QED BY <1>1 DEF Stored

(* A copy towards the start of the memory, word by word.                   *)
LEMMA CopiedUp ==
  ASSUME NEW v \in [0 .. VIDEO - 1 -> Word], NEW src \in Nat, NEW dest \in Nat, NEW count \in Nat,
         dest <= src, src + count <= VIDEO, NEW i \in 0 .. count - 1
  PROVE  Copied(v, src, dest, count)[dest + i] = v[src + i]
<1>1. dest + i \in DOMAIN v /\ (dest + i) - dest = i /\ ~ (src < dest)
  BY SizesFit
<1> QED BY <1>1 DEF Copied

(* A copy, a blank line and what is stored leave alone what lies before.   *)
LEMMA CopiedBehind ==
  ASSUME NEW v \in [0 .. VIDEO - 1 -> Word], NEW src \in Nat, NEW dest \in Nat, NEW count \in Nat,
         NEW w \in 0 .. VIDEO - 1, w < dest
  PROVE  Copied(v, src, dest, count)[w] = v[w]
<1>1. w \in DOMAIN v /\ w - dest \notin 0 .. count - 1
  BY SizesFit
<1> QED BY <1>1 DEF Copied

(* What is stored and what is blanked leaves alone what lies before.       *)
LEMMA StoredBehind ==
  ASSUME NEW v \in [0 .. VIDEO - 1 -> Word], NEW dest \in Int, NEW w \in 0 .. VIDEO - 1, w < dest,
         NEW words \in Seq(Word)
  PROVE  Stored(v, words, dest)[w] = v[w] /\ Blanked(v, dest)[w] = v[w]
<1>1. w \in DOMAIN v /\ w - dest \notin 0 .. Len(words) - 1 /\ w - dest \notin 0 .. screen_size - 1
  BY SizesFit
<1> QED BY <1>1 DEF Stored, Blanked

(* What flush does.                                                        *)
LEMMA FlushIs ==
  ASSUME NEW s \in State, NEW c \in Line
  PROVE  LET u == flush(s, c)
             k == s.console[c]
             j == u.console[c] IN
         /\ u \in State
         /\ u.org = s.org /\ u.current = s.current /\ u.software = s.software /\ u.overrun = s.overrun
         /\ \A d \in Line \ {c} : u.console[d] = s.console[d]
         /\ j.queue = << >> /\ j.row = Within(k.row, LINES - 1) /\ j.column = Within(k.column, WIDTH)
         /\ j.origin = k.origin /\ j.escape = k.escape
         /\ j.cursor = j.origin + j.row * WIDTH + j.column
         /\ u.at = IF c = s.current /\ j.cursor # k.cursor THEN j.cursor ELSE s.at
         /\ u.video = Stored(s.video, k.queue, k.cursor)
<1> DEFINE k == s.console[c]
           column == Within(k.column, WIDTH)
           row == Within(k.row, LINES - 1)
           cursor == k.origin + row * WIDTH + column
           j == [k EXCEPT !.queue = << >>, !.row = row, !.column = column, !.cursor = cursor]
           at == IF c = s.current /\ cursor # k.cursor THEN cursor ELSE s.at
           video1 == Stored(s.video, k.queue, k.cursor)
           u == [s EXCEPT !.video = video1, !.console[c] = j, !.at = at]
<1>1. flush(s, c) = u
  BY DEF flush, State
<1>2. k \in Kind
  BY DEF State
<1>3. row \in Int /\ column \in Int /\ cursor \in Int
  <2> HIDE DEF k
  <2>1. k.row \in Int /\ k.column \in Int /\ k.origin \in Int
    BY <1>2 DEF Kind
  <2>4. LINES - 1 \in Nat /\ WIDTH \in Nat
    BY SizesFit
  <2>2. row \in 0 .. LINES - 1 /\ column \in 0 .. WIDTH
    BY <2>1, <2>4, WithinIs
  <2> HIDE DEF row, column
  <2>3. row \in Int /\ column \in Int /\ row * WIDTH \in Int
    BY <2>2, <2>4, SizesFit
  <2> QED BY <2>1, <2>3
<1>4. << >> \in Seq(Word)
  OBVIOUS
<1>5. video1 \in [0 .. VIDEO - 1 -> Word]
  BY <1>2, StoredKind DEF State, Kind
<1> HIDE DEF row, column, cursor, k, video1
<1>6. j \in Kind
  BY <1>2, <1>3, <1>4 DEF Kind
<1>7. /\ j.queue = << >> /\ j.row = row /\ j.column = column /\ j.cursor = cursor
      /\ j.origin = k.origin /\ j.escape = k.escape
  BY <1>2 DEF Kind
<1> HIDE DEF j
<1>8. at \in Int
  BY <1>3 DEF State
<1> HIDE DEF at
<1>9. u \in State
  BY <1>5, <1>6, <1>8 DEF State
<1>10. /\ u.org = s.org /\ u.current = s.current /\ u.software = s.software /\ u.overrun = s.overrun
       /\ \A d \in Line \ {c} : u.console[d] = s.console[d]
       /\ u.console[c] = j /\ u.at = at /\ u.video = video1
  BY DEF State
<1> HIDE DEF u
<1> QED BY <1>1, <1>7, <1>9, <1>10 DEF at, row, column, k, cursor, video1

(* After a flush of c nothing waits, and the controller still shows the    *)
(* origin.                                                                 *)
LEMMA FlushRests ==
  ASSUME NEW c \in Line, NEW s, Busy(s, c)
  PROVE  Rest(flush(s, c)) /\ (OrgRight(s) => OrgRight(flush(s, c)))
<1> DEFINE u == flush(s, c)
           k == s.console[c]
           j == u.console[c]
<1>1. s \in State /\ k \in Kind /\ ~ s.overrun /\ s.at = s.console[s.current].cursor
  BY DEF Busy, Origins, State
<1>2. /\ u \in State
      /\ u.org = s.org /\ u.current = s.current /\ u.software = s.software /\ u.overrun = s.overrun
      /\ \A d \in Line \ {c} : u.console[d] = s.console[d]
      /\ j.queue = << >> /\ j.row = Within(k.row, LINES - 1) /\ j.column = Within(k.column, WIDTH)
      /\ j.origin = k.origin
      /\ j.cursor = j.origin + j.row * WIDTH + j.column
      /\ u.at = IF c = s.current /\ j.cursor # k.cursor THEN j.cursor ELSE s.at
  BY <1>1, FlushIs
<1> HIDE DEF u
<1>3. j.row \in 0 .. LINES - 1 /\ j.column \in 0 .. WIDTH
  <2>1. k.row \in Int /\ k.column \in Int
    BY <1>1 DEF Kind
  <2>2. LINES - 1 \in Nat /\ WIDTH \in Nat
    BY SizesFit
  <2>3. Within(k.row, LINES - 1) \in 0 .. LINES - 1 /\ Within(k.column, WIDTH) \in 0 .. WIDTH
    BY <2>1, <2>2, WithinIs
  <2> QED BY <1>2, <2>3
<1>4. Still(u, c)
  BY <1>2, <1>3 DEF Still
<1>5. \A d \in Line \ {c} : Still(u, d)
  BY <1>2 DEF Still, Busy
<1>6. \A d \in Line : u.console[d].origin = s.console[d].origin
  BY <1>2
<1>7. \A d \in Line : OriginRight(u, d)
  <2>1. \A d \in Line \ {c} : OriginRight(u, d)
    BY <1>2 DEF OriginRight, Busy, Origins
  <2>2. OriginRight(s, c)
    BY DEF Busy, Origins
  <2>3. start(c) <= j.cursor
    <3>1. start(c) <= j.origin /\ start(c) \in Nat
      BY <1>2, <2>2, ConsolesFit DEF OriginRight
    <3>2. j.origin \in Int
      <4>1. j \in Kind
        BY <1>2 DEF State
      <4> QED BY <4>1, KindIs, Zenon
    <3>3. j.row * WIDTH \in Nat /\ j.column \in Nat
      BY <1>3, SizesFit
    <3> QED BY <1>2, <3>1, <3>2, <3>3
  <2>4. OriginRight(u, c)
    BY <1>2, <2>2, <2>3 DEF OriginRight
  <2> QED BY <2>1, <2>4
<1>8. u.at = u.console[u.current].cursor
  <2>1. CASE c = s.current
    BY <1>1, <1>2, <2>1
  <2>2. CASE c # s.current
    <3>1. s.current \in Line \ {c}
      BY <1>1, <2>2 DEF State
    <3> QED BY <1>1, <1>2, <2>2, <3>1
  <2> QED BY <2>1, <2>2
<1>9. Rest(u)
  BY <1>1, <1>2, <1>4, <1>5, <1>7, <1>8 DEF Rest, Origins
<1>10. OrgRight(s) => OrgRight(u)
  <2>1. s.current \in Line
    BY <1>1 DEF State
  <2> QED BY <1>2, <1>6, <2>1 DEF OrgRight
<1> QED BY <1>9, <1>10 DEF u

(* A console where nothing waits is one where something may.               *)
LEMMA RestIsBusy ==
  ASSUME NEW s, NEW c \in Line, Rest(s)
  PROVE  Busy(s, c)
BY DEF Rest, Busy

(* What may change on console c.                                           *)
LEMMA BusyKept ==
  ASSUME NEW c \in Line, NEW s, Busy(s, c), NEW u \in State,
         u.software = s.software, u.overrun = s.overrun, u.current = s.current, u.at = s.at,
         \A d \in Line \ {c} : u.console[d] = s.console[d],
         u.console[c].cursor = s.console[c].cursor, OriginRight(u, c)
  PROVE  Busy(u, c)
<1>1. \A d \in Line \ {c} : Still(u, d) /\ OriginRight(u, d)
  BY DEF Still, Busy, OriginRight, Origins
<1>2. \A d \in Line : OriginRight(u, d)
  BY <1>1
<1>3. u.at = u.console[u.current].cursor
  <2>1. s.current \in Line /\ s.at = s.console[s.current].cursor
    BY DEF Busy, Origins, State
  <2> QED BY <2>1
<1>4. ~ u.overrun
  BY DEF Busy, Origins
<1> QED BY <1>1, <1>2, <1>3, <1>4 DEF Busy, Origins

(* The same when only the row, the column, the queue or the escape state   *)
(* of c change.                                                            *)
LEMMA BusyMoved ==
  ASSUME NEW c \in Line, NEW s, Busy(s, c), NEW k \in Kind,
         k.origin = s.console[c].origin, k.cursor = s.console[c].cursor
  PROVE  LET u == [s EXCEPT !.console[c] = k] IN
         /\ Busy(u, c) /\ (OrgRight(s) => OrgRight(u)) /\ u.console[c] = k
         /\ u.software = s.software /\ u.current = s.current /\ u.org = s.org
<1> DEFINE u == [s EXCEPT !.console[c] = k]
<1>1. s \in State /\ s.current \in Line
  BY DEF Busy, Origins, State
<1>2. u \in State
  BY <1>1 DEF State
<1>3. /\ u.software = s.software /\ u.overrun = s.overrun /\ u.current = s.current
      /\ u.at = s.at /\ u.org = s.org
      /\ \A d \in Line \ {c} : u.console[d] = s.console[d]
      /\ u.console[c] = k
  BY <1>1 DEF State
<1> HIDE DEF u
<1>4. OriginRight(u, c)
  <2>1. OriginRight(s, c)
    BY DEF Busy, Origins
  <2> QED BY <1>3, <2>1 DEF OriginRight
<1>5. Busy(u, c)
  BY <1>2, <1>3, <1>4, BusyKept
<1>6. OrgRight(s) => OrgRight(u)
  BY <1>1, <1>3 DEF OrgRight
<1> QED BY <1>3, <1>5, <1>6 DEF u

(* A scroll ends at rest when its copies stay within the video memory and  *)
(* its origin is a right one.                                              *)
LEMMA ScrolledRests ==
  ASSUME NEW c \in Line, NEW s, Rest(s), OrgRight(s),
         NEW v \in [0 .. VIDEO - 1 -> Word], NEW origin \in Int, NEW new_line \in Int,
         start(c) <= origin, origin + screen_size <= limit(c), s.software => origin = start(c)
  PROVE  LET k == s.console[c]
             w == Scrolled(s, c, v, origin, new_line)
             j == w.console[c] IN
         /\ Rest(w) /\ OrgRight(w)
         /\ w.video = Blanked(v, new_line) /\ j.origin = origin
         /\ j.row = k.row /\ j.column = k.column /\ j.escape = k.escape
         /\ \A d \in Line \ {c} : w.console[d] = s.console[d]
<1> DEFINE b == Blanked(v, new_line)
           org == IF c = s.current THEN origin ELSE s.org
           u == [s EXCEPT !.video = b, !.console[c].origin = origin, !.org = org]
<1>1. s \in State /\ s.current \in Line /\ s.console[c] \in Kind /\ s.org \in Int
  BY DEF Rest, Origins, State
<1>2. b \in [0 .. VIDEO - 1 -> Word] /\ org \in Int
  BY <1>1, BlankedKind
<1>3. Scrolled(s, c, v, origin, new_line) = flush(u, c)
  BY <1>1 DEF Scrolled, State
<1> HIDE DEF b, org
<1>4. [s.console[c] EXCEPT !.origin = origin] \in Kind
  BY <1>1 DEF Kind
<1>5. u \in State
  BY <1>1, <1>2, <1>4 DEF State
<1>6. /\ u.software = s.software /\ u.overrun = s.overrun /\ u.current = s.current
      /\ u.at = s.at /\ u.org = org
      /\ \A d \in Line \ {c} : u.console[d] = s.console[d]
      /\ u.console[c].cursor = s.console[c].cursor /\ u.console[c].origin = origin
      /\ u.console[c].row = s.console[c].row /\ u.console[c].column = s.console[c].column
      /\ u.console[c].escape = s.console[c].escape /\ u.console[c].queue = s.console[c].queue
      /\ u.video = b
  BY <1>1 DEF State, Kind
<1> HIDE DEF u
<1>7. OriginRight(u, c)
  <2>1. start(c) <= s.console[c].cursor
    BY DEF Rest, Origins, OriginRight
  <2> QED BY <1>6, <2>1 DEF OriginRight
<1>8. Busy(u, c)
  BY <1>5, <1>6, <1>7, BusyKept, RestIsBusy
<1>9. OrgRight(u)
  BY <1>1, <1>6 DEF OrgRight, org
<1>10. Rest(flush(u, c)) /\ OrgRight(flush(u, c))
  BY <1>8, <1>9, FlushRests
<1>11. LET f == flush(u, c)
           g == f.console[c] IN
       /\ g.row = Within(u.console[c].row, LINES - 1) /\ g.column = Within(u.console[c].column, WIDTH)
       /\ g.origin = origin /\ g.escape = s.console[c].escape
       /\ \A d \in Line \ {c} : f.console[d] = s.console[d]
       /\ f.video = Stored(b, u.console[c].queue, u.console[c].cursor)
  BY <1>5, <1>6, FlushIs
<1>12. /\ Within(u.console[c].row, LINES - 1) = s.console[c].row
       /\ Within(u.console[c].column, WIDTH) = s.console[c].column
       /\ u.console[c].queue = << >>
  <2>1. /\ s.console[c].row \in 0 .. LINES - 1 /\ s.console[c].column \in 0 .. WIDTH
        /\ s.console[c].queue = << >>
    BY DEF Rest, Still
  <2>2. LINES - 1 \in Nat /\ WIDTH \in Nat /\ s.console[c].row \in Int /\ s.console[c].column \in Int
    BY <2>1, SizesFit
  <2>4. s.console[c].row \in 0 .. LINES - 1 /\ s.console[c].column \in 0 .. WIDTH
    BY <2>1
  <2>3. /\ Within(s.console[c].row, LINES - 1) = s.console[c].row
        /\ Within(s.console[c].column, WIDTH) = s.console[c].column
    BY <2>2, <2>4, WithinIs, Zenon
  <2> QED BY <1>6, <2>1, <2>3
<1>13. Stored(b, u.console[c].queue, u.console[c].cursor) = b
  <2>1. u.console[c].cursor \in Int
    BY <1>1, <1>6, KindIs, Zenon
  <2> QED BY <1>2, <1>12, <2>1, StoredNothing
<1> QED BY <1>3, <1>10, <1>11, <1>12, <1>13 DEF b

(* scroll_up, in software, at the end of the memory or by the controller.  *)
LEMMA ScrollUpRests ==
  ASSUME NEW c \in Line, NEW s, Rest(s), OrgRight(s)
  PROVE  LET k == s.console[c]
             w == scroll_up(s, c)
             j == w.console[c] IN
         /\ Rest(w) /\ OrgRight(w)
         /\ j.row = k.row /\ j.column = k.column /\ j.escape = k.escape
         /\ \A d \in Line \ {c} : w.console[d] = s.console[d]
         /\ \E v \in [0 .. VIDEO - 1 -> Word] :
               /\ w.video = Blanked(v, j.origin + chars)
               /\ \A i \in 0 .. chars - 1 : v[j.origin + i] = s.video[k.origin + WIDTH + i]
               /\ \A m \in 0 .. VIDEO - 1 : m < start(c) => v[m] = s.video[m]
<1> DEFINE k == s.console[c]
           origin == CASE s.software                   -> k.origin
                       [] ~s.software /\ AtEnd(k, c)   -> start(c)
                       [] OTHER                        -> (k.origin + WIDTH) % VIDEO
           v == CASE s.software                   -> Copied(s.video, start(c) + WIDTH, start(c), chars)
                  [] ~s.software /\ AtEnd(k, c)   -> Copied(s.video, k.origin + WIDTH, start(c), chars)
                  [] OTHER                        -> s.video
           new_line == (origin + chars) % VIDEO
<1>1. scroll_up(s, c) = Scrolled(s, c, v, origin, new_line)
  BY DEF scroll_up
<1>2. /\ s.video \in [0 .. VIDEO - 1 -> Word] /\ s.software \in BOOLEAN /\ k.origin \in Int
      /\ start(c) <= k.origin /\ k.origin + screen_size <= limit(c)
      /\ s.software => k.origin = start(c)
  BY DEF Rest, Origins, OriginRight, State, Kind
<1>3. /\ start(c) \in Nat /\ limit(c) \in Nat /\ limit(c) <= VIDEO
      /\ start(c) + screen_size <= limit(c) /\ VIDEO \in Nat \ {0} /\ WIDTH \in Nat \ {0}
      /\ screen_size \in Nat /\ chars \in Nat /\ chars = screen_size - WIDTH
  BY ConsolesFit, SizesFit
<1> DEFINE was == k.origin
<1>6. was = k.origin /\ was \in Int /\ start(c) <= was /\ was + screen_size <= limit(c)
  BY <1>2, SMTT(30)
<1> HIDE DEF was
<1>4. /\ v \in [0 .. VIDEO - 1 -> Word] /\ origin \in Int
      /\ start(c) <= origin /\ origin + screen_size <= limit(c) /\ (s.software => origin = start(c))
      /\ \A i \in 0 .. chars - 1 : v[origin + i] = s.video[was + WIDTH + i]
      /\ \A m \in 0 .. VIDEO - 1 : m < start(c) => v[m] = s.video[m]
  <2>1. CASE s.software
    <3>1. origin = k.origin /\ v = Copied(s.video, start(c) + WIDTH, start(c), chars)
      BY <2>1
    <3>2. /\ start(c) + WIDTH \in Nat /\ start(c) \in Nat /\ chars \in Nat
          /\ (start(c) + WIDTH) + chars <= VIDEO /\ start(c) <= VIDEO
      BY <1>3
    <3>3. v \in [0 .. VIDEO - 1 -> Word]
      BY <1>2, <3>1, <3>2, CopiedKind
    <3> DEFINE src == start(c) + WIDTH
    <3>6. src \in Nat /\ src + chars <= VIDEO /\ start(c) <= src
      BY <1>3
    <3>7. /\ s.video \in [0 .. VIDEO - 1 -> Word] /\ src \in Nat /\ start(c) \in Nat /\ chars \in Nat
          /\ src + chars <= VIDEO /\ start(c) <= src
      BY <1>2, <1>3, <3>6
    <3> HIDE DEF origin, v
    <3>4. \A i \in 0 .. chars - 1 : v[start(c) + i] = s.video[start(c) + WIDTH + i]
      <4> HIDE DEF src
      <4>1. \A i \in 0 .. chars - 1 : Copied(s.video, src, start(c), chars)[start(c) + i] = s.video[src + i]
        BY <3>7, CopiedUp, Zenon
      <4> QED BY <3>1, <4>1 DEF src
    <3>5. \A m \in 0 .. VIDEO - 1 : m < start(c) => v[m] = s.video[m]
      <4> HIDE DEF src
      <4>1. \A m \in 0 .. VIDEO - 1 : m < start(c) => Copied(s.video, src, start(c), chars)[m] = s.video[m]
        BY <3>7, CopiedBehind, ZenonT(60)
      <4> QED BY <3>1, <4>1 DEF src
    <3> QED BY <1>2, <1>6, <2>1, <3>1, <3>3, <3>4, <3>5
  <2>2. CASE ~ s.software /\ AtEnd(k, c)
    <3>1. origin = start(c) /\ v = Copied(s.video, k.origin + WIDTH, start(c), chars)
      BY <2>2
    <3>2. /\ was + WIDTH \in Nat /\ start(c) \in Nat /\ chars \in Nat
          /\ (was + WIDTH) + chars <= VIDEO /\ start(c) <= VIDEO
      BY <1>3, <1>6
    <3>3. v \in [0 .. VIDEO - 1 -> Word]
      BY <1>2, <1>6, <3>1, <3>2, CopiedKind
    <3> DEFINE src == was + WIDTH
    <3>6. src \in Nat /\ src + chars <= VIDEO /\ start(c) <= src /\ k.origin + WIDTH = src
      BY <1>3, <1>6
    <3>7. /\ s.video \in [0 .. VIDEO - 1 -> Word] /\ src \in Nat /\ start(c) \in Nat /\ chars \in Nat
          /\ src + chars <= VIDEO /\ start(c) <= src
      BY <1>2, <1>3, <3>6
    <3> HIDE DEF origin, v
    <3>4. \A i \in 0 .. chars - 1 : v[start(c) + i] = s.video[was + WIDTH + i]
      <4> HIDE DEF src
      <4>1. \A i \in 0 .. chars - 1 : Copied(s.video, src, start(c), chars)[start(c) + i] = s.video[src + i]
        BY <3>7, CopiedUp, Zenon
      <4> QED BY <3>1, <3>6, <4>1 DEF src
    <3>5. \A m \in 0 .. VIDEO - 1 : m < start(c) => v[m] = s.video[m]
      <4> HIDE DEF src
      <4>1. \A m \in 0 .. VIDEO - 1 : m < start(c) => Copied(s.video, src, start(c), chars)[m] = s.video[m]
        BY <3>7, CopiedBehind, ZenonT(60)
      <4> QED BY <3>1, <3>6, <4>1
    <3> QED BY <1>3, <2>2, <3>1, <3>3, <3>4, <3>5
  <2>3. CASE ~ s.software /\ ~ AtEnd(k, c)
    <3>1. origin = (k.origin + WIDTH) % VIDEO /\ v = s.video
      BY <2>3
    <3>2. was + screen_size + WIDTH < limit(c)
      BY <1>3, <1>6, <2>3 DEF AtEnd
    <3> DEFINE o == was + WIDTH
    <3>3. o \in Nat /\ o < VIDEO /\ start(c) <= o /\ o + screen_size <= limit(c)
      BY <1>3, <1>6, <3>2
    <3>4. o % VIDEO = o
      <4> HIDE DEF o
      <4> QED BY <1>3, <3>3
    <3>5. origin = o
      BY <1>6, <3>1, <3>4
    <3> HIDE DEF origin, v
    <3> QED BY <1>2, <2>3, <3>1, <3>3, <3>5
  <2> QED BY <2>1, <2>2, <2>3
<1>5. new_line = origin + chars /\ new_line \in Int
  <2> DEFINE n == origin + chars
  <2>1. n \in 0 .. VIDEO - 1
    <3> HIDE DEF origin
    <3> QED BY <1>3, <1>4
  <2>2. n % VIDEO = n
    <3> HIDE DEF n
    <3> QED BY <1>3, <2>1
  <2> HIDE DEF n
  <2> QED BY <2>1, <2>2 DEF n
<1> HIDE DEF v, origin, new_line
<1>7. LET w == Scrolled(s, c, v, origin, new_line)
          j == w.console[c] IN
      /\ Rest(w) /\ OrgRight(w)
      /\ w.video = Blanked(v, new_line) /\ j.origin = origin
      /\ j.row = k.row /\ j.column = k.column /\ j.escape = k.escape
      /\ \A d \in Line \ {c} : w.console[d] = s.console[d]
  BY <1>4, <1>5, ScrolledRests
<1> DEFINE w == Scrolled(s, c, v, origin, new_line)
<1> HIDE DEF w
<1>8. /\ w.video = Blanked(v, w.console[c].origin + chars)
      /\ \A i \in 0 .. chars - 1 : v[w.console[c].origin + i] = s.video[k.origin + WIDTH + i]
  BY <1>4, <1>5, <1>6, <1>7 DEF w
<1>9. scroll_up(s, c) = w
  BY <1>1 DEF w
<1>10. /\ Rest(w) /\ OrgRight(w) /\ w.console[c].row = k.row /\ w.console[c].column = k.column
       /\ w.console[c].escape = k.escape /\ \A d \in Line \ {c} : w.console[d] = s.console[d]
  BY <1>7 DEF w
<1> QED BY <1>4, <1>8, <1>9, <1>10

(* scroll_down, in software, at the start of the memory or by the          *)
(* controller.                                                             *)
LEMMA ScrollDownRests ==
  ASSUME NEW c \in Line, NEW s, Rest(s), OrgRight(s)
  PROVE  LET k == s.console[c]
             w == scroll_down(s, c)
             j == w.console[c] IN
         /\ Rest(w) /\ OrgRight(w)
         /\ j.row = k.row /\ j.column = k.column /\ j.escape = k.escape
         /\ \A d \in Line \ {c} : w.console[d] = s.console[d]
         /\ \E v \in [0 .. VIDEO - 1 -> Word] :
               /\ w.video = Blanked(v, j.origin)
               /\ \A m \in 0 .. VIDEO - 1 : m < start(c) => v[m] = s.video[m]
<1> DEFINE k == s.console[c]
           far == limit(c) - screen_size
           origin == CASE s.software                    -> k.origin
                       [] ~s.software /\ AtStart(k, c)  -> far
                       [] OTHER                         -> (k.origin - WIDTH) % VIDEO
           v == CASE s.software                    -> Copied(s.video, start(c), start(c) + WIDTH, chars)
                  [] ~s.software /\ AtStart(k, c)  -> Copied(s.video, k.origin, far + WIDTH, chars)
                  [] OTHER                         -> s.video
<1>1. scroll_down(s, c) = Scrolled(s, c, v, origin, origin)
  BY DEF scroll_down
<1>2. /\ s.video \in [0 .. VIDEO - 1 -> Word] /\ s.software \in BOOLEAN /\ k.origin \in Int
      /\ start(c) <= k.origin /\ k.origin + screen_size <= limit(c)
      /\ s.software => k.origin = start(c)
  BY DEF Rest, Origins, OriginRight, State, Kind
<1>3. /\ start(c) \in Nat /\ limit(c) \in Nat /\ limit(c) <= VIDEO
      /\ start(c) + screen_size <= limit(c) /\ VIDEO \in Nat \ {0} /\ WIDTH \in Nat \ {0}
      /\ screen_size \in Nat /\ chars \in Nat /\ chars = screen_size - WIDTH
  BY ConsolesFit, SizesFit
<1> DEFINE was == k.origin
<1>6. was = k.origin /\ was \in Int /\ start(c) <= was /\ was + screen_size <= limit(c)
  BY <1>2
<1> HIDE DEF was
<1>4. /\ v \in [0 .. VIDEO - 1 -> Word] /\ origin \in Int
      /\ start(c) <= origin /\ origin + screen_size <= limit(c) /\ (s.software => origin = start(c))
      /\ \A m \in 0 .. VIDEO - 1 : m < start(c) => v[m] = s.video[m]
  <2>1. CASE s.software
    <3>1. origin = k.origin /\ v = Copied(s.video, start(c), start(c) + WIDTH, chars)
      BY <2>1
    <3>2. /\ start(c) + WIDTH \in Nat /\ start(c) \in Nat /\ chars \in Nat
          /\ start(c) + chars <= VIDEO /\ start(c) + WIDTH <= VIDEO
      BY <1>3
    <3>3. v \in [0 .. VIDEO - 1 -> Word]
      BY <1>2, <3>1, <3>2, CopiedKind
    <3>4. \A m \in 0 .. VIDEO - 1 : m < start(c) => v[m] = s.video[m]
      <4> DEFINE dest == start(c) + WIDTH
      <4>1. dest \in Nat /\ \A m \in 0 .. VIDEO - 1 : m < start(c) => m < dest
        BY <1>3
      <4> HIDE DEF dest, v, origin
      <4>2. \A m \in 0 .. VIDEO - 1 : m < dest => Copied(s.video, start(c), dest, chars)[m] = s.video[m]
        <5>1. s.video \in [0 .. VIDEO - 1 -> Word] /\ start(c) \in Nat /\ dest \in Nat /\ chars \in Nat
          BY <1>2, <1>3, <4>1
        <5> QED BY <5>1, CopiedBehind, ZenonT(60)
      <4> QED BY <3>1, <4>1, <4>2 DEF dest
    <3> HIDE DEF origin, v
    <3> QED BY <1>2, <3>1, <3>3, <3>4
  <2>2. CASE ~ s.software /\ AtStart(k, c)
    <3>1. origin = far /\ v = Copied(s.video, k.origin, far + WIDTH, chars)
      BY <2>2
    <3>2. /\ was \in Nat /\ far + WIDTH \in Nat /\ chars \in Nat
          /\ was + chars <= VIDEO /\ far + WIDTH <= VIDEO
      BY <1>3, <1>6
    <3>3. v \in [0 .. VIDEO - 1 -> Word]
      BY <1>2, <1>6, <3>1, <3>2, CopiedKind
    <3>4. \A m \in 0 .. VIDEO - 1 : m < start(c) => v[m] = s.video[m]
      <4> DEFINE dest == far + WIDTH
      <4>1. dest \in Nat /\ \A m \in 0 .. VIDEO - 1 : m < start(c) => m < dest
        BY <1>3
      <4>3. v = Copied(s.video, was, dest, chars) /\ was \in Nat
        BY <1>6, <3>1, <3>2
      <4> HIDE DEF dest, v, origin
      <4>2. \A m \in 0 .. VIDEO - 1 : m < dest => Copied(s.video, was, dest, chars)[m] = s.video[m]
        <5>1. s.video \in [0 .. VIDEO - 1 -> Word] /\ was \in Nat /\ dest \in Nat /\ chars \in Nat
          BY <1>2, <1>3, <4>1, <4>3
        <5> QED BY <5>1, CopiedBehind, ZenonT(60)
      <4> QED BY <4>1, <4>2, <4>3
    <3> HIDE DEF origin, v
    <3> QED BY <1>3, <2>2, <3>1, <3>3, <3>4
  <2>3. CASE ~ s.software /\ ~ AtStart(k, c)
    <3>1. origin = (k.origin - WIDTH) % VIDEO /\ v = s.video
      BY <2>3
    <3>2. was >= start(c) + WIDTH
      BY <1>3, <1>6, <2>3 DEF AtStart
    <3> DEFINE o == was - WIDTH
    <3>3. o \in Nat /\ o < VIDEO /\ start(c) <= o /\ o + screen_size <= limit(c)
      BY <1>3, <1>6, <3>2
    <3>4. o % VIDEO = o
      <4> HIDE DEF o
      <4> QED BY <1>3, <3>3
    <3>5. origin = o
      BY <1>6, <3>1, <3>4
    <3> HIDE DEF origin, v
    <3> QED BY <1>2, <2>3, <3>1, <3>3, <3>5
  <2> QED BY <2>1, <2>2, <2>3
<1> HIDE DEF v, origin
<1>7. LET w == Scrolled(s, c, v, origin, origin)
          j == w.console[c] IN
      /\ Rest(w) /\ OrgRight(w)
      /\ w.video = Blanked(v, origin) /\ j.origin = origin
      /\ j.row = k.row /\ j.column = k.column /\ j.escape = k.escape
      /\ \A d \in Line \ {c} : w.console[d] = s.console[d]
  BY <1>4, ScrolledRests
<1> DEFINE w == Scrolled(s, c, v, origin, origin)
<1> HIDE DEF w
<1>8. w.video = Blanked(v, w.console[c].origin)
  BY <1>7 DEF w
<1>9. scroll_down(s, c) = w
  BY <1>1 DEF w
<1>10. /\ Rest(w) /\ OrgRight(w) /\ w.console[c].row = k.row /\ w.console[c].column = k.column
       /\ w.console[c].escape = k.escape /\ \A d \in Line \ {c} : w.console[d] = s.console[d]
  BY <1>7 DEF w
<1> QED BY <1>4, <1>8, <1>9, <1>10

------------------------------------------------------------------------------
(* The characters.  While a text is written, letters wait on its console.  *)
Loose(s, c) == Busy(s, c) /\ OrgRight(s)
Full(s) == Rest(s) /\ OrgRight(s)

Writing(s, c) == LET k == s.console[c] IN
    /\ Loose(s, c)
    /\ k.row \in 0 .. LINES - 1 /\ k.column \in 0 .. WIDTH /\ Len(k.queue) <= k.column

(* A flush puts everything in place.                                       *)
LEMMA FlushIsFull ==
  ASSUME NEW c \in Line, NEW s, Loose(s, c)
  PROVE  Full(flush(s, c))
BY FlushRests DEF Loose, Full

(* With everything in place a text may be written to any console.          *)
LEMMA FullIsLoose ==
  ASSUME NEW c \in Line, NEW s, Full(s)
  PROVE  Loose(s, c)
BY RestIsBusy DEF Loose, Full

(* With everything in place the queue is empty and row and column are on   *)
(* the screen.                                                             *)
LEMMA FullIsWriting ==
  ASSUME NEW c \in Line, NEW s, Full(s)
  PROVE  Writing(s, c)
<1>1. Still(s, c)
  BY DEF Full, Rest
<1>2. s.console[c].column \in 0 .. WIDTH /\ Len(s.console[c].queue) = 0
  BY <1>1 DEF Still
<1>3. Len(s.console[c].queue) <= s.console[c].column
  BY <1>2, SizesFit
<1> QED BY <1>1, <1>3, FullIsLoose DEF Writing, Still

(* The kinds of the driver and of a console while a text is written.       *)
LEMMA LooseKind ==
  ASSUME NEW c \in Line, NEW s, Loose(s, c)
  PROVE  s \in State /\ s.console[c] \in Kind
BY DEF Loose, Busy, Origins, State

(* Row, column, queue and escape state of c may change.                    *)
LEMMA LooseMoved ==
  ASSUME NEW c \in Line, NEW s, Loose(s, c), NEW k \in Kind,
         k.origin = s.console[c].origin, k.cursor = s.console[c].cursor
  PROVE  LET u == [s EXCEPT !.console[c] = k] IN Loose(u, c) /\ u.console[c] = k
BY BusyMoved DEF Loose

(* The state of an escape sequence has no place on the screen.             *)
LEMMA FullEscaped ==
  ASSUME NEW c \in Line, NEW s, Full(s), NEW e \in {"no", "ESC", "ESC ["}
  PROVE  Full([s EXCEPT !.console[c].escape = e])
<1> DEFINE k == [s.console[c] EXCEPT !.escape = e]
           u == [s EXCEPT !.console[c] = k]
<1>1. s.console[c] \in Kind /\ s \in State
  BY FullIsLoose, LooseKind
<1>2. k \in Kind /\ k.origin = s.console[c].origin /\ k.cursor = s.console[c].cursor
      /\ k.row = s.console[c].row /\ k.column = s.console[c].column /\ k.queue = s.console[c].queue
  BY <1>1 DEF Kind
<1>3. [s EXCEPT !.console[c].escape = e] = u
  BY <1>1 DEF State
<1> HIDE DEF k
<1>4. Loose(u, c) /\ u.console[c] = k
  BY <1>2, FullIsLoose, LooseMoved
<1>5. Still(u, c)
  BY <1>2, <1>4 DEF Still, Full, Rest
<1> HIDE DEF u
<1>6. Full(u)
  BY <1>4, <1>5 DEF Full, Rest, Loose, Busy
<1> QED BY <1>3, <1>6

(* A line feed moves the row or scrolls.                                   *)
LEMMA LineFeedLoose ==
  ASSUME NEW c \in Line, NEW s, Loose(s, c)
  PROVE  Loose(LineFeed(s, c), c)
<1>1. CASE s.console[c].row = LINES - 1
  <2>1. Full(Pending(s, c))
    BY FlushIsFull DEF Pending
  <2>2. Full(scroll_up(Pending(s, c), c))
    BY <2>1, ScrollUpRests DEF Full
  <2> QED BY <1>1, <2>2, FullIsLoose DEF LineFeed
<1>2. CASE s.console[c].row # LINES - 1
  <2> DEFINE k == [s.console[c] EXCEPT !.row = @ + 1]
  <2>1. s.console[c] \in Kind /\ s \in State
    BY LooseKind
  <2>2. k \in Kind /\ k.origin = s.console[c].origin /\ k.cursor = s.console[c].cursor
    <3>1. s.console[c].row \in Int
      BY <2>1, KindIs, Zenon
    <3>2. s.console[c].row + 1 \in Int
      BY <3>1
    <3> QED BY <2>1, <3>2, RowKind, Zenon
  <2>3. LineFeed(s, c) = [s EXCEPT !.console[c] = k]
    BY <1>2, <2>1 DEF LineFeed, State
  <2> HIDE DEF k
  <2> QED BY <2>2, <2>3, LooseMoved
<1> QED BY <1>1, <1>2

(* Setting the column.                                                     *)
LEMMA ColumnSet ==
  ASSUME NEW c \in Line, NEW s, Loose(s, c), NEW x \in Int
  PROVE  LET u == [s EXCEPT !.console[c].column = x] IN
         Loose(u, c) /\ u.console[c].column = x /\ u.console[c].row = s.console[c].row
<1> DEFINE k == [s.console[c] EXCEPT !.column = x]
<1>1. s.console[c] \in Kind /\ s \in State
  BY LooseKind
<1>2. k \in Kind /\ k.origin = s.console[c].origin /\ k.cursor = s.console[c].cursor
      /\ k.column = x /\ k.row = s.console[c].row
  BY <1>1 DEF Kind
<1>3. [s EXCEPT !.console[c].column = x] = [s EXCEPT !.console[c] = k]
  BY <1>1 DEF State
<1> HIDE DEF k
<1> QED BY <1>2, <1>3, LooseMoved

(* A newline leaves everything in place.                                   *)
LEMMA NewlineFull ==
  ASSUME NEW c \in Line, NEW s, Loose(s, c)
  PROVE  Full(newline(s, c))
BY ColumnSet, LineFeedLoose, FlushIsFull DEF newline

(* A backspace leaves everything in place, also from before the first      *)
(* column.                                                                 *)
LEMMA BackspaceFull ==
  ASSUME NEW c \in Line, NEW s, Loose(s, c)
  PROVE  Full(backspace(s, c))
<1> DEFINE k == s.console[c]
           left == [k EXCEPT !.column = @ - 1]
           up == [k EXCEPT !.row = @ - 1, !.column = IF k.row > 0 THEN WIDTH - 1 ELSE -1]
<1>1. k \in Kind /\ s \in State
  BY LooseKind
<1>2. k.row - 1 \in Int /\ k.column - 1 \in Int
  <2>1. k.row \in Int /\ k.column \in Int
    BY <1>1, KindIs, Zenon
  <2> QED BY <2>1
<1>7. (IF k.row > 0 THEN WIDTH - 1 ELSE -1) \in Int
  BY SizesFit
<1>3. left \in Kind /\ left.origin = k.origin /\ left.cursor = k.cursor
  BY <1>1, <1>2, ColumnKind, Zenon
<1>4. up \in Kind /\ up.origin = k.origin /\ up.cursor = k.cursor
  <2> DEFINE r == k.row - 1
             x == IF k.row > 0 THEN WIDTH - 1 ELSE -1
  <2>1. up = [k EXCEPT !.row = r, !.column = x]
    BY <1>1 DEF Kind
  <2>2. r \in Int /\ x \in Int
    BY <1>2, <1>7
  <2> HIDE DEF k, up, r, x
  <2>3. LET m == [k EXCEPT !.row = r, !.column = x] IN
        m \in Kind /\ m.origin = k.origin /\ m.cursor = k.cursor
    BY <1>1, <2>2 DEF Kind
  <2> QED BY <2>1, <2>3, Zenon
<1>5. backspace(s, c) = flush(IF k.column > 0 THEN [s EXCEPT !.console[c] = left]
                              ELSE [s EXCEPT !.console[c] = up], c)
  BY <1>1 DEF backspace, State
<1> HIDE DEF left, up
<1>6. Loose([s EXCEPT !.console[c] = left], c) /\ Loose([s EXCEPT !.console[c] = up], c)
  BY <1>3, <1>4, LooseMoved
<1> QED BY <1>5, <1>6, FlushIsFull

(* A tab leaves everything in place, also over the last column.            *)
LEMMA TabFull ==
  ASSUME NEW c \in Line, NEW s, Loose(s, c), s.console[c].column \in Nat
  PROVE  Full(tab(s, c))
<1> DEFINE to == ((s.console[c].column + TAB) \div TAB) * TAB
<1>1. to \in Int /\ to - WIDTH \in Int
  <2>1. (s.console[c].column + TAB) \div TAB \in Nat
    <3>1. s.console[c].column + TAB \in Nat /\ TAB \in Nat \ {0}
      BY SizesFit
    <3> HIDE DEF to
    <3> QED BY <3>1, DivisionFacts
  <2> QED BY <2>1, SizesFit
<1>2. tab(s, c) = flush(IF to > WIDTH THEN LineFeed([s EXCEPT !.console[c].column = to - WIDTH], c)
                        ELSE [s EXCEPT !.console[c].column = to], c)
  BY DEF tab
<1> HIDE DEF to
<1>3. /\ Loose([s EXCEPT !.console[c].column = to - WIDTH], c)
      /\ Loose([s EXCEPT !.console[c].column = to], c)
  BY <1>1, ColumnSet
<1>4. Loose(LineFeed([s EXCEPT !.console[c].column = to - WIDTH], c), c)
  BY <1>3, LineFeedLoose
<1> QED BY <1>2, <1>3, <1>4, FlushIsFull

(* ESC M leaves everything in place.                                       *)
LEMMA EscapeFull ==
  ASSUME NEW c \in Line, NEW s, Loose(s, c)
  PROVE  Full(do_escape(s, c))
<1> DEFINE f == flush(s, c)
           k == [f.console[c] EXCEPT !.row = @ - 1]
           g == IF f.console[c].row = 0 THEN scroll_down(Pending(f, c), c)
                ELSE [f EXCEPT !.console[c].row = @ - 1]
<1>1. Full(f)
  BY FlushIsFull
<1>2. do_escape(s, c) = [flush(g, c) EXCEPT !.console[c].escape = "no"]
  BY DEF do_escape
<1> HIDE DEF f
<1>3. f.console[c] \in Kind /\ f \in State
  BY <1>1, FullIsLoose, LooseKind
<1>4. Loose(g, c)
  <2>1. CASE f.console[c].row = 0
    <3>1. Full(Pending(f, c))
      BY <1>1, FullIsLoose, FlushIsFull DEF Pending
    <3> QED BY <2>1, <3>1, ScrollDownRests, FullIsLoose DEF Full
  <2>2. CASE f.console[c].row # 0
    <3>1. k \in Kind /\ k.origin = f.console[c].origin /\ k.cursor = f.console[c].cursor
      <4>1. f.console[c].row \in Int
        BY <1>3, KindIs, Zenon
      <4>2. f.console[c].row - 1 \in Int
        BY <4>1
      <4> QED BY <1>3, <4>2, RowKind, Zenon
    <3>2. g = [f EXCEPT !.console[c] = k]
      BY <1>3, <2>2 DEF State
    <3> HIDE DEF k, g
    <3>3. Loose(f, c)
      BY <1>1, FullIsLoose
    <3> QED BY <3>1, <3>2, <3>3, LooseMoved
  <2> QED BY <2>1, <2>2
<1> HIDE DEF g
<1> QED BY <1>2, <1>4, FlushIsFull, FullEscaped

(* A letter joins the queue, which has room since it is no longer than the *)
(* column.                                                                 *)
LEMMA QueuedWrites ==
  ASSUME NEW c \in Line, NEW s, Writing(s, c), s.console[c].column < WIDTH, NEW ch \in Word
  PROVE  Writing(Queued(s, c, ch), c)
<1> DEFINE k == s.console[c]
           j == [k EXCEPT !.queue = Append(@, ch), !.column = @ + 1]
           u == [s EXCEPT !.console[c] = j]
<1>1. k \in Kind /\ s \in State /\ ~ s.overrun
  BY LooseKind DEF Writing, Loose, Busy, Origins
<1>2. k.queue \in Seq(Word) /\ k.column \in Int /\ Append(k.queue, ch) \in Seq(Word)
      /\ Len(Append(k.queue, ch)) = Len(k.queue) + 1 /\ k.column + 1 \in Int
  <2>1. k.queue \in Seq(Word) /\ k.column \in Int
    BY <1>1, KindIs, Zenon
  <2> HIDE DEF k
  <2> QED BY <2>1
<1>3. j \in Kind /\ j.origin = k.origin /\ j.cursor = k.cursor /\ j.row = k.row
      /\ j.column = k.column + 1 /\ j.queue = Append(k.queue, ch)
  <2> DEFINE q == Append(k.queue, ch)
             x == k.column + 1
  <2>1. j = [k EXCEPT !.queue = q, !.column = x]
    BY <1>1 DEF Kind
  <2>2. q \in Seq(Word) /\ x \in Int
    BY <1>2
  <2>3. q = Append(k.queue, ch) /\ x = k.column + 1
    OBVIOUS
  <2> HIDE DEF k, j, q, x
  <2>4. LET m == [k EXCEPT !.queue = q, !.column = x] IN
        /\ m \in Kind /\ m.origin = k.origin /\ m.cursor = k.cursor /\ m.row = k.row
        /\ m.column = x /\ m.queue = q /\ m.escape = k.escape
    BY <1>1, <2>2 DEF Kind
  <2> QED BY <2>1, <2>3, <2>4, Zenon
<1>4. Len(k.queue) < RAM_WORDS /\ Len(k.queue) \in Nat /\ k.column + 1 \in 0 .. WIDTH
      /\ Len(j.queue) <= j.column
  <2>1. Len(k.queue) \in Nat /\ k.column \in 0 .. WIDTH /\ k.column < WIDTH /\ Len(k.queue) <= k.column
    BY <1>2 DEF Writing
  <2> HIDE DEF k, j
  <2> QED BY <1>2, <1>3, <2>1, SizesFit
<1>5. ~ (Len(s.console[c].queue) >= RAM_WORDS)
  BY <1>4, SizesFit, SMTT(30)
<1>6. Queued(s, c, ch) = u
  <2> DEFINE q == Queued(s, c, ch)
  <2>1. q = [s EXCEPT !.console[c] = j, !.overrun = s.overrun \/ Len(s.console[c].queue) >= RAM_WORDS]
    BY <1>1 DEF Queued, State
  <2>2. (s.overrun \/ Len(s.console[c].queue) >= RAM_WORDS) = s.overrun
    BY <1>1, <1>5 DEF State
  <2> QED BY <2>1, <2>2, <1>1 DEF State
<1> HIDE DEF j
<1>7. Loose(u, c) /\ u.console[c] = j
  BY <1>3, LooseMoved DEF Writing
<1> QED BY <1>3, <1>4, <1>6, <1>7 DEF Writing

(* A letter, with the line feed when the line is full and the flush of a   *)
(* full queue.                                                             *)
LEMMA LetterWrites ==
  ASSUME NEW c \in Line, NEW s, Writing(s, c), NEW ch \in Word
  PROVE  Writing(letter(s, c, ch), c)
<1> DEFINE k == s.console[c]
           fed == [LineFeed(s, c) EXCEPT !.console[c].column = 0]
           wrapped == flush(fed, c)
           at == IF k.column >= WIDTH THEN wrapped ELSE s
           to == IF at.console[c].row = RAM_WORDS THEN flush(at, c) ELSE at
<1>1. letter(s, c, ch) = Queued(to, c, ch)
  BY DEF letter
<1>2. Writing(at, c) /\ at.console[c].column < WIDTH
  <2>1. CASE k.column >= WIDTH
    <3>1. Loose(fed, c) /\ fed.console[c].column = 0
      <4>1. Loose(LineFeed(s, c), c)
        BY LineFeedLoose DEF Writing
      <4> QED BY <4>1, ColumnSet
    <3> HIDE DEF fed
    <3>2. Full(wrapped)
      BY <3>1, FlushIsFull
    <3>3. wrapped.console[c].column = Within(0, WIDTH)
      BY <3>1, FlushIs, LooseKind
    <3>4. Within(0, WIDTH) = 0 /\ 0 < WIDTH
      BY SizesFit DEF Within
    <3> HIDE DEF wrapped
    <3> QED BY <2>1, <3>2, <3>3, <3>4, FullIsWriting
  <2>2. CASE ~ (k.column >= WIDTH)
    <3>1. k.column \in 0 .. WIDTH /\ WIDTH \in Nat
      BY SizesFit DEF Writing
    <3>2. k.column < WIDTH
      BY <2>2, <3>1
    <3> QED BY <2>2, <3>2
  <2> QED BY <2>1, <2>2
<1> HIDE DEF at
<1>3. Writing(to, c) /\ to.console[c].column < WIDTH
  <2>1. CASE at.console[c].row = RAM_WORDS
    <3>1. Loose(at, c) /\ at.console[c].column \in 0 .. WIDTH
      BY <1>2 DEF Writing
    <3>2. Full(flush(at, c))
      BY <3>1, FlushIsFull
    <3>3. flush(at, c).console[c].column = Within(at.console[c].column, WIDTH)
      BY <3>1, FlushIs, LooseKind
    <3>4. Within(at.console[c].column, WIDTH) = at.console[c].column
      BY <3>1, WithinIs, SizesFit
    <3> QED BY <1>2, <2>1, <3>2, <3>3, <3>4, FullIsWriting
  <2>2. CASE at.console[c].row # RAM_WORDS
    BY <1>2, <2>2
  <2> QED BY <2>1, <2>2
<1> HIDE DEF to
<1> QED BY <1>1, <1>3, QueuedWrites

(* Every character keeps a console that is written to.                     *)
LEMMA CharWrites ==
  ASSUME NEW c \in Line, NEW s, Writing(s, c), NEW ch \in Char
  PROVE  Writing(out_char(s, c, ch), c)
<1> DEFINE k == s.console[c]
<1>1. Loose(s, c) /\ s \in State /\ k \in Kind /\ k.escape \in {"no", "ESC", "ESC ["}
  <2>1. Loose(s, c)
    BY DEF Writing
  <2>2. s \in State /\ k \in Kind
    BY <2>1, LooseKind
  <2> QED BY <2>1, <2>2 DEF Kind
<1>2. ASSUME NEW e \in {"no", "ESC", "ESC ["}
      PROVE  Writing([s EXCEPT !.console[c].escape = e], c)
  <2> DEFINE j == [k EXCEPT !.escape = e]
             u == [s EXCEPT !.console[c] = j]
  <2>1. j \in Kind /\ j.origin = k.origin /\ j.cursor = k.cursor /\ j.row = k.row
        /\ j.column = k.column /\ j.queue = k.queue
    BY <1>1 DEF Kind
  <2>2. [s EXCEPT !.console[c].escape = e] = u
    BY <1>1 DEF State
  <2> HIDE DEF j
  <2>3. Loose(u, c) /\ u.console[c] = j
    BY <1>1, <2>1, LooseMoved
  <2> HIDE DEF u
  <2> QED BY <2>1, <2>2, <2>3 DEF Writing
<1>3. CASE k.escape # "no"
  <2>1. out_char(s, c, ch) = parse_escape(s, c, ch)
    BY <1>3 DEF out_char
  <2>2. CASE k.escape = "ESC" /\ ch = "["
    BY <1>2, <2>1, <2>2 DEF parse_escape
  <2>3. CASE k.escape = "ESC" /\ ch = "M"
    <3>1. out_char(s, c, ch) = do_escape(s, c)
      BY <2>1, <2>3 DEF parse_escape
    <3> QED BY <1>1, <3>1, EscapeFull, FullIsWriting
  <2>4. CASE k.escape = "ESC" /\ ch \notin {"[", "M"}
    BY <1>2, <2>1, <2>4 DEF parse_escape
  <2>5. CASE k.escape = "ESC ["
    <3>1. out_char(s, c, ch) = s
      BY <2>1, <2>5 DEF parse_escape
    <3> QED BY <3>1
  <2> QED BY <1>1, <1>3, <2>2, <2>3, <2>4, <2>5
<1>4. CASE k.escape = "no"
  <2>1. CASE ch = "NL"
    BY <1>1, <1>4, <2>1, NewlineFull, FullIsWriting DEF out_char
  <2>2. CASE ch = "BS"
    BY <1>1, <1>4, <2>2, BackspaceFull, FullIsWriting DEF out_char
  <2>3. CASE ch = "CR"
    <3>1. out_char(s, c, ch) = flush([s EXCEPT !.console[c].column = 0], c)
      BY <1>4, <2>3 DEF out_char
    <3>2. 0 \in Int
      OBVIOUS
    <3>3. Loose([s EXCEPT !.console[c].column = 0], c)
      BY <1>1, <3>2, ColumnSet, Zenon
    <3> QED BY <3>1, <3>3, FlushIsFull, FullIsWriting
  <2>4. CASE ch = "TAB"
    <3>1. k.column \in Nat
      BY SizesFit DEF Writing
    <3> QED BY <1>1, <1>4, <2>4, <3>1, TabFull, FullIsWriting DEF out_char
  <2>5. CASE ch = "ESC"
    <3>1. out_char(s, c, ch) = [flush(s, c) EXCEPT !.console[c].escape = "ESC"]
      BY <1>4, <2>5 DEF out_char
    <3>2. Full([flush(s, c) EXCEPT !.console[c].escape = "ESC"])
      BY <1>1, FlushIsFull, FullEscaped
    <3> QED BY <3>1, <3>2, FullIsWriting
  <2>6. CASE ch \notin {"NL", "BS", "CR", "TAB", "ESC"}
    <3>1. out_char(s, c, ch) = letter(s, c, ch)
      BY <1>4, <2>6 DEF out_char
    <3>2. ch \in Word
      BY <2>6 DEF Char, Word
    <3> QED BY <3>1, <3>2, LetterWrites
  <2> QED BY <2>1, <2>2, <2>3, <2>4, <2>5, <2>6
<1> QED BY <1>3, <1>4

------------------------------------------------------------------------------
(* A text is a fold over its characters.                                   *)
Written(c, s, t) == FoldLeft(LAMBDA u, ch : out_char(u, c, ch), s, t)

(* What goes on while a text is written: g has it after every character.   *)
IsWriting(c, s, t, g) ==
    /\ g[0] = s /\ g[Len(t)] = Written(c, s, t)
    /\ \A k \in 0 .. Len(t) - 1 : g[k + 1] = out_char(g[k], c, t[k + 1])
    /\ \A k \in 0 .. Len(t) : Writing(g[k], c)

(* A text of any length keeps a console that is written to.                *)
LEMMA TextWrites ==
  ASSUME NEW c \in Line, NEW s, Writing(s, c), NEW t \in Seq(Char)
  PROVE  \E g : IsWriting(c, s, t, g)
<1> DEFINE n == Len(t)
           G == {u \in State : Writing(u, c)}
           F == [p \in G \X Char |-> out_char(p[1], c, p[2])]
           IsFold(r) == r = [x \in SUBSET DOMAIN t |->
                               IF x = {} THEN s ELSE out_char(r[x \ {Max(x)}], c, t[Max(x)])]
<1>1. n \in Nat /\ DOMAIN t = 1 .. n /\ t \in [1 .. n -> Char]
  OBVIOUS
<1>2. \A u : Writing(u, c) => u \in G
  BY LooseKind DEF Writing
<1>3. ASSUME NEW u \in G, NEW ch \in Char
      PROVE  out_char(u, c, ch) \in G /\ F[<<u, ch>>] = out_char(u, c, ch)
  <2>1. Writing(out_char(u, c, ch), c)
    BY CharWrites
  <2>2. <<u, ch>> \in G \X Char /\ <<u, ch>>[1] = u /\ <<u, ch>>[2] = ch
    OBVIOUS
  <2> HIDE DEF G
  <2> QED BY <1>2, <2>1, <2>2
<1>4. F \in [G \X Char -> G]
  <2>1. ASSUME NEW p \in G \X Char PROVE out_char(p[1], c, p[2]) \in G
    <3>1. p[1] \in G /\ p[2] \in Char
      BY <2>1
    <3> HIDE DEF G
    <3> QED BY <1>3, <3>1
  <2> HIDE DEF G
  <2> QED BY <2>1
<1>5. s \in G
  BY <1>2
<1> HIDE DEF n, G, F
<1>6. PICK q \in [SUBSET (1 .. n) -> G] : IsChain(n, F, s, t, q)
  BY <1>1, <1>4, <1>5, ChainExists, Zenon
<1> DEFINE P0 == {x \in SUBSET (1 .. n) :
                    q[x] = IF x = {} THEN s ELSE out_char(q[x \ {Max(x)}], c, t[Max(x)])}
<1>7. SUBSET (1 .. n) \subseteq P0
  <2>1. {} \in P0
    BY <1>6 DEF IsChain
  <2>2. ASSUME NEW x \in SUBSET (1 .. n), Max(x) \in x
        PROVE  x \in P0
    <3>1. q[x] = F[<<q[x \ {Max(x)}], t[Max(x)]>>]
      BY <1>6, <2>2 DEF IsChain
    <3>2. q[x \ {Max(x)}] \in G /\ t[Max(x)] \in Char
      BY <1>1, <1>6, <2>2
    <3> QED BY <1>3, <2>2, <3>1, <3>2
  <2> HIDE DEF P0
  <2> QED BY <1>1, <2>1, <2>2, SubsetInduction
<1>8. IsFold(q)
  BY <1>1, <1>6, <1>7
<1>9. PICK r : IsFold(r) /\ Written(c, s, t) = r[DOMAIN t]
  BY <1>8 DEF Written, FoldLeft, MapThenFoldSet
<1> DEFINE P == {x \in SUBSET (1 .. n) : Writing(r[x], c)}
<1>10. SUBSET (1 .. n) \subseteq P
  <2>1. {} \in P
    <3>1. r[{}] = s
      BY <1>9
    <3> QED BY <3>1
  <2>2. ASSUME NEW x \in SUBSET (1 .. n), Max(x) \in x, x \ {Max(x)} \in P
        PROVE  x \in P
    <3>1. r[x] = out_char(r[x \ {Max(x)}], c, t[Max(x)])
      BY <1>1, <1>9, <2>2
    <3>2. Writing(r[x \ {Max(x)}], c) /\ t[Max(x)] \in Char
      BY <1>1, <2>2
    <3>3. Writing(r[x], c)
      BY <3>1, <3>2, CharWrites
    <3> QED BY <3>3
  <2> HIDE DEF P
  <2> QED BY <1>1, <2>1, <2>2, SubsetInduction
<1> DEFINE P1 == {x \in SUBSET (1 .. n) :
                    r[x] = IF x = {} THEN s ELSE F[<<r[x \ {Max(x)}], t[Max(x)]>>]}
<1>11. SUBSET (1 .. n) \subseteq P1
  <2>1. {} \in P1
    BY <1>1, <1>9
  <2>2. ASSUME NEW x \in SUBSET (1 .. n), Max(x) \in x
        PROVE  x \in P1
    <3>1. r[x] = out_char(r[x \ {Max(x)}], c, t[Max(x)])
      BY <1>1, <1>9, <2>2
    <3>2. Writing(r[x \ {Max(x)}], c) /\ t[Max(x)] \in Char
      BY <1>1, <1>10, <2>2
    <3> QED BY <1>2, <1>3, <2>2, <3>1, <3>2
  <2> HIDE DEF P1
  <2> QED BY <1>1, <2>1, <2>2, SubsetInduction
<1>16. IsChain(n, F, s, t, r)
  BY <1>11 DEF IsChain
<1> DEFINE g == [k \in 0 .. n |-> r[1 .. k]]
<1>12. g[0] = s /\ g[n] = Written(c, s, t)
  <2>1. r[1 .. 0] = s
    <3>1. 1 .. 0 = {} /\ {} \in SUBSET (1 .. n)
      OBVIOUS
    <3>2. r[{}] = s
      BY <1>1, <1>9, <3>1
    <3> QED BY <3>1, <3>2
  <2>2. 0 \in 0 .. n /\ n \in 0 .. n /\ Written(c, s, t) = r[1 .. n]
    BY <1>1, <1>9
  <2>3. g[0] = r[1 .. 0] /\ g[n] = r[1 .. n]
    BY <2>2
  <2> QED BY <2>1, <2>2, <2>3
<1>13. ASSUME NEW k \in 0 .. n - 1
       PROVE  g[k + 1] = out_char(g[k], c, t[k + 1])
  <2>1. r[1 .. k + 1] = F[<<r[1 .. k], t[k + 1]>>]
    BY <1>1, <1>16, ChainSteps
  <2>2. 1 .. k \in SUBSET (1 .. n) /\ k \in 0 .. n /\ k + 1 \in 0 .. n /\ k + 1 \in 1 .. n
    BY <1>1
  <2>3. Writing(r[1 .. k], c) /\ t[k + 1] \in Char
    BY <1>1, <1>10, <2>2
  <2>4. F[<<r[1 .. k], t[k + 1]>>] = out_char(r[1 .. k], c, t[k + 1])
    BY <1>2, <1>3, <2>3
  <2> QED BY <2>1, <2>2, <2>4
<1>14. ASSUME NEW k \in 0 .. n
       PROVE  Writing(g[k], c)
  <2>1. 1 .. k \in SUBSET (1 .. n)
    BY <1>1
  <2> QED BY <1>10, <2>1
<1> HIDE DEF g
<1>15. IsWriting(c, s, t, g)
  BY <1>12, <1>13, <1>14 DEF IsWriting, n
<1> QED BY <1>15

(* At the end of a text, which is flushed, everything is in place.         *)
LEMMA PrintedFull ==
  ASSUME NEW c \in Line, NEW s, Full(s), NEW t \in Seq(Char)
  PROVE  Full(Printed(s, c, t))
<1>1. Printed(s, c, t) = flush(Written(c, s, t), c)
  BY DEF Printed, Written
<1>2. Loose(Written(c, s, t), c)
  <2>1. PICK g : IsWriting(c, s, t, g)
    BY FullIsWriting, TextWrites
  <2>2. Len(t) \in 0 .. Len(t)
    OBVIOUS
  <2> QED BY <2>1, <2>2 DEF IsWriting, Writing
<1> QED BY <1>1, <1>2, FlushIsFull

------------------------------------------------------------------------------
(* Where a place of the screen lies behind the origin.                     *)
LEMMA PlaceOnScreen ==
  ASSUME NEW y \in 0 .. LINES - 1, NEW x \in 0 .. WIDTH - 1
  PROVE  /\ y * WIDTH \in Nat /\ y * WIDTH + x \in 0 .. screen_size - 1
         /\ (y + 1) * WIDTH = y * WIDTH + WIDTH
         /\ y < LINES - 1 => y * WIDTH + x < chars
         /\ y = LINES - 1 => y * WIDTH = chars
<1>1. LINES \in Nat \ {0} /\ WIDTH \in Nat \ {0} /\ y \in Nat /\ x \in Nat /\ x < WIDTH
  BY SizesFit
<1>2. y * WIDTH \in Nat /\ (y + 1) * WIDTH = y * WIDTH + WIDTH
  BY <1>1
<1>3. (y + 1) * WIDTH <= LINES * WIDTH
  BY <1>1, ProductGrows
<1>4. LINES * WIDTH = screen_size /\ (LINES - 1) * WIDTH = chars /\ screen_size = chars + WIDTH
  <2>1. LINES * WIDTH = WIDTH * LINES /\ (LINES - 1) * WIDTH = WIDTH * LINES - WIDTH
    BY <1>1
  <2> QED BY <2>1, SizesFit DEF screen_size, chars
<1>5. y < LINES - 1 => (y + 1) * WIDTH <= (LINES - 1) * WIDTH
  BY <1>1, ProductGrows
<1> QED BY <1>1, <1>2, <1>3, <1>4, <1>5, SizesFit

(* What is seen from an origin.                                            *)
View(v, o) == [y \in 0 .. LINES - 1 |-> [x \in 0 .. WIDTH - 1 |-> v[o + y * WIDTH + x]]]

(* What is seen is the same when the words are.                            *)
LEMMA ViewsEqual ==
  ASSUME NEW v, NEW w, NEW o, NEW q,
         \A y \in 0 .. LINES - 1 : \A x \in 0 .. WIDTH - 1 : v[o + y * WIDTH + x] = w[q + y * WIDTH + x]
  PROVE  View(v, o) = View(w, q)
BY DEF View

(* What the first console looks like when nothing waits.                   *)
Looks(s) == LET k == s.console[0] IN
    [text |-> View(s.video, k.origin), row |-> k.row, column |-> k.column, escape |-> k.escape]

(* The other consoles.  What is done on them leaves the first one alone:   *)
(* they lie behind it, and nothing is written before a console's memory.   *)
Apart(s, u) ==
    /\ u.console[0] = s.console[0]
    /\ \A m \in 0 .. VIDEO - 1 : m < limit(0) => u.video[m] = s.video[m]

(* The memory of the other consoles lies behind that of the first.         *)
LEMMA OthersBehind ==
  ASSUME NEW c \in Line, c # 0
  PROVE  limit(0) <= start(c) /\ limit(0) \in Nat /\ start(c) \in Nat
<1>1. 0 \in Line /\ start(c) \in Nat /\ limit(0) \in Nat /\ page_size \in Nat /\ start(0) \in Nat
      /\ limit(0) = start(0) + page_size
  BY ConsolesFit
<1>2. c \in Nat /\ 1 <= c
  BY SizesFit, ConsolesFit DEF Line
<1>3. 1 * page_size <= c * page_size
  BY <1>1, <1>2, ProductGrows
<1>4. start(0) = 0 * page_size /\ start(c) = c * page_size
  BY DEF start
<1>5. limit(0) = 1 * page_size
  BY <1>1, <1>4
<1> QED BY <1>1, <1>3, <1>4, <1>5

(* What a console holds on which something may wait.                       *)
LEMMA BusyKind ==
  ASSUME NEW c \in Line, NEW s, Busy(s, c)
  PROVE  LET k == s.console[c] IN
         /\ s \in State /\ k \in Kind /\ s.video \in [0 .. VIDEO - 1 -> Word]
         /\ k.row \in Int /\ k.column \in Int /\ k.queue \in Seq(Word)
         /\ k.origin \in Nat /\ k.cursor \in Nat /\ start(c) <= k.origin /\ start(c) <= k.cursor
         /\ k.origin + screen_size <= limit(c)
<1> DEFINE k == s.console[c]
<1>1. start(c) \in Nat
  BY ConsolesFit
<1>2. s \in State /\ k \in Kind
  BY DEF Busy, Origins, State
<1>3. /\ k.row \in Int /\ k.column \in Int /\ k.queue \in Seq(Word)
      /\ k.origin \in Int /\ k.cursor \in Int
  BY <1>2, KindIs, Zenon
<1>4. start(c) <= k.cursor /\ start(c) <= k.origin /\ k.origin + screen_size <= limit(c)
  BY DEF Busy, Origins, OriginRight
<1>5. k.origin \in Nat /\ k.cursor \in Nat
  <2> DEFINE o == k.origin
             at == k.cursor
  <2>1. o \in Int /\ at \in Int /\ start(c) <= at /\ start(c) <= o
    BY <1>3, <1>4
  <2> HIDE DEF o, at
  <2>2. o \in Nat /\ at \in Nat
    BY <1>1, <2>1
  <2> QED BY <2>2 DEF o, at
<1>6. s.video \in [0 .. VIDEO - 1 -> Word]
  BY <1>2 DEF State
<1> QED BY <1>2, <1>3, <1>4, <1>5, <1>6 DEF k

(* What leaves the first console alone is not seen there.                  *)
LEMMA ApartLooks ==
  ASSUME NEW s, Rest(s), NEW u, Apart(s, u)
  PROVE  Looks(u) = Looks(s)
<1> DEFINE o == s.console[0].origin
<1>1. 0 \in Line /\ Busy(s, 0) /\ limit(0) \in Nat /\ limit(0) <= VIDEO
  BY RestIsBusy, ConsolesFit
<1>2. o \in Nat /\ o + screen_size <= limit(0)
  BY <1>1, BusyKind, Zenon
<1>3. o + screen_size <= limit(0)
  BY <1>2
<1>4. u.console[0] = s.console[0]
  BY DEF Apart
<1> HIDE DEF o
<1>5. ASSUME NEW y \in 0 .. LINES - 1, NEW x \in 0 .. WIDTH - 1
      PROVE  u.video[o + y * WIDTH + x] = s.video[o + y * WIDTH + x]
  <2>1. y * WIDTH \in Nat /\ y * WIDTH + x \in 0 .. screen_size - 1
    BY PlaceOnScreen
  <2>2. o + y * WIDTH + x \in 0 .. VIDEO - 1 /\ o + y * WIDTH + x < limit(0)
    BY <1>1, <1>2, <1>3, <2>1, SizesFit
  <2> QED BY <2>2 DEF Apart
<1>6. View(u.video, o) = View(s.video, o)
  BY <1>5, ViewsEqual
<1> QED BY <1>4, <1>6 DEF Looks, o

------------------------------------------------------------------------------
(* The keys and the kernel's own calls.                                    *)

(* At the start of its memory: the origin of one console.                  *)
LEMMA OriginZeroed ==
  ASSUME NEW c \in Line, NEW s, Rest(s)
  PROVE  LET u == origin0(s, c) IN
         /\ Rest(u) /\ u.console[c].origin = start(c)
         /\ u.console[c].row = s.console[c].row /\ u.console[c].column = s.console[c].column
         /\ u.console[c].escape = s.console[c].escape
         /\ \/ u.video = Copied(s.video, s.console[c].origin, start(c), screen_size)
            \/ (u.video = s.video /\ s.console[c].origin = start(c))
         /\ \A d \in Line \ {c} : u.console[d] = s.console[d]
         /\ u.software = s.software /\ u.current = s.current
<1> DEFINE k == s.console[c]
           v == Copied(s.video, k.origin, start(c), screen_size)
           b == IF k.origin > start(c)
                THEN [s EXCEPT !.video = v, !.console[c].origin = start(c)] ELSE s
<1>1. /\ s \in State /\ k \in Kind /\ s.video \in [0 .. VIDEO - 1 -> Word]
      /\ start(c) <= k.origin /\ k.origin + screen_size <= limit(c)
  BY DEF Rest, Origins, OriginRight, State
<1>2. k.origin \in Int
  BY <1>1, KindIs, Zenon
<1>3. /\ start(c) \in Nat /\ limit(c) \in Nat /\ limit(c) <= VIDEO
      /\ start(c) + screen_size <= limit(c) /\ VIDEO \in Nat /\ screen_size \in Nat
  BY ConsolesFit, SizesFit
<1>4. v \in [0 .. VIDEO - 1 -> Word]
  <2> DEFINE o == k.origin
  <2>1. o \in Int /\ start(c) <= o /\ o + screen_size <= limit(c)
    BY <1>1, <1>2
  <2> HIDE DEF o
  <2>2. o \in Nat /\ o + screen_size <= VIDEO /\ start(c) <= VIDEO
    BY <1>3, <2>1
  <2>3. Copied(s.video, o, start(c), screen_size) \in [0 .. VIDEO - 1 -> Word]
    BY <1>1, <1>3, <2>2, CopiedKind
  <2> QED BY <2>3 DEF o
<1>5. origin0(s, c) = flush(b, c)
  BY DEF origin0
<1> HIDE DEF v
<1>6. /\ Busy(b, c) /\ b \in State /\ b.console[c].origin = start(c)
      /\ b.console[c].row = k.row /\ b.console[c].column = k.column /\ b.console[c].queue = k.queue
      /\ b.console[c].escape = k.escape /\ b.console[c].cursor = k.cursor
      /\ (b.video = v \/ (b.video = s.video /\ k.origin = start(c)))
      /\ \A d \in Line \ {c} : b.console[d] = s.console[d]
      /\ b.software = s.software /\ b.current = s.current
  <2>1. CASE k.origin > start(c)
    <3> DEFINE j == [k EXCEPT !.origin = start(c)]
               w == [s EXCEPT !.video = v, !.console[c] = j]
    <3>1. b = w
      BY <1>1, <2>1 DEF State
    <3>2. start(c) \in Int
      BY <1>3
    <3>3. j \in Kind /\ j.origin = start(c) /\ j.cursor = k.cursor /\ j.row = k.row /\ j.column = k.column
          /\ j.queue = k.queue /\ j.escape = k.escape
      <4> HIDE DEF k
      <4> QED BY <1>1, <3>2 DEF Kind
    <3> HIDE DEF b, j
    <3>4. w \in State
      BY <1>1, <1>4, <3>3 DEF State
    <3>5. /\ w.software = s.software /\ w.overrun = s.overrun /\ w.current = s.current
          /\ w.at = s.at /\ \A d \in Line \ {c} : w.console[d] = s.console[d]
          /\ w.console[c] = j /\ w.video = v
      BY <1>1 DEF State
    <3> HIDE DEF w
    <3>6. OriginRight(w, c)
      <4>1. start(c) <= k.cursor /\ start(c) <= start(c)
        BY <1>3 DEF Rest, Origins, OriginRight
      <4> HIDE DEF k
      <4> QED BY <1>3, <3>3, <3>5, <4>1 DEF OriginRight
    <3>7. Busy(w, c)
      BY <3>3, <3>4, <3>5, <3>6, BusyKept, RestIsBusy
    <3>8. w \in State /\ w.console[c].origin = start(c) /\ w.video = v
      BY <3>3, <3>4, <3>5
    <3>9. /\ w.console[c].row = k.row /\ w.console[c].column = k.column /\ w.console[c].queue = k.queue
          /\ w.console[c].escape = k.escape /\ w.console[c].cursor = k.cursor
      BY <3>3, <3>5
    <3>10. /\ w.software = s.software /\ w.current = s.current
           /\ \A d \in Line \ {c} : w.console[d] = s.console[d]
      BY <3>5
    <3> HIDE DEF k
    <3> QED BY <3>1, <3>7, <3>8, <3>9, <3>10, Zenon
  <2>2. CASE ~ (k.origin > start(c))
    <3>1. k.origin = start(c)
      <4> DEFINE o == k.origin
      <4>1. o \in Int /\ start(c) <= o /\ ~ (o > start(c))
        BY <1>1, <1>2, <2>2
      <4> HIDE DEF o
      <4>2. o = start(c)
        BY <1>3, <4>1
      <4> QED BY <4>2 DEF o
    <3>2. b = s
      BY <2>2
    <3> HIDE DEF b
    <3> QED BY <1>1, <3>1, <3>2, RestIsBusy
  <2> QED BY <2>1, <2>2
<1> HIDE DEF b
<1>7. Rest(flush(b, c))
  BY <1>6, FlushRests
<1>8. LET u == flush(b, c) IN
      /\ u.console[c].origin = b.console[c].origin
      /\ u.console[c].row = Within(k.row, LINES - 1) /\ u.console[c].column = Within(k.column, WIDTH)
      /\ u.console[c].escape = k.escape /\ u.video = Stored(b.video, k.queue, k.cursor)
      /\ \A d \in Line \ {c} : u.console[d] = b.console[d]
      /\ u.software = b.software /\ u.current = b.current
  BY <1>6, FlushIs
<1>9. Within(k.row, LINES - 1) = k.row /\ Within(k.column, WIDTH) = k.column /\ k.queue = << >>
  <2>1. k.row \in 0 .. LINES - 1 /\ k.column \in 0 .. WIDTH /\ k.queue = << >>
    BY DEF Rest, Still
  <2>2. LINES - 1 \in Nat /\ WIDTH \in Nat /\ k.row \in Int /\ k.column \in Int
    BY <2>1, SizesFit
  <2>3. k.row \in 0 .. LINES - 1 /\ k.column \in 0 .. WIDTH
    BY <2>1
  <2>4. Within(k.row, LINES - 1) = k.row /\ Within(k.column, WIDTH) = k.column
    BY <2>2, <2>3, WithinIs, Zenon
  <2> QED BY <2>1, <2>4
<1>10. Stored(b.video, k.queue, k.cursor) = b.video
  <2>1. b.video \in [0 .. VIDEO - 1 -> Word] /\ k.cursor \in Int
    <3>1. b.video \in [0 .. VIDEO - 1 -> Word]
      BY <1>6 DEF State
    <3>2. k.cursor \in Int
      BY <1>1, KindIs, Zenon
    <3> QED BY <3>1, <3>2
  <2> QED BY <1>9, <2>1, StoredNothing
<1> QED BY <1>5, <1>6, <1>7, <1>8, <1>9, <1>10 DEF v

(* The move to the start of the memory is not seen on the first console.   *)
LEMMA OriginLooks ==
  ASSUME NEW c \in Line, NEW s, Rest(s)
  PROVE  Looks(origin0(s, c)) = Looks(s)
<1> DEFINE u == origin0(s, c)
           k == s.console[c]
           o == k.origin
<1>1. /\ u.console[c].origin = start(c)
      /\ u.console[c].row = k.row /\ u.console[c].column = k.column /\ u.console[c].escape = k.escape
      /\ (u.video = Copied(s.video, o, start(c), screen_size) \/ (u.video = s.video /\ o = start(c)))
      /\ \A d \in Line \ {c} : u.console[d] = s.console[d]
  BY OriginZeroed
<1>2. /\ s.video \in [0 .. VIDEO - 1 -> Word] /\ o \in Nat /\ start(c) <= o /\ o + screen_size <= limit(c)
  BY RestIsBusy, BusyKind
<1>3. /\ start(c) \in Nat /\ limit(c) \in Nat /\ limit(c) <= VIDEO /\ screen_size \in Nat /\ VIDEO \in Nat
      /\ 0 \in Line
  BY ConsolesFit, SizesFit
<1> HIDE DEF u
<1>4. CASE c = 0
  <2>1. View(u.video, start(c)) = View(s.video, o)
    <3> HIDE DEF o
    <3>1. CASE u.video = Copied(s.video, o, start(c), screen_size)
      <4>1. ASSUME NEW y \in 0 .. LINES - 1, NEW x \in 0 .. WIDTH - 1
            PROVE  u.video[start(c) + y * WIDTH + x] = s.video[o + y * WIDTH + x]
        <5> DEFINE i == y * WIDTH + x
        <5>1. y * WIDTH \in Nat /\ i \in 0 .. screen_size - 1
          BY PlaceOnScreen
        <5>2. start(c) + y * WIDTH + x = start(c) + i /\ o + y * WIDTH + x = o + i
          BY <1>2, <1>3, <5>1, SizesFit
        <5> HIDE DEF i
        <5>3. o + screen_size <= VIDEO
          BY <1>2, <1>3
        <5>4. Copied(s.video, o, start(c), screen_size)[start(c) + i] = s.video[o + i]
          <6>1. /\ s.video \in [0 .. VIDEO - 1 -> Word] /\ o \in Nat /\ start(c) \in Nat
                /\ screen_size \in Nat /\ start(c) <= o /\ o + screen_size <= VIDEO
                /\ i \in 0 .. screen_size - 1
            BY <1>2, <1>3, <5>1, <5>3
          <6> QED BY <6>1, CopiedUp, Zenon
        <5> QED BY <3>1, <5>2, <5>4
      <4> QED BY <4>1, ViewsEqual
    <3>2. CASE u.video = s.video /\ o = start(c)
      BY <3>2
    <3> QED BY <1>1, <3>1, <3>2 DEF o
  <2> DEFINE j == u.console[0]
             i == s.console[0]
  <2>2. j.origin = start(c) /\ i.origin = o /\ j.row = i.row /\ j.column = i.column /\ j.escape = i.escape
    BY <1>1, <1>4
  <2>3. /\ Looks(u) = [text |-> View(u.video, j.origin), row |-> j.row, column |-> j.column, escape |-> j.escape]
        /\ Looks(s) = [text |-> View(s.video, i.origin), row |-> i.row, column |-> i.column, escape |-> i.escape]
    BY DEF Looks
  <2> HIDE DEF i, j
  <2>4. View(u.video, j.origin) = View(s.video, i.origin)
    BY <2>1, <2>2
  <2>5. Looks(u) = Looks(s)
    BY <2>2, <2>3, <2>4
  <2> QED BY <2>5 DEF u
<1>5. CASE c # 0
  <2>1. limit(0) <= start(c) /\ limit(0) \in Nat
    BY <1>5, OthersBehind
  <2>2. ASSUME NEW m \in 0 .. VIDEO - 1, m < limit(0)
        PROVE  u.video[m] = s.video[m]
    <3> HIDE DEF o
    <3>1. m < start(c)
      BY <1>3, <2>1, <2>2
    <3>2. Copied(s.video, o, start(c), screen_size)[m] = s.video[m]
      <4>1. /\ s.video \in [0 .. VIDEO - 1 -> Word] /\ o \in Nat /\ start(c) \in Nat
            /\ screen_size \in Nat
        BY <1>2, <1>3
      <4>2. \A w \in 0 .. VIDEO - 1 : w < start(c) => Copied(s.video, o, start(c), screen_size)[w] = s.video[w]
        BY <4>1, CopiedBehind
      <4> QED BY <3>1, <4>2
    <3> QED BY <1>1, <3>2 DEF o
  <2>3. u.console[0] = s.console[0]
    BY <1>1, <1>3, <1>5
  <2>4. Apart(s, u)
    BY <2>2, <2>3 DEF Apart
  <2> QED BY <2>4, ApartLooks DEF u
<1> QED BY <1>4, <1>5 DEF u

(* console_origin0 does it for every console.                              *)
LEMMA OriginsZeroed ==
  ASSUME NEW s, Rest(s)
  PROVE  LET u == console_origin0(s) IN
         /\ Rest(u) /\ \A d \in Line : u.console[d].origin = start(d)
         /\ u.software = s.software /\ u.current = s.current /\ Looks(u) = Looks(s)
<1> DEFINE n == nr_console
           t == [c \in 1 .. n |-> c]
           G == {u \in State : Rest(u)}
           F == [p \in G \X (1 .. n) |-> origin0(p[1], p[2] - 1)]
           IsFold(r) == r = [x \in SUBSET DOMAIN t |->
                               IF x = {} THEN s ELSE origin0(r[x \ {Max(x)}], t[Max(x)] - 1)]
<1>1. n \in Nat /\ DOMAIN t = 1 .. n /\ t \in [1 .. n -> 1 .. n] /\ Line = 0 .. n - 1
  BY ConsolesFit DEF Line
<1>2. \A u : Rest(u) => u \in G
  BY DEF Rest, Origins
<1>3. \A i \in 1 .. n : t[i] = i
  OBVIOUS
<1>4. \A i \in 1 .. n : i - 1 \in Line
  BY <1>1
<1> HIDE DEF t, n
<1>5. ASSUME NEW u \in G, NEW i \in 1 .. n
      PROVE  origin0(u, i - 1) \in G /\ F[<<u, i>>] = origin0(u, i - 1)
  <2>1. Rest(origin0(u, i - 1))
    BY <1>4, OriginZeroed
  <2>2. <<u, i>> \in G \X (1 .. n) /\ <<u, i>>[1] = u /\ <<u, i>>[2] = i
    OBVIOUS
  <2> HIDE DEF G
  <2> QED BY <1>2, <2>1, <2>2
<1>6. F \in [G \X (1 .. n) -> G]
  <2>1. ASSUME NEW p \in G \X (1 .. n) PROVE origin0(p[1], p[2] - 1) \in G
    <3>1. p[1] \in G /\ p[2] \in 1 .. n
      BY <2>1
    <3> HIDE DEF G
    <3> QED BY <1>5, <3>1
  <2> HIDE DEF G
  <2> QED BY <2>1
<1>7. s \in G
  BY <1>2
<1> HIDE DEF G, F
<1>8. PICK q \in [SUBSET (1 .. n) -> G] : IsChain(n, F, s, t, q)
  BY <1>1, <1>6, <1>7, ChainExists, Zenon
<1> DEFINE P0 == {x \in SUBSET (1 .. n) :
                    q[x] = IF x = {} THEN s ELSE origin0(q[x \ {Max(x)}], t[Max(x)] - 1)}
<1>9. SUBSET (1 .. n) \subseteq P0
  <2>1. {} \in P0
    BY <1>8 DEF IsChain
  <2>2. ASSUME NEW x \in SUBSET (1 .. n), Max(x) \in x
        PROVE  x \in P0
    <3>1. q[x] = F[<<q[x \ {Max(x)}], t[Max(x)]>>]
      BY <1>8, <2>2 DEF IsChain
    <3>2. q[x \ {Max(x)}] \in G /\ t[Max(x)] \in 1 .. n
      BY <1>1, <1>8, <2>2
    <3> QED BY <1>5, <2>2, <3>1, <3>2
  <2> HIDE DEF P0
  <2> QED BY <1>1, <2>1, <2>2, SubsetInduction
<1>10. IsFold(q)
  BY <1>1, <1>8, <1>9
<1>11. console_origin0(s) = FoldLeft(LAMBDA u, c : origin0(u, c - 1), s, t)
  BY DEF console_origin0, t, n
<1>12. PICK r : IsFold(r) /\ console_origin0(s) = r[DOMAIN t]
  BY <1>10, <1>11 DEF FoldLeft, MapThenFoldSet
<1> DEFINE Done(u, x) == /\ Rest(u) /\ u.software = s.software /\ u.current = s.current /\ Looks(u) = Looks(s)
                         /\ \A d \in Line : d + 1 \in x => u.console[d].origin = start(d)
           P == {x \in SUBSET (1 .. n) : Done(r[x], x)}
<1>13. SUBSET (1 .. n) \subseteq P
  <2>1. {} \in P
    <3>1. r[{}] = s
      BY <1>12
    <3> QED BY <3>1
  <2>2. ASSUME NEW x \in SUBSET (1 .. n), Max(x) \in x, x \ {Max(x)} \in P
        PROVE  x \in P
    <3> DEFINE m == Max(x)
               u == r[x \ {m}]
    <3>1. m \in 1 .. n /\ m \in x /\ t[m] = m /\ m - 1 \in Line
      BY <1>3, <1>4, <2>2
    <3>2. r[x] = origin0(u, t[m] - 1)
      BY <1>1, <1>12, <2>2
    <3>3. Done(u, x \ {m})
      BY <2>2
    <3> HIDE DEF m, u
    <3>4. r[x] = origin0(u, m - 1)
      BY <3>1, <3>2
    <3> DEFINE w == origin0(u, m - 1)
    <3>5. /\ Rest(w) /\ w.console[m - 1].origin = start(m - 1)
          /\ \A d \in Line \ {m - 1} : w.console[d] = u.console[d]
          /\ w.software = u.software /\ w.current = u.current
      BY <3>1, <3>3, OriginZeroed
    <3>8. Looks(w) = Looks(u)
      BY <3>1, <3>3, OriginLooks
    <3> HIDE DEF w
    <3>6. ASSUME NEW d \in Line, d + 1 \in x
          PROVE  w.console[d].origin = start(d)
      <4>1. CASE d = m - 1
        BY <3>5, <4>1
      <4>2. CASE d # m - 1
        <5>1. d + 1 # m
          BY <1>1, <3>1, <4>2
        <5> QED BY <3>3, <3>5, <3>6, <4>2, <5>1
      <4> QED BY <4>1, <4>2
    <3>7. Done(w, x)
      BY <3>3, <3>5, <3>6, <3>8
    <3> HIDE DEF Done
    <3> QED BY <3>4, <3>7 DEF w
  <2> HIDE DEF P
  <2> QED BY <1>1, <2>1, <2>2, SubsetInduction
<1>14. Done(r[1 .. n], 1 .. n)
  BY <1>13
<1>15. \A d \in Line : d + 1 \in 1 .. n
  BY <1>1
<1> QED BY <1>1, <1>12, <1>14, <1>15

(* The controller shows a console: its origin and its cursor.              *)
LEMMA SeenFull ==
  ASSUME NEW c \in Line, NEW s, Rest(s)
  PROVE  LET u == Seen(s, c) IN
         Full(u) /\ u.console = s.console /\ u.software = s.software /\ u.current = c
<1> DEFINE u == Seen(s, c)
<1>1. s \in State /\ s.console[c] \in Kind
  BY DEF Rest, Origins, State
<1>2. s.console[c].cursor \in Int /\ s.console[c].origin \in Int
  BY <1>1, KindIs, Zenon
<1>3. u \in State
  BY <1>1, <1>2 DEF Seen, State
<1>4. /\ u.console = s.console /\ u.software = s.software /\ u.overrun = s.overrun
      /\ u.current = c /\ u.at = s.console[c].cursor /\ u.org = s.console[c].origin
  BY <1>1 DEF Seen, State
<1> HIDE DEF u
<1>5. \A d \in Line : OriginRight(u, d) /\ Still(u, d)
  BY <1>4 DEF Rest, Origins, OriginRight, Still
<1>6. Full(u)
  BY <1>3, <1>4, <1>5 DEF Full, Rest, Origins, OrgRight
<1> QED BY <1>4, <1>6 DEF u

(* With all origins at the start, scrolling may be done in either way.     *)
LEMMA SoftwareSet ==
  ASSUME NEW s, Full(s), \A d \in Line : s.console[d].origin = start(d), NEW b \in BOOLEAN
  PROVE  Full([s EXCEPT !.software = b])
<1> DEFINE u == [s EXCEPT !.software = b]
<1>1. s \in State
  BY DEF Full, Rest, Origins
<1>2. u \in State
  BY <1>1 DEF State
<1>3. /\ u.console = s.console /\ u.overrun = s.overrun /\ u.current = s.current
      /\ u.at = s.at /\ u.org = s.org
  BY <1>1 DEF State
<1> HIDE DEF u
<1>4. \A d \in Line : OriginRight(u, d) /\ Still(u, d)
  BY <1>3 DEF Full, Rest, Origins, OriginRight, Still
<1>5. Full(u)
  BY <1>2, <1>3, <1>4 DEF Full, Rest, Origins, OrgRight
<1> QED BY <1>5 DEF u

(* clear_screen blanks from the origin and puts the cursor there.          *)
LEMMA ClearedFull ==
  ASSUME NEW c \in Line, NEW s, Full(s)
  PROVE  Full(Cleared(s, c))
<1> DEFINE k == s.console[c]
           j == [k EXCEPT !.row = 0, !.column = 0]
           v == Blanked(s.video, k.origin)
           b == [s EXCEPT !.video = v, !.console[c] = j]
<1>1. s \in State /\ k \in Kind /\ s.video \in [0 .. VIDEO - 1 -> Word]
  BY DEF Full, Rest, Origins, State
<1>2. k.origin \in Int
  BY <1>1, KindIs, Zenon
<1>3. v \in [0 .. VIDEO - 1 -> Word]
  BY <1>1, <1>2, BlankedKind
<1>4. Cleared(s, c) = flush(b, c)
  BY <1>1 DEF Cleared, State
<1>5. j \in Kind /\ j.origin = k.origin /\ j.cursor = k.cursor
  <2>1. PICK z \in Int : z = 0
    OBVIOUS
  <2>2. j = [k EXCEPT !.row = z, !.column = z]
    BY <2>1
  <2> HIDE DEF k, j
  <2> QED BY <1>1, <2>2 DEF Kind
<1> HIDE DEF j, v
<1>6. b \in State
  BY <1>1, <1>3, <1>5 DEF State
<1>7. /\ b.software = s.software /\ b.overrun = s.overrun /\ b.current = s.current
      /\ b.at = s.at /\ b.org = s.org /\ b.console[c] = j
      /\ \A d \in Line \ {c} : b.console[d] = s.console[d]
  BY <1>1 DEF State
<1> HIDE DEF b
<1>8. OriginRight(b, c)
  BY <1>5, <1>7 DEF OriginRight, Full, Rest, Origins
<1>9. Busy(b, c)
  <2>1. Busy(s, c)
    BY RestIsBusy DEF Full
  <2> QED BY <1>5, <1>6, <1>7, <1>8, <2>1, BusyKept
<1>10. OrgRight(b)
  <2>1. s.current \in Line
    BY <1>1 DEF State
  <2> QED BY <1>5, <1>7, <2>1 DEF OrgRight, Full
<1> QED BY <1>4, <1>9, <1>10, FlushIsFull DEF Loose

------------------------------------------------------------------------------
ScreensInv == Full(Here)

(* Everything is in place at the start.                                    *)
LEMMA ScreensInitially == ConsoleInit => ScreensInv
<1> SUFFICES ASSUME ConsoleInit PROVE ScreensInv
  OBVIOUS
<1> DEFINE s == Here
<1>1. /\ s.video = [w \in 0 .. VIDEO - 1 |-> Blank]
      /\ s.console = [c \in Line |-> [row |-> 0, column |-> 0, queue |-> << >>, origin |-> start(c),
                                      cursor |-> start(c), escape |-> "no"]]
      /\ s.org = 0 /\ s.at = 0 /\ s.current = 0 /\ s.software = FALSE /\ s.overrun = FALSE
  BY DEF ConsoleInit, Here
<1>2. << >> \in Seq(Word)
  OBVIOUS
<1>3. \A c \in Line : start(c) \in Int
  BY ConsolesFit
<1>4. s.console \in [Line -> Kind]
  BY <1>1, <1>2, <1>3 DEF Kind
<1>5. s.video \in [0 .. VIDEO - 1 -> Word]
  BY <1>1 DEF Word
<1>6. 0 \in Line /\ start(0) = 0
  BY ConsolesFit DEF start
<1>7. s \in State
  <2>1. /\ video \in [0 .. VIDEO - 1 -> Word] /\ console \in [Line -> Kind]
        /\ video_org \in Int /\ video_cursor \in Int /\ current \in Line
        /\ software_scroll \in BOOLEAN /\ overrun \in BOOLEAN
    <3>1. s.console = console /\ s.video = video
      BY DEF Here
    <3>2. /\ video_org = 0 /\ video_cursor = 0 /\ current = 0
          /\ software_scroll = FALSE /\ overrun = FALSE
      BY DEF ConsoleInit
    <3> HIDE DEF s
    <3>3. software_scroll \in BOOLEAN /\ overrun \in BOOLEAN
      BY <3>2, Zenon
    <3>4. video \in [0 .. VIDEO - 1 -> Word] /\ console \in [Line -> Kind]
      BY <1>4, <1>5, <3>1, Zenon
    <3>5. video_org \in Int /\ video_cursor \in Int /\ current \in Line
      BY <1>6, <3>2
    <3> QED BY <3>3, <3>4, <3>5, Zenon
  <2> QED BY <2>1 DEF Here, State
<1>8. ASSUME NEW c \in Line
      PROVE  OriginRight(s, c) /\ Still(s, c)
  <2>1. /\ s.console[c].row = 0 /\ s.console[c].column = 0 /\ s.console[c].queue = << >>
        /\ s.console[c].origin = start(c) /\ s.console[c].cursor = start(c)
    BY <1>1
  <2>2. start(c) + screen_size <= limit(c) /\ start(c) \in Nat /\ 0 \in 0 .. LINES - 1 /\ 0 \in 0 .. WIDTH
    BY ConsolesFit, SizesFit
  <2>3. start(c) = start(c) + 0 * WIDTH + 0
    BY <2>2, SizesFit
  <2>4. start(c) <= start(c)
    BY <2>2
  <2> HIDE DEF s
  <2> QED BY <2>1, <2>2, <2>3, <2>4 DEF OriginRight, Still
<1>9. s.console[0].cursor = 0 /\ s.console[0].origin = 0
  BY <1>1, <1>6
<1>10. Full(s)
  <2> HIDE DEF s
  <2> QED BY <1>1, <1>7, <1>8, <1>9 DEF Full, Rest, Origins, OrgRight
<1> QED BY <1>10 DEF ScreensInv

(* A call leaves what its routine computes.                                *)
LEMMA BecomesFull ==
  ASSUME NEW s, Full(s), Becomes(s)
  PROVE  ScreensInv'
<1> DEFINE h == [video |-> video', console |-> console', org |-> video_org', at |-> video_cursor',
                 current |-> current', software |-> software_scroll', overrun |-> overrun']
<1>1. s \in State
  BY DEF Full, Rest, Origins
<1>2. /\ h.video = s.video /\ h.console = s.console /\ h.org = s.org /\ h.at = s.at
      /\ h.current = s.current /\ h.software = s.software /\ h.overrun = s.overrun
  BY DEF Becomes
<1>3. h \in State
  BY <1>1 DEF State, Becomes
<1> HIDE DEF h
<1>4. \A d \in Line : OriginRight(h, d) /\ Still(h, d)
  BY <1>2 DEF Full, Rest, Origins, OriginRight, Still
<1>5. Full(h)
  BY <1>2, <1>3, <1>4 DEF Full, Rest, Origins, OrgRight
<1>6. Here' = h
  BY DEF Here, h
<1>7. Full(Here)' = Full(h)
  BY <1>6 DEF Full, Rest, Origins, OrgRight, OriginRight, Still
<1> QED BY <1>5, <1>7 DEF ScreensInv

(* Every call leaves everything in place.                                  *)
LEMMA ScreensStep ==
  ASSUME ScreensInv, [ConsoleNext]_consoleVars
  PROVE  ScreensInv'
<1>1. Full(Here) /\ Rest(Here)
  BY DEF ScreensInv, Full
<1>2. CASE \E c \in Line : \E t \in Text[c] : write(c, t)
  <2>1. PICK c \in Line : \E t \in Text[c] : write(c, t)
    BY <1>2
  <2>2. PICK t \in Text[c] : write(c, t)
    BY <2>1
  <2>3. t \in Seq(Char)
    <3>1. c \in 0 .. NR_CONSOLES - 1
      BY ConsolesFit, SizesFit DEF Line
    <3> QED BY <3>1, ScreenAssumption
  <2> QED BY <1>1, <2>2, <2>3, PrintedFull, BecomesFull DEF write
<1>3. CASE \E c \in Line : switch_to(c)
  BY <1>1, <1>3, SeenFull, BecomesFull DEF switch_to
<1>4. current \in Line /\ software_scroll \in BOOLEAN
  BY <1>1 DEF Rest, Origins, State, Here
<1> DEFINE z == console_origin0(Here)
<1>5. Rest(z) /\ (\A d \in Line : z.console[d].origin = start(d)) /\ z.software = software_scroll
  <2>1. Here.software = software_scroll
    BY DEF Here
  <2> QED BY <1>1, <2>1, OriginsZeroed
<1> HIDE DEF z
<1>6. ASSUME NEW c \in Line
      PROVE  LET u == Seen(z, c) IN
             Full(u) /\ (\A d \in Line : u.console[d].origin = start(d)) /\ u.software = software_scroll
  BY <1>5, SeenFull
<1>7. CASE toggle_scroll
  <2> DEFINE u == Seen(z, current)
             w == [u EXCEPT !.software = ~@]
  <2>1. Full(u) /\ (\A d \in Line : u.console[d].origin = start(d)) /\ u.software = software_scroll
    BY <1>4, <1>6
  <2>2. w = [u EXCEPT !.software = ~ software_scroll]
    BY <2>1
  <2> HIDE DEF u
  <2>3. Full(w)
    <3>1. (~ software_scroll) \in BOOLEAN
      OBVIOUS
    <3>2. Full([u EXCEPT !.software = ~ software_scroll])
      BY <2>1, <3>1, SoftwareSet
    <3> QED BY <2>2, <3>2
  <2> HIDE DEF w
  <2>4. Notice \in Seq(Char)
    BY ScreenAssumption
  <2>5. Full(Printed(w, 0, Notice))
    BY <2>3, <2>4, PrintedFull, ConsolesFit
  <2>6. Becomes(Printed(w, 0, Notice))
    BY <1>7 DEF toggle_scroll, w, u, z
  <2> QED BY <2>5, <2>6, BecomesFull
<1>8. CASE console_stop
  <2> DEFINE u == Seen(z, 0)
  <2>1. Full(u) /\ (\A d \in Line : u.console[d].origin = start(d))
    BY <1>6, ConsolesFit
  <2>2. Becomes([u EXCEPT !.software = TRUE])
    BY <1>8 DEF console_stop, z
  <2> HIDE DEF u
  <2>3. Full([u EXCEPT !.software = TRUE])
    BY <2>1, SoftwareSet
  <2> QED BY <2>2, <2>3, BecomesFull
<1>9. CASE clear_screen
  BY <1>1, <1>4, <1>9, ClearedFull, BecomesFull DEF clear_screen
<1>10. CASE blue_screen
  <2>1. Full(Seen(Here, 0))
    BY <1>1, SeenFull, ConsolesFit
  <2> QED BY <1>10, <2>1, ClearedFull, BecomesFull, ConsolesFit DEF blue_screen
<1>11. CASE UNCHANGED consoleVars
  <2>1. Becomes(Here)
    BY <1>11 DEF consoleVars, Becomes, Here
  <2> QED BY <1>1, <2>1, BecomesFull
<1> QED BY <1>2, <1>3, <1>7, <1>8, <1>9, <1>10, <1>11 DEF ConsoleNext

(* The invariant implies the property.                                     *)
LEMMA ScreensRight == ScreensInv => ScreensInPlace
<1> SUFFICES ASSUME ScreensInv PROVE ScreensInPlace
  OBVIOUS
<1> DEFINE s == Here
<1>1. /\ s.video = video /\ s.console = console /\ s.org = video_org /\ s.at = video_cursor
      /\ s.current = current /\ s.software = software_scroll /\ s.overrun = overrun
  BY DEF Here
<1>2. Full(s)
  BY DEF ScreensInv
<1> HIDE DEF s
<1>3. s \in State /\ \A c \in Line : OriginRight(s, c) /\ Still(s, c)
  BY <1>2 DEF Full, Rest, Origins
<1>4. video \in [0 .. VIDEO - 1 -> Word] /\ current \in Line /\ software_scroll \in BOOLEAN
      /\ console \in [Line -> Kind]
  BY <1>1, <1>3 DEF State
<1>5. \A c \in Line : console[c].escape \in {"no", "ESC", "ESC ["}
  BY <1>4, KindIs, Zenon
<1>6. ConsoleTyped
  BY <1>1, <1>3, <1>4, <1>5 DEF ConsoleTyped, Still, Word
<1> QED BY <1>1, <1>2, <1>3, <1>6 DEF ScreensInPlace, OriginRight, Still, Full, Rest, Origins, OrgRight

(* For any number of consoles, screen and size of the video memory.        *)
THEOREM ScreensStayInPlace == ConsoleSpec => []ScreensInPlace
<1>1. ScreensInv /\ [ConsoleNext]_consoleVars => ScreensInv'
  BY ScreensStep
<1> QED BY <1>1, ScreensInitially, ScreensRight, PTL DEF ConsoleSpec

------------------------------------------------------------------------------
(* The first console implements Screen (FirstIsScreen).  Between two       *)
(* characters of a text the driver holds back what is in its queue and has *)
(* not told the adapter where the cursor is.  Draw says that a screen      *)
(* shows the video memory from the origin on with the queue in its place,  *)
(* Sim that the queue also ends where the next character goes.  One        *)
(* character keeps Sim (CharShown), a text is one fold beside another      *)
(* (TextShown), and at rest one screen only is in Sim, Looks.  A text of   *)
(* another console and the keys that switch and scroll leave the first     *)
(* one's memory alone (Apart), or move only where it is looked at from.    *)


(* Two places of the screen are apart in the memory.                       *)
LEMMA PlacesApart ==
  ASSUME NEW y \in 0 .. LINES - 1, NEW x \in 0 .. WIDTH - 1,
         NEW r \in 0 .. LINES - 1, NEW z \in 0 .. WIDTH - 1
  PROVE  y * WIDTH + x = r * WIDTH + z => y = r /\ x = z
<1>1. /\ y * WIDTH \in Nat /\ r * WIDTH \in Nat /\ WIDTH \in Nat
      /\ (y + 1) * WIDTH = y * WIDTH + WIDTH /\ (r + 1) * WIDTH = r * WIDTH + WIDTH
  BY PlaceOnScreen, SizesFit
<1>2. y < r => (y + 1) * WIDTH <= r * WIDTH
  BY ProductGrows, SizesFit
<1>3. r < y => (r + 1) * WIDTH <= y * WIDTH
  BY ProductGrows, SizesFit
<1>4. CASE y < r
  BY <1>1, <1>2, <1>4
<1>5. CASE r < y
  BY <1>1, <1>3, <1>5
<1>6. CASE y = r
  <2>1. y * WIDTH = r * WIDTH
    BY <1>6
  <2> QED BY <1>1, <1>6, <2>1
<1> QED BY <1>4, <1>5, <1>6, SizesFit

------------------------------------------------------------------------------
Texts == [0 .. LINES - 1 -> [0 .. WIDTH - 1 -> Word]]

(* What is seen from an origin with room behind it is a text.              *)
LEMMA ViewKind ==
  ASSUME NEW v \in [0 .. VIDEO - 1 -> Word], NEW o \in Nat, o + screen_size <= VIDEO
  PROVE  View(v, o) \in Texts
<1>1. ASSUME NEW y \in 0 .. LINES - 1, NEW x \in 0 .. WIDTH - 1
      PROVE  v[o + y * WIDTH + x] \in Word
  <2>1. y * WIDTH \in Nat /\ y * WIDTH + x \in 0 .. screen_size - 1
    BY PlaceOnScreen
  <2>2. o + y * WIDTH + x \in 0 .. VIDEO - 1
    BY <2>1, SizesFit
  <2> QED BY <2>2
<1> QED BY <1>1 DEF View, Texts

(* One word more behind those that are stored.                             *)
LEMMA StoredOneMore ==
  ASSUME NEW v \in [0 .. VIDEO - 1 -> Word], NEW q \in Seq(Word), NEW ch \in Word, NEW dest \in Int,
         NEW w \in 0 .. VIDEO - 1
  PROVE  Stored(v, Append(q, ch), dest)[w] =
            IF w = dest + Len(q) THEN ch ELSE Stored(v, q, dest)[w]
<1> DEFINE n == Len(q)
           i == w - dest
<1>1. n \in Nat /\ i \in Int /\ Len(Append(q, ch)) = n + 1 /\ DOMAIN v = 0 .. VIDEO - 1
  BY SizesFit
<1>2. Stored(v, Append(q, ch), dest)[w] =
        IF i \in 0 .. (n + 1) - 1 THEN Append(q, ch)[i + 1] ELSE v[w]
  BY <1>1 DEF Stored
<1>3. Stored(v, q, dest)[w] = IF i \in 0 .. n - 1 THEN q[i + 1] ELSE v[w]
  BY <1>1 DEF Stored
<1>4. i = n => Append(q, ch)[i + 1] = ch
  BY <1>1
<1>5. i \in 0 .. n - 1 => Append(q, ch)[i + 1] = q[i + 1]
  <2>1. ASSUME i \in 0 .. n - 1 PROVE i + 1 \in 1 .. Len(q)
    BY <1>1, <2>1
  <2> QED BY <2>1
<1>6. w = dest + Len(q) <=> i = n
  BY <1>1, SizesFit
<1> HIDE DEF n, i
<1> QED BY <1>1, <1>2, <1>3, <1>4, <1>5, <1>6

Up(text) == [y \in 0 .. LINES - 1 |-> IF y = LINES - 1 THEN [x \in 0 .. WIDTH - 1 |-> Blank] ELSE text[y + 1]]

(* The three ways to scroll up, looked at: the lines move up and the last  *)
(* one is blank.                                                           *)
LEMMA BlankedLast ==
  ASSUME NEW v \in [0 .. VIDEO - 1 -> Word], NEW old \in [0 .. VIDEO - 1 -> Word],
         NEW o \in Nat, NEW was \in Nat, o + screen_size <= VIDEO, was + screen_size <= VIDEO,
         \A i \in 0 .. chars - 1 : v[o + i] = old[was + WIDTH + i]
  PROVE  View(Blanked(v, o + chars), o) = Up(View(old, was))
<1> DEFINE b == Blanked(v, o + chars)
<1>1. chars \in Nat /\ chars = screen_size - WIDTH /\ WIDTH \in Nat \ {0} /\ LINES \in Nat \ {0}
      /\ screen_size \in Nat /\ VIDEO \in Nat
  BY SizesFit
<1>2. \A w \in 0 .. VIDEO - 1 : b[w] = IF w - (o + chars) \in 0 .. screen_size - 1 THEN Blank ELSE v[w]
  BY DEF Blanked
<1> HIDE DEF b
<1>3. ASSUME NEW y \in 0 .. LINES - 1
      PROVE  View(b, o)[y] = IF y = LINES - 1 THEN [x \in 0 .. WIDTH - 1 |-> Blank] ELSE View(old, was)[y + 1]
  <2>1. View(b, o)[y] = [x \in 0 .. WIDTH - 1 |-> b[o + y * WIDTH + x]]
    BY DEF View
  <2>2. CASE y = LINES - 1
    <3>1. ASSUME NEW x \in 0 .. WIDTH - 1
          PROVE  b[o + y * WIDTH + x] = Blank
      <4>1. y * WIDTH = chars /\ y * WIDTH + x \in 0 .. screen_size - 1
        BY <2>2, PlaceOnScreen
      <4>2. o + y * WIDTH + x \in 0 .. VIDEO - 1 /\ (o + y * WIDTH + x) - (o + chars) \in 0 .. screen_size - 1
        BY <1>1, <4>1
      <4> QED BY <1>2, <4>2
    <3> QED BY <2>1, <2>2, <3>1
  <2>3. CASE y # LINES - 1
    <3>1. y + 1 \in 0 .. LINES - 1 /\ y < LINES - 1
      BY <1>1, <2>3
    <3>2. View(old, was)[y + 1] = [x \in 0 .. WIDTH - 1 |-> old[was + (y + 1) * WIDTH + x]]
      BY <3>1 DEF View
    <3>3. ASSUME NEW x \in 0 .. WIDTH - 1
          PROVE  b[o + y * WIDTH + x] = old[was + (y + 1) * WIDTH + x]
      <4> DEFINE i == y * WIDTH + x
      <4>1. y * WIDTH \in Nat /\ i \in 0 .. chars - 1 /\ (y + 1) * WIDTH = y * WIDTH + WIDTH
        <5>1. /\ y * WIDTH \in Nat /\ (y + 1) * WIDTH = y * WIDTH + WIDTH
              /\ i \in 0 .. screen_size - 1 /\ (y < LINES - 1 => i < chars)
          BY PlaceOnScreen
        <5> HIDE DEF i
        <5> QED BY <1>1, <3>1, <5>1
      <4>2. /\ o + y * WIDTH + x = o + i /\ was + (y + 1) * WIDTH + x = was + WIDTH + i
            /\ o + i \in 0 .. VIDEO - 1 /\ (o + i) - (o + chars) \notin 0 .. screen_size - 1
        BY <1>1, <4>1
      <4> HIDE DEF i
      <4>3. b[o + i] = v[o + i]
        BY <1>2, <4>2
      <4>4. v[o + i] = old[was + WIDTH + i]
        BY <4>1
      <4> QED BY <4>2, <4>3, <4>4
    <3> QED BY <2>1, <2>3, <3>2, <3>3
  <2> QED BY <2>2, <2>3
<1>4. View(b, o) = [y \in 0 .. LINES - 1 |-> View(b, o)[y]]
  BY DEF View
<1>5. View(b, o) = Up(View(old, was))
  <2> DEFINE d == View(b, o)
             e == View(old, was)
  <2>1. d = [y \in 0 .. LINES - 1 |-> d[y]]
    BY <1>4
  <2>2. \A y \in 0 .. LINES - 1 :
           d[y] = IF y = LINES - 1 THEN [x \in 0 .. WIDTH - 1 |-> Blank] ELSE e[y + 1]
    BY <1>3
  <2> HIDE DEF d, e
  <2>3. d = Up(e)
    BY <2>1, <2>2 DEF Up
  <2> QED BY <2>3 DEF d, e
<1> QED BY <1>5 DEF b

(* A whole screen that is blanked is seen blank.                           *)
LEMMA BlankedAll ==
  ASSUME NEW v \in [0 .. VIDEO - 1 -> Word], NEW o \in Nat, o + screen_size <= VIDEO
  PROVE  View(Blanked(v, o), o) = [y \in 0 .. LINES - 1 |-> [x \in 0 .. WIDTH - 1 |-> Blank]]
<1> DEFINE b == Blanked(v, o)
<1>1. \A w \in 0 .. VIDEO - 1 : b[w] = IF w - o \in 0 .. screen_size - 1 THEN Blank ELSE v[w]
  BY DEF Blanked
<1> HIDE DEF b
<1>2. ASSUME NEW y \in 0 .. LINES - 1, NEW x \in 0 .. WIDTH - 1
      PROVE  b[o + y * WIDTH + x] = Blank
  <2>1. y * WIDTH \in Nat /\ y * WIDTH + x \in 0 .. screen_size - 1
    BY PlaceOnScreen
  <2>2. o + y * WIDTH + x \in 0 .. VIDEO - 1 /\ (o + y * WIDTH + x) - o \in 0 .. screen_size - 1
    BY <2>1, SizesFit
  <2> QED BY <1>1, <2>2
<1>3. View(b, o) = [y \in 0 .. LINES - 1 |-> [x \in 0 .. WIDTH - 1 |-> Blank]]
  BY <1>2 DEF View
<1> QED BY <1>3 DEF b

------------------------------------------------------------------------------
(* The abstract screen.                                                    *)
AScreen == [text : Texts, row : 0 .. LINES - 1, column : 0 .. WIDTH, escape : {"no", "ESC", "ESC ["}]

BlankScreen == [y \in 0 .. LINES - 1 |-> [x \in 0 .. WIDTH - 1 |-> Blank]]

(* What a screen holds.                                                    *)
LEMMA AScreenIs ==
  ASSUME NEW a \in AScreen
  PROVE  /\ a.text \in Texts /\ a.row \in 0 .. LINES - 1 /\ a.column \in 0 .. WIDTH
         /\ a.escape \in {"no", "ESC", "ESC ["} /\ a.row \in Nat /\ a.column \in Nat
<1>1. a.text \in Texts /\ a.row \in 0 .. LINES - 1 /\ a.column \in 0 .. WIDTH
      /\ a.escape \in {"no", "ESC", "ESC ["}
  BY DEF AScreen
<1>2. \A n : \A x \in 0 .. n : x \in Nat
  OBVIOUS
<1> QED BY <1>1, <1>2, Zenon

(* A text that moves up is a text.                                         *)
LEMMA UpKind ==
  ASSUME NEW tx \in Texts
  PROVE  Up(tx) \in Texts
<1>1. ASSUME NEW y \in 0 .. LINES - 1
      PROVE  (IF y = LINES - 1 THEN [x \in 0 .. WIDTH - 1 |-> Blank] ELSE tx[y + 1])
                \in [0 .. WIDTH - 1 -> Word]
  <2>1. CASE y = LINES - 1
    BY <2>1 DEF Word
  <2>2. CASE y # LINES - 1
    <3>1. y + 1 \in 0 .. LINES - 1
      BY <2>2, SizesFit
    <3> QED BY <2>2, <3>1 DEF Texts
  <2> QED BY <2>1, <2>2
<1> QED BY <1>1 DEF Up, Texts

(* What a line feed makes of a screen.                                     *)
LEMMA FedIs ==
  ASSUME NEW a \in AScreen
  PROVE  LET b == FirstScreen!Fed(a) IN
         /\ b \in AScreen /\ b.column = a.column /\ b.escape = a.escape
         /\ a.row = LINES - 1 => b.row = a.row /\ b.text = Up(a.text)
         /\ a.row # LINES - 1 => b.row = a.row + 1 /\ b.text = a.text
<1>1. /\ a.text \in Texts /\ a.row \in 0 .. LINES - 1
  BY AScreenIs
<1>2. CASE a.row = LINES - 1
  <2> DEFINE u == Up(a.text)
             b == [a EXCEPT !.text = u]
  <2>1. FirstScreen!Fed(a) = b
    BY <1>2 DEF FirstScreen!Fed, Up, AScreen, FirstScreen!Row, FirstScreen!BlankRow, FirstScreen!Column
  <2>2. u \in Texts
    BY <1>1, UpKind
  <2> HIDE DEF u
  <2>3. b \in AScreen /\ b.column = a.column /\ b.escape = a.escape /\ b.row = a.row /\ b.text = u
    BY <2>2 DEF AScreen
  <2> QED BY <1>2, <2>1, <2>3 DEF u
<1>3. CASE a.row # LINES - 1
  <2> DEFINE r == a.row + 1
             b == [a EXCEPT !.row = r]
  <2>1. FirstScreen!Fed(a) = b
    BY <1>3 DEF FirstScreen!Fed, AScreen
  <2>2. r \in 0 .. LINES - 1
    BY <1>1, <1>3, SizesFit
  <2> HIDE DEF r
  <2>3. b \in AScreen /\ b.column = a.column /\ b.escape = a.escape /\ b.row = r /\ b.text = a.text
    BY <2>2 DEF AScreen
  <2> QED BY <1>3, <2>1, <2>3 DEF r
<1> QED BY <1>2, <1>3

(* A screen with another column.                                           *)
LEMMA AColumn ==
  ASSUME NEW a \in AScreen, NEW x \in 0 .. WIDTH
  PROVE  LET b == [a EXCEPT !.column = x] IN
         b \in AScreen /\ b.column = x /\ b.row = a.row /\ b.text = a.text /\ b.escape = a.escape
BY DEF AScreen

(* The same with another row.                                              *)
LEMMA ARow ==
  ASSUME NEW a \in AScreen, NEW r \in 0 .. LINES - 1
  PROVE  LET b == [a EXCEPT !.row = r] IN
         b \in AScreen /\ b.column = a.column /\ b.row = r /\ b.text = a.text /\ b.escape = a.escape
BY DEF AScreen

(* The same with another escape state.                                     *)
LEMMA AEscape ==
  ASSUME NEW a \in AScreen, NEW e \in {"no", "ESC", "ESC ["}
  PROVE  LET b == [a EXCEPT !.escape = e] IN
         b \in AScreen /\ b.column = a.column /\ b.row = a.row /\ b.text = a.text /\ b.escape = e
BY DEF AScreen

(* A letter in its place.                                                  *)
LEMMA ALetter ==
  ASSUME NEW a \in AScreen, a.column < WIDTH, NEW ch \in Word
  PROVE  LET b == [a EXCEPT !.text[a.row][a.column] = ch, !.column = @ + 1] IN
         /\ b \in AScreen /\ b.column = a.column + 1 /\ b.row = a.row /\ b.escape = a.escape
         /\ \A y \in 0 .. LINES - 1 : \A x \in 0 .. WIDTH - 1 :
               b.text[y][x] = IF y = a.row /\ x = a.column THEN ch ELSE a.text[y][x]
<1> DEFINE b == [a EXCEPT !.text[a.row][a.column] = ch, !.column = @ + 1]
           tx == [a.text EXCEPT ![a.row] = [a.text[a.row] EXCEPT ![a.column] = ch]]
           c == a.column + 1
<1>1. a.text \in Texts /\ a.row \in 0 .. LINES - 1 /\ a.column \in 0 .. WIDTH - 1 /\ c \in 0 .. WIDTH
  <2>1. a.text \in Texts /\ a.row \in 0 .. LINES - 1 /\ a.column \in Nat
    BY AScreenIs
  <2> QED BY <2>1, SizesFit
<1>2. b = [a EXCEPT !.text = tx, !.column = c]
  BY DEF AScreen
<1>3. tx \in Texts
  BY <1>1 DEF Texts
<1>4. \A y \in 0 .. LINES - 1 : \A x \in 0 .. WIDTH - 1 :
         tx[y][x] = IF y = a.row /\ x = a.column THEN ch ELSE a.text[y][x]
  BY <1>1 DEF Texts
<1> HIDE DEF tx, c, b
<1>5. b \in AScreen /\ b.column = c /\ b.row = a.row /\ b.escape = a.escape /\ b.text = tx
  BY <1>1, <1>2, <1>3 DEF AScreen
<1> QED BY <1>4, <1>5 DEF b, c

------------------------------------------------------------------------------
(* How a screen shows on the first console: Draw while something changes,  *)
(* Sim between two characters.                                             *)
Visible(s) == LET k == s.console[0] IN View(Stored(s.video, k.queue, k.cursor), k.origin)

Draw(s, a) == LET k == s.console[0] IN
    /\ Loose(s, 0) /\ a \in AScreen
    /\ a.text = Visible(s) /\ a.row = k.row /\ a.column = k.column /\ a.escape = k.escape

Sim(s, a) == LET k == s.console[0] IN
    /\ Draw(s, a)
    /\ Len(k.queue) <= k.column
    /\ k.cursor + Len(k.queue) = k.origin + k.row * WIDTH + k.column

(* What the first console holds.                                           *)
LEMMA FirstKind ==
  ASSUME NEW s, Loose(s, 0)
  PROVE  LET k == s.console[0] IN
         /\ s \in State /\ k \in Kind /\ s.video \in [0 .. VIDEO - 1 -> Word]
         /\ k.row \in Int /\ k.column \in Int /\ k.queue \in Seq(Word)
         /\ k.origin \in Nat /\ k.cursor \in Nat /\ k.escape \in {"no", "ESC", "ESC ["}
         /\ k.origin + screen_size <= VIDEO /\ 0 \in Line
<1> DEFINE k == s.console[0]
<1>1. 0 \in Line /\ start(0) \in Nat /\ limit(0) \in Nat /\ limit(0) <= VIDEO
  BY ConsolesFit
<1>2. s \in State /\ k \in Kind
  BY <1>1, LooseKind
<1>3. /\ k.row \in Int /\ k.column \in Int /\ k.queue \in Seq(Word)
      /\ k.origin \in Int /\ k.cursor \in Int /\ k.escape \in {"no", "ESC", "ESC ["}
  BY <1>2, KindIs, Zenon
<1>4. start(0) <= k.cursor /\ start(0) <= k.origin /\ k.origin + screen_size <= limit(0)
  BY <1>1 DEF Loose, Busy, Origins, OriginRight
<1>5. k.origin \in Nat /\ k.cursor \in Nat /\ k.origin + screen_size <= VIDEO
  <2> DEFINE o == k.origin
             at == k.cursor
  <2>1. o \in Int /\ at \in Int /\ start(0) <= at /\ start(0) <= o /\ o + screen_size <= limit(0)
    BY <1>3, <1>4
  <2> HIDE DEF o, at
  <2>2. o \in Nat /\ at \in Nat /\ o + screen_size <= VIDEO
    BY <1>1, <2>1, SizesFit
  <2> QED BY <2>2 DEF o, at
<1>6. s.video \in [0 .. VIDEO - 1 -> Word]
  BY <1>2 DEF State
<1> QED BY <1>1, <1>2, <1>3, <1>5, <1>6 DEF k

(* What is visible on the first console is a text.                         *)
LEMMA VisibleKind ==
  ASSUME NEW s, Loose(s, 0)
  PROVE  Visible(s) \in Texts
<1> DEFINE k == s.console[0]
           v == Stored(s.video, k.queue, k.cursor)
<1>1. /\ s.video \in [0 .. VIDEO - 1 -> Word] /\ k.queue \in Seq(Word)
      /\ k.origin \in Nat /\ k.cursor \in Nat /\ k.origin + screen_size <= VIDEO
  BY FirstKind, Zenon
<1>2. v \in [0 .. VIDEO - 1 -> Word]
  BY <1>1, StoredKind
<1> QED BY <1>1, <1>2, ViewKind DEF Visible

(* What waits is seen already, so that a flush is not.                     *)
LEMMA FlushShows ==
  ASSUME NEW s, Loose(s, 0)
  PROVE  LET u == flush(s, 0) IN
         /\ Full(u) /\ Visible(u) = Visible(s) /\ u.console[0].queue = << >>
         /\ u.console[0].row = Within(s.console[0].row, LINES - 1)
         /\ u.console[0].column = Within(s.console[0].column, WIDTH)
         /\ u.console[0].escape = s.console[0].escape
         /\ u.console[0].origin = s.console[0].origin
         /\ u.console[0].cursor = u.console[0].origin + u.console[0].row * WIDTH + u.console[0].column
<1> DEFINE u == flush(s, 0)
           k == s.console[0]
           j == u.console[0]
           v == Stored(s.video, k.queue, k.cursor)
<1>1. /\ s \in State /\ 0 \in Line /\ s.video \in [0 .. VIDEO - 1 -> Word] /\ k.queue \in Seq(Word)
      /\ k.cursor \in Nat
  BY FirstKind, Zenon
<1>2. Full(u)
  BY <1>1, FlushIsFull
<1>3. /\ j.queue = << >> /\ j.row = Within(k.row, LINES - 1) /\ j.column = Within(k.column, WIDTH)
      /\ j.origin = k.origin /\ j.escape = k.escape
      /\ j.cursor = j.origin + j.row * WIDTH + j.column
      /\ u.video = v
  BY <1>1, FlushIs
<1>4. v \in [0 .. VIDEO - 1 -> Word]
  BY <1>1, StoredKind
<1>5. j.cursor \in Nat
  BY <1>1, <1>2, FullIsLoose, FirstKind, Zenon
<1> HIDE DEF u, v
<1>6. Stored(u.video, j.queue, j.cursor) = v
  BY <1>3, <1>4, <1>5, StoredNothing
<1>7. Visible(u) = Visible(s)
  BY <1>3, <1>6 DEF Visible, v
<1> QED BY <1>2, <1>3, <1>7 DEF u

(* A flush brings a screen that is drawn to rest, and it still shows.      *)
LEMMA FlushSim ==
  ASSUME NEW s, NEW a, Draw(s, a)
  PROVE  Full(flush(s, 0)) /\ Sim(flush(s, 0), a) /\ flush(s, 0).console[0].queue = << >>
<1> DEFINE u == flush(s, 0)
           k == s.console[0]
           j == u.console[0]
<1>1. a \in AScreen /\ a.text = Visible(s) /\ a.row = k.row /\ a.column = k.column /\ a.escape = k.escape
      /\ Loose(s, 0)
  BY DEF Draw
<1>2. a.row \in 0 .. LINES - 1 /\ a.column \in 0 .. WIDTH
  BY <1>1, AScreenIs
<1>3. Within(k.row, LINES - 1) = k.row /\ Within(k.column, WIDTH) = k.column
  <2>1. k.row \in Int /\ k.column \in Int /\ LINES - 1 \in Nat /\ WIDTH \in Nat
    BY <1>1, <1>2, SizesFit
  <2> QED BY <1>1, <1>2, <2>1, WithinIs
<1>4. /\ Full(u) /\ Visible(u) = Visible(s) /\ j.queue = << >>
      /\ j.row = k.row /\ j.column = k.column /\ j.escape = k.escape /\ j.origin = k.origin
      /\ j.cursor = j.origin + j.row * WIDTH + j.column
  BY <1>1, <1>3, FlushShows
<1>5. Loose(u, 0) /\ j.cursor \in Nat
  BY <1>4, FullIsLoose, FirstKind, ConsolesFit
<1> HIDE DEF u
<1>6. Draw(u, a)
  BY <1>1, <1>4, <1>5 DEF Draw
<1>7. Len(j.queue) <= j.column /\ j.cursor + Len(j.queue) = j.origin + j.row * WIDTH + j.column
  <2>1. Len(j.queue) = 0 /\ j.column \in Nat
    BY <1>1, <1>2, <1>4, SizesFit
  <2>2. j.cursor + Len(j.queue) = j.cursor
    BY <1>5, <2>1
  <2> QED BY <1>4, <2>1, <2>2
<1> QED BY <1>4, <1>6, <1>7 DEF Sim, u

(* With everything in place what is seen is in the memory.                 *)
LEMMA FullIsSeen ==
  ASSUME NEW s, Full(s)
  PROVE  /\ Visible(s) = View(s.video, s.console[0].origin)
         /\ s.console[0].queue = << >>
         /\ s.console[0].row \in 0 .. LINES - 1 /\ s.console[0].column \in 0 .. WIDTH
         /\ s.console[0].cursor = s.console[0].origin + s.console[0].row * WIDTH + s.console[0].column
<1>1. Still(s, 0)
  BY ConsolesFit DEF Full, Rest
<1>2. Loose(s, 0)
  BY FullIsLoose, ConsolesFit
<1>3. s.video \in [0 .. VIDEO - 1 -> Word] /\ s.console[0].cursor \in Nat
  BY <1>2, FirstKind, Zenon
<1>4. s.console[0].cursor \in Int
  BY <1>3
<1>5. Stored(s.video, << >>, s.console[0].cursor) = s.video
  BY <1>3, <1>4, StoredNothing, Zenon
<1>6. s.console[0].queue = << >>
  BY <1>1 DEF Still
<1> QED BY <1>1, <1>5, <1>6 DEF Visible, Still

(* A change of row, column or escape state is not seen.                    *)
LEMMA Redrawn ==
  ASSUME NEW s, NEW a, Draw(s, a), NEW k \in Kind,
         k.origin = s.console[0].origin, k.cursor = s.console[0].cursor, k.queue = s.console[0].queue,
         NEW b \in AScreen, b.text = a.text, b.row = k.row, b.column = k.column, b.escape = k.escape
  PROVE  LET u == [s EXCEPT !.console[0] = k] IN Draw(u, b) /\ u.console[0] = k
<1> DEFINE u == [s EXCEPT !.console[0] = k]
<1>1. Loose(s, 0) /\ a.text = Visible(s) /\ 0 \in Line
  BY ConsolesFit DEF Draw
<1>2. Loose(u, 0) /\ u.console[0] = k
  BY <1>1, LooseMoved
<1>3. s \in State
  BY <1>1, LooseKind
<1>4. u.video = s.video
  BY <1>3 DEF State
<1> HIDE DEF u
<1>5. Visible(u) = Visible(s)
  BY <1>2, <1>4 DEF Visible
<1> QED BY <1>1, <1>2, <1>5 DEF Draw, u

(* Setting the column.                                                     *)
LEMMA ColumnDrawn ==
  ASSUME NEW s, NEW a, Draw(s, a), NEW x \in 0 .. WIDTH
  PROVE  Draw([s EXCEPT !.console[0].column = x], [a EXCEPT !.column = x])
<1> DEFINE k == [s.console[0] EXCEPT !.column = x]
           b == [a EXCEPT !.column = x]
<1>1. /\ Loose(s, 0) /\ a \in AScreen /\ a.row = s.console[0].row /\ a.escape = s.console[0].escape
  BY DEF Draw
<1>2. s \in State /\ s.console[0] \in Kind
  BY <1>1, LooseKind, ConsolesFit
<1>3. x \in Int
  OBVIOUS
<1>4. /\ k \in Kind /\ k.origin = s.console[0].origin /\ k.cursor = s.console[0].cursor
      /\ k.row = s.console[0].row /\ k.column = x /\ k.queue = s.console[0].queue
      /\ k.escape = s.console[0].escape
  BY <1>2, <1>3, ColumnKind, Zenon
<1>5. b \in AScreen /\ b.column = x /\ b.row = a.row /\ b.text = a.text /\ b.escape = a.escape
  BY <1>1, AColumn, Zenon
<1>6. [s EXCEPT !.console[0].column = x] = [s EXCEPT !.console[0] = k]
  BY <1>2 DEF State
<1> HIDE DEF k, b
<1>7. Draw([s EXCEPT !.console[0] = k], b)
  BY <1>1, <1>4, <1>5, Redrawn
<1> QED BY <1>6, <1>7 DEF b

(* A line feed feeds the screen.                                           *)
LEMMA LineFeedDrawn ==
  ASSUME NEW s, NEW a, Draw(s, a)
  PROVE  Draw(LineFeed(s, 0), FirstScreen!Fed(a))
<1> DEFINE b == FirstScreen!Fed(a)
<1>1. /\ Loose(s, 0) /\ a \in AScreen /\ a.row = s.console[0].row /\ a.column = s.console[0].column
      /\ a.escape = s.console[0].escape /\ 0 \in Line
  BY ConsolesFit DEF Draw
<1>2. /\ b \in AScreen /\ b.column = a.column /\ b.escape = a.escape
      /\ a.row = LINES - 1 => b.row = a.row /\ b.text = Up(a.text)
      /\ a.row # LINES - 1 => b.row = a.row + 1 /\ b.text = a.text
  BY <1>1, FedIs, Zenon
<1> HIDE DEF b
<1>3. CASE s.console[0].row = LINES - 1
  <2> DEFINE f == flush(s, 0)
             w == scroll_up(f, 0)
  <2>1. Full(f) /\ Sim(f, a)
    BY FlushSim
  <2>2. LineFeed(s, 0) = w
    BY <1>3 DEF LineFeed, Pending
  <2> HIDE DEF f
  <2>3. Draw(f, a) /\ Rest(f) /\ OrgRight(f)
    BY <2>1 DEF Sim, Full
  <2>4. /\ Rest(w) /\ OrgRight(w)
        /\ w.console[0].row = f.console[0].row /\ w.console[0].column = f.console[0].column
        /\ w.console[0].escape = f.console[0].escape
        /\ \E v \in [0 .. VIDEO - 1 -> Word] :
              /\ w.video = Blanked(v, w.console[0].origin + chars)
              /\ \A i \in 0 .. chars - 1 : v[w.console[0].origin + i] = f.video[f.console[0].origin + WIDTH + i]
    BY <1>1, <2>3, ScrollUpRests
  <2> HIDE DEF w
  <2>5. PICK v \in [0 .. VIDEO - 1 -> Word] :
              /\ w.video = Blanked(v, w.console[0].origin + chars)
              /\ \A i \in 0 .. chars - 1 : v[w.console[0].origin + i] = f.video[f.console[0].origin + WIDTH + i]
    BY <2>4
  <2>6. Full(w) /\ Loose(w, 0) /\ Loose(f, 0)
    BY <1>1, <2>1, <2>4, FullIsLoose DEF Full
  <2>7. /\ w.console[0].origin \in Nat /\ w.console[0].origin + screen_size <= VIDEO
        /\ f.console[0].origin \in Nat /\ f.console[0].origin + screen_size <= VIDEO
        /\ f.video \in [0 .. VIDEO - 1 -> Word]
    BY <2>6, FirstKind, Zenon
  <2>8. View(w.video, w.console[0].origin) = Up(View(f.video, f.console[0].origin))
    <3> DEFINE o == w.console[0].origin
               was == f.console[0].origin
               old == f.video
    <3>1. /\ o \in Nat /\ o + screen_size <= VIDEO /\ was \in Nat /\ was + screen_size <= VIDEO
          /\ old \in [0 .. VIDEO - 1 -> Word] /\ v \in [0 .. VIDEO - 1 -> Word]
          /\ \A i \in 0 .. chars - 1 : v[o + i] = old[was + WIDTH + i]
      BY <2>5, <2>7
    <3> HIDE DEF o, was, old
    <3>2. View(Blanked(v, o + chars), o) = Up(View(old, was))
      BY <3>1, BlankedLast, Zenon
    <3> QED BY <2>5, <3>2 DEF o, was, old
  <2>9. Visible(w) = Up(a.text)
    BY <2>1, <2>3, <2>6, <2>8, FullIsSeen DEF Draw
  <2>10. a.row = f.console[0].row /\ a.column = f.console[0].column /\ a.escape = f.console[0].escape
    BY <2>3 DEF Draw
  <2>11. Draw(w, b)
    BY <1>1, <1>2, <1>3, <2>4, <2>6, <2>9, <2>10 DEF Draw
  <2> QED BY <2>2, <2>11 DEF b
<1>4. CASE s.console[0].row # LINES - 1
  <2> DEFINE r == s.console[0].row + 1
             k == [s.console[0] EXCEPT !.row = r]
  <2>1. s \in State /\ s.console[0] \in Kind
    BY <1>1, LooseKind
  <2>2. r \in Int
    <3>1. s.console[0].row \in Int
      BY <2>1, KindIs, Zenon
    <3> QED BY <3>1
  <2>3. LineFeed(s, 0) = [s EXCEPT !.console[0] = k]
    BY <1>4, <2>1 DEF LineFeed, State
  <2>4. b.row = r
    BY <1>1, <1>2, <1>4
  <2> HIDE DEF r
  <2>5. /\ k \in Kind /\ k.origin = s.console[0].origin /\ k.cursor = s.console[0].cursor
        /\ k.row = r /\ k.column = s.console[0].column /\ k.queue = s.console[0].queue
        /\ k.escape = s.console[0].escape
    BY <2>1, <2>2, RowKind, Zenon
  <2> HIDE DEF k
  <2>6. Draw([s EXCEPT !.console[0] = k], b)
    BY <1>1, <1>2, <1>4, <2>4, <2>5, Redrawn
  <2> QED BY <2>3, <2>6 DEF b
<1> QED BY <1>3, <1>4

(* A screen is what its four fields hold.                                  *)
LEMMA SameScreen ==
  ASSUME NEW a \in AScreen, NEW b \in AScreen,
         a.text = b.text, a.row = b.row, a.column = b.column, a.escape = b.escape
  PROVE  a = b
<1>1. ASSUME NEW c \in AScreen
      PROVE  c = [text |-> c.text, row |-> c.row, column |-> c.column, escape |-> c.escape]
  BY DEF AScreen
<1>2. /\ a = [text |-> a.text, row |-> a.row, column |-> a.column, escape |-> a.escape]
      /\ b = [text |-> b.text, row |-> b.row, column |-> b.column, escape |-> b.escape]
  BY <1>1
<1> QED BY <1>2

(* A newline.                                                              *)
LEMMA NewlineShown ==
  ASSUME NEW s, NEW a, Draw(s, a)
  PROVE  Full(newline(s, 0)) /\ Sim(newline(s, 0), [FirstScreen!Fed(a) EXCEPT !.column = 0])
<1> DEFINE b == [a EXCEPT !.column = 0]
           u == [s EXCEPT !.console[0].column = 0]
           d == FirstScreen!Fed(b)
           e == FirstScreen!Fed(a)
           g == [e EXCEPT !.column = 0]
<1>1. a \in AScreen /\ 0 \in 0 .. WIDTH
  BY SizesFit DEF Draw
<1>2. Draw(u, b)
  BY <1>1, ColumnDrawn
<1>3. b \in AScreen /\ b.column = 0 /\ b.row = a.row /\ b.text = a.text /\ b.escape = a.escape
  BY <1>1, AColumn, Zenon
<1>4. newline(s, 0) = flush(LineFeed(u, 0), 0)
  BY DEF newline
<1> HIDE DEF b, u
<1>5. Draw(LineFeed(u, 0), d)
  BY <1>2, LineFeedDrawn
<1>6. Full(newline(s, 0)) /\ Sim(newline(s, 0), d)
  BY <1>4, <1>5, FlushSim
<1>7. /\ d \in AScreen /\ d.column = b.column /\ d.escape = b.escape
      /\ b.row = LINES - 1 => d.row = b.row /\ d.text = Up(b.text)
      /\ b.row # LINES - 1 => d.row = b.row + 1 /\ d.text = b.text
  BY <1>3, FedIs, Zenon
<1>8. /\ e \in AScreen /\ e.column = a.column /\ e.escape = a.escape
      /\ a.row = LINES - 1 => e.row = a.row /\ e.text = Up(a.text)
      /\ a.row # LINES - 1 => e.row = a.row + 1 /\ e.text = a.text
  BY <1>1, FedIs, Zenon
<1> HIDE DEF d, e
<1>9. g \in AScreen /\ g.column = 0 /\ g.row = e.row /\ g.text = e.text /\ g.escape = e.escape
  BY <1>1, <1>8, AColumn, Zenon
<1> HIDE DEF g
<1>10. d = g
  BY <1>3, <1>7, <1>8, <1>9, SameScreen
<1> QED BY <1>6, <1>10 DEF g, e

(* A backspace: to the left, to the end of the line above, or nowhere.     *)
LEMMA BackspaceShown ==
  ASSUME NEW s, NEW a, Draw(s, a)
  PROVE  Full(backspace(s, 0)) /\ Sim(backspace(s, 0), FirstScreen!BackedUp(a))
<1> DEFINE k == s.console[0]
           x == a.column - 1
           r == a.row - 1
<1>1. /\ a \in AScreen /\ Loose(s, 0) /\ a.row = k.row /\ a.column = k.column /\ a.escape = k.escape
      /\ a.text = Visible(s) /\ 0 \in Line
  BY ConsolesFit DEF Draw
<1>2. a.row \in 0 .. LINES - 1 /\ a.column \in 0 .. WIDTH /\ a.row \in Nat /\ a.column \in Nat
  BY <1>1, AScreenIs, Zenon
<1>3. s \in State /\ k \in Kind
  BY <1>1, LooseKind
<1>4. CASE k.column > 0
  <2>1. x \in 0 .. WIDTH
    BY <1>1, <1>2, <1>4, SizesFit
  <2>2. backspace(s, 0) = flush([s EXCEPT !.console[0].column = x], 0)
    BY <1>1, <1>3, <1>4 DEF backspace, State, Kind
  <2>3. FirstScreen!BackedUp(a) = [a EXCEPT !.column = x]
    <3>1. a.column > 0 /\ a.column # 0
      BY <1>1, <1>2, <1>4
    <3>2. FirstScreen!BackedUp(a) = [a EXCEPT !.column = @ - 1]
      BY <3>1 DEF FirstScreen!BackedUp
    <3> QED BY <3>2
  <2> HIDE DEF x
  <2>4. Draw([s EXCEPT !.console[0].column = x], [a EXCEPT !.column = x])
    BY <2>1, ColumnDrawn
  <2> QED BY <2>2, <2>3, <2>4, FlushSim
<1>5. CASE ~ (k.column > 0) /\ k.row > 0
  <2> DEFINE z == WIDTH - 1
             j == [k EXCEPT !.row = r]
             l == [j EXCEPT !.column = z]
             b == [a EXCEPT !.row = r]
             d == [b EXCEPT !.column = z]
  <2>1. r \in 0 .. LINES - 1 /\ z \in 0 .. WIDTH /\ r \in Int /\ z \in Int /\ a.column = 0
    BY <1>1, <1>2, <1>5, SizesFit
  <2>2. backspace(s, 0) = flush([s EXCEPT !.console[0] = l], 0)
    <3>1. [s EXCEPT !.console[0].row = k.row - 1, !.console[0].column = IF k.row > 0 THEN WIDTH - 1 ELSE -1]
            = [s EXCEPT !.console[0] = l]
      BY <1>1, <1>3, <1>5 DEF State, Kind
    <3> QED BY <1>5, <3>1 DEF backspace
  <2>3. FirstScreen!BackedUp(a) = d
    BY <1>1, <1>2, <1>5, <2>1 DEF FirstScreen!BackedUp, AScreen
  <2> HIDE DEF r, z
  <2>4. /\ j \in Kind /\ j.origin = k.origin /\ j.cursor = k.cursor /\ j.row = r
        /\ j.column = k.column /\ j.queue = k.queue /\ j.escape = k.escape
    BY <1>3, <2>1, RowKind, Zenon
  <2>5. b \in AScreen /\ b.column = a.column /\ b.row = r /\ b.text = a.text /\ b.escape = a.escape
    BY <1>1, <2>1, ARow, Zenon
  <2> HIDE DEF j, b
  <2>6. /\ l \in Kind /\ l.origin = j.origin /\ l.cursor = j.cursor /\ l.row = j.row
        /\ l.column = z /\ l.queue = j.queue /\ l.escape = j.escape
    BY <2>1, <2>4, ColumnKind, Zenon
  <2>7. d \in AScreen /\ d.column = z /\ d.row = b.row /\ d.text = b.text /\ d.escape = b.escape
    BY <2>1, <2>5, AColumn, Zenon
  <2> HIDE DEF l, d
  <2>8. Draw([s EXCEPT !.console[0] = l], d)
    BY <1>1, <2>4, <2>5, <2>6, <2>7, Redrawn
  <2> QED BY <2>2, <2>3, <2>8, FlushSim
<1>6. CASE ~ (k.column > 0) /\ ~ (k.row > 0)
  <2> DEFINE j == [k EXCEPT !.row = -1]
             l == [j EXCEPT !.column = -1]
             u == [s EXCEPT !.console[0] = l]
             f == flush(u, 0)
             h == f.console[0]
  <2>1. a.row = 0 /\ a.column = 0
    BY <1>1, <1>2, <1>6
  <2>2. backspace(s, 0) = f
    <3>1. [s EXCEPT !.console[0].row = k.row - 1, !.console[0].column = IF k.row > 0 THEN WIDTH - 1 ELSE -1]
            = u
      <4>1. k.row - 1 = -1
        BY <1>1, <2>1
      <4> QED BY <1>1, <1>3, <1>6, <4>1 DEF State, Kind
    <3> QED BY <1>6, <3>1 DEF backspace
  <2>3. FirstScreen!BackedUp(a) = a
    BY <2>1 DEF FirstScreen!BackedUp
  <2>4. -1 \in Int
    OBVIOUS
  <2>5. /\ j \in Kind /\ j.origin = k.origin /\ j.cursor = k.cursor /\ j.row = -1
        /\ j.column = k.column /\ j.queue = k.queue /\ j.escape = k.escape
    BY <1>3, <2>4, RowKind, Zenon
  <2> HIDE DEF j
  <2>6. /\ l \in Kind /\ l.origin = j.origin /\ l.cursor = j.cursor /\ l.row = j.row
        /\ l.column = -1 /\ l.queue = j.queue /\ l.escape = j.escape
    BY <2>4, <2>5, ColumnKind, Zenon
  <2> HIDE DEF l
  <2>7. Loose(u, 0) /\ u.console[0] = l
    BY <1>1, <2>5, <2>6, LooseMoved
  <2>8. u.video = s.video
    BY <1>3 DEF State
  <2> HIDE DEF u
  <2>9. Visible(u) = Visible(s)
    BY <2>5, <2>6, <2>7, <2>8 DEF Visible
  <2>10. Within(-1, LINES - 1) = 0 /\ Within(-1, WIDTH) = 0
    BY SizesFit DEF Within
  <2>11. /\ Full(f) /\ Visible(f) = Visible(u) /\ h.queue = << >>
         /\ h.row = 0 /\ h.column = 0 /\ h.escape = l.escape
         /\ h.cursor = h.origin + h.row * WIDTH + h.column
    BY <2>5, <2>6, <2>7, <2>10, FlushShows
  <2> HIDE DEF f
  <2>12. Loose(f, 0) /\ h.cursor \in Nat
    BY <1>1, <2>11, FullIsLoose, FirstKind, Zenon
  <2>13. Draw(f, a)
    BY <1>1, <2>1, <2>5, <2>6, <2>9, <2>11, <2>12 DEF Draw
  <2>14. Len(h.queue) = 0 /\ h.cursor + 0 = h.cursor
    BY <2>11, <2>12
  <2>15. Sim(f, a)
    BY <2>11, <2>13, <2>14 DEF Sim
  <2> QED BY <2>2, <2>3, <2>11, <2>15
<1> QED BY <1>4, <1>5, <1>6

(* Both ways to the next tab stop.                                         *)
LEMMA NextStop ==
  ASSUME NEW c \in 0 .. WIDTH
  PROVE  LET to == ((c + TAB) \div TAB) * TAB IN
         /\ to = (c \div TAB + 1) * TAB /\ to \in Nat
         /\ to > WIDTH => to - WIDTH \in 0 .. WIDTH
         /\ ~ (to > WIDTH) => to \in 0 .. WIDTH
<1> DEFINE q == c \div TAB
           p == (c + TAB) \div TAB
<1>1. c \in Nat /\ TAB \in Nat \ {0} /\ WIDTH \in Nat \ {0} /\ TAB <= WIDTH /\ c <= WIDTH
  BY SizesFit, ScreenAssumption
<1>2. q \in Nat /\ (c % TAB) \in 0 .. TAB - 1 /\ c = q * TAB + (c % TAB)
  BY <1>1, DivisionFacts
<1>3. p = q + 1
  <2>1. \A a \in Nat : \A b \in Nat \ {0} : (a + b) \div b = a \div b + 1
    OBVIOUS
  <2> QED BY <1>1, <2>1
<1> HIDE DEF q, p
<1>4. p * TAB = q * TAB + TAB /\ q * TAB \in Nat
  BY <1>1, <1>2, <1>3
<1>5. p * TAB <= c + TAB /\ p * TAB \in Nat
  BY <1>1, <1>2, <1>4
<1>6. p * TAB = (q + 1) * TAB
  BY <1>3
<1> DEFINE to == p * TAB
<1> HIDE DEF to
<1>7. to \in Nat /\ to <= c + TAB
  BY <1>5 DEF to
<1>8. (to > WIDTH => to - WIDTH \in 0 .. WIDTH) /\ (~ (to > WIDTH) => to \in 0 .. WIDTH)
  BY <1>1, <1>7
<1> QED BY <1>6, <1>7, <1>8 DEF to, q, p

(* A tab: to the next stop, on the next line when that is past the end.    *)
LEMMA TabShown ==
  ASSUME NEW s, NEW a, Draw(s, a)
  PROVE  Full(tab(s, 0)) /\ Sim(tab(s, 0), FirstScreen!Tabbed(a))
<1> DEFINE to == ((s.console[0].column + TAB) \div TAB) * TAB
<1>1. /\ a \in AScreen /\ a.column = s.console[0].column
  BY DEF Draw
<1>2. a.column \in 0 .. WIDTH
  BY <1>1, AScreenIs, Zenon
<1>3. /\ to = (a.column \div TAB + 1) * TAB /\ to \in Nat
      /\ to > WIDTH => to - WIDTH \in 0 .. WIDTH
      /\ ~ (to > WIDTH) => to \in 0 .. WIDTH
  BY <1>1, <1>2, NextStop
<1>4. tab(s, 0) = flush(IF to > WIDTH THEN LineFeed([s EXCEPT !.console[0].column = to - WIDTH], 0)
                        ELSE [s EXCEPT !.console[0].column = to], 0)
  BY DEF tab
<1>5. FirstScreen!Tabbed(a) = IF to > WIDTH THEN [FirstScreen!Fed(a) EXCEPT !.column = to - WIDTH]
                              ELSE [a EXCEPT !.column = to]
  BY <1>3 DEF FirstScreen!Tabbed
<1> HIDE DEF to
<1>6. CASE ~ (to > WIDTH)
  <2>1. to \in 0 .. WIDTH
    BY <1>3, <1>6
  <2>2. Draw([s EXCEPT !.console[0].column = to], [a EXCEPT !.column = to])
    BY <2>1, ColumnDrawn
  <2> QED BY <1>4, <1>5, <1>6, <2>2, FlushSim
<1>7. CASE to > WIDTH
  <2> DEFINE x == to - WIDTH
             b == [a EXCEPT !.column = x]
             u == [s EXCEPT !.console[0].column = x]
             d == FirstScreen!Fed(b)
             e == FirstScreen!Fed(a)
             g == [e EXCEPT !.column = x]
  <2>1. x \in 0 .. WIDTH
    BY <1>3, <1>7
  <2>2. tab(s, 0) = flush(LineFeed(u, 0), 0) /\ FirstScreen!Tabbed(a) = g
    BY <1>4, <1>5, <1>7
  <2> HIDE DEF x
  <2>3. Draw(u, b)
    BY <2>1, ColumnDrawn
  <2>4. b \in AScreen /\ b.column = x /\ b.row = a.row /\ b.text = a.text /\ b.escape = a.escape
    BY <1>1, <2>1, AColumn, Zenon
  <2> HIDE DEF b, u
  <2>5. Draw(LineFeed(u, 0), d)
    BY <2>3, LineFeedDrawn
  <2>6. Full(tab(s, 0)) /\ Sim(tab(s, 0), d)
    BY <2>2, <2>5, FlushSim
  <2>7. /\ d \in AScreen /\ d.column = b.column /\ d.escape = b.escape
        /\ b.row = LINES - 1 => d.row = b.row /\ d.text = Up(b.text)
        /\ b.row # LINES - 1 => d.row = b.row + 1 /\ d.text = b.text
    BY <2>4, FedIs, Zenon
  <2>8. /\ e \in AScreen /\ e.column = a.column /\ e.escape = a.escape
        /\ a.row = LINES - 1 => e.row = a.row /\ e.text = Up(a.text)
        /\ a.row # LINES - 1 => e.row = a.row + 1 /\ e.text = a.text
    BY <1>1, FedIs, Zenon
  <2> HIDE DEF d, e
  <2>9. g \in AScreen /\ g.column = x /\ g.row = e.row /\ g.text = e.text /\ g.escape = e.escape
    BY <2>1, <2>8, AColumn, Zenon
  <2> HIDE DEF g
  <2>10. d = g
    BY <2>4, <2>7, <2>8, <2>9, SameScreen
  <2> QED BY <2>2, <2>6, <2>10
<1> QED BY <1>6, <1>7

(* The state of an escape sequence changes.                                *)
LEMMA EscapeShown ==
  ASSUME NEW s, NEW a, Sim(s, a), NEW e \in {"no", "ESC", "ESC ["}
  PROVE  Sim([s EXCEPT !.console[0].escape = e], [a EXCEPT !.escape = e])
<1> DEFINE k == [s.console[0] EXCEPT !.escape = e]
           b == [a EXCEPT !.escape = e]
           u == [s EXCEPT !.console[0] = k]
<1>1. /\ Loose(s, 0) /\ a \in AScreen /\ a.row = s.console[0].row /\ a.column = s.console[0].column
      /\ Draw(s, a)
  BY DEF Draw, Sim
<1>2. s \in State /\ s.console[0] \in Kind
  BY <1>1, LooseKind, ConsolesFit
<1>4. /\ k \in Kind /\ k.origin = s.console[0].origin /\ k.cursor = s.console[0].cursor
      /\ k.row = s.console[0].row /\ k.column = s.console[0].column /\ k.queue = s.console[0].queue
      /\ k.escape = e
  BY <1>2 DEF Kind
<1>5. b \in AScreen /\ b.column = a.column /\ b.row = a.row /\ b.text = a.text /\ b.escape = e
  BY <1>1, AEscape, Zenon
<1>6. [s EXCEPT !.console[0].escape = e] = u
  BY <1>2 DEF State
<1> HIDE DEF k, b
<1>7. Draw(u, b) /\ u.console[0] = k
  <2>1. b.text = a.text /\ b.row = k.row /\ b.column = k.column /\ b.escape = k.escape
    BY <1>1, <1>4, <1>5
  <2>2. /\ k \in Kind /\ k.origin = s.console[0].origin /\ k.cursor = s.console[0].cursor
        /\ k.queue = s.console[0].queue /\ Draw(s, a) /\ b \in AScreen
    BY <1>1, <1>4, <1>5
  <2>3. Draw([s EXCEPT !.console[0] = k], b)
    BY <2>1, <2>2, Redrawn
  <2>4. [s EXCEPT !.console[0] = k].console[0] = k
    BY <1>2, ConsolesFit DEF State
  <2> QED BY <2>3, <2>4
<1> HIDE DEF u
<1>8. Sim(u, b)
  BY <1>4, <1>7 DEF Sim
<1> QED BY <1>6, <1>8 DEF b

(* ESC M below the first row.                                              *)
LEMMA EscMShown ==
  ASSUME NEW s, NEW a, Draw(s, a), a.row > 0
  PROVE  Sim(do_escape(s, 0), [a EXCEPT !.escape = "no", !.row = a.row - 1])
<1> DEFINE f == flush(s, 0)
           r == a.row - 1
           k == [f.console[0] EXCEPT !.row = r]
           u == [f EXCEPT !.console[0] = k]
           b == [a EXCEPT !.row = r]
           d == [b EXCEPT !.escape = "no"]
           e == [a EXCEPT !.escape = "no", !.row = a.row - 1]
<1>1. Sim(f, a) /\ Full(f)
  BY FlushSim
<1>2. Draw(f, a) /\ a \in AScreen /\ a.row = f.console[0].row /\ a.column = f.console[0].column
      /\ a.escape = f.console[0].escape /\ Loose(f, 0)
  BY <1>1 DEF Sim, Draw
<1>3. a.row \in 0 .. LINES - 1 /\ a.row \in Nat
  BY <1>2, AScreenIs, Zenon
<1>4. r \in 0 .. LINES - 1 /\ r \in Int /\ a.row # 0
  BY <1>3, SizesFit
<1> HIDE DEF f
<1>5. f \in State /\ f.console[0] \in Kind
  BY <1>2, LooseKind, ConsolesFit
<1>6. do_escape(s, 0) = [flush(u, 0) EXCEPT !.console[0].escape = "no"]
  <2>1. [f EXCEPT !.console[0].row = @ - 1] = u
    BY <1>2, <1>5 DEF State
  <2>2. do_escape(s, 0) = [flush([f EXCEPT !.console[0].row = @ - 1], 0) EXCEPT !.console[0].escape = "no"]
    BY <1>2, <1>4 DEF do_escape, f
  <2> QED BY <2>1, <2>2
<1>7. d = e
  BY <1>2 DEF AScreen
<1> HIDE DEF r
<1>8. /\ k \in Kind /\ k.origin = f.console[0].origin /\ k.cursor = f.console[0].cursor
      /\ k.row = r /\ k.column = f.console[0].column /\ k.queue = f.console[0].queue
      /\ k.escape = f.console[0].escape
  BY <1>4, <1>5, RowKind, Zenon
<1>9. b \in AScreen /\ b.column = a.column /\ b.row = r /\ b.text = a.text /\ b.escape = a.escape
  BY <1>2, <1>4, ARow, Zenon
<1> HIDE DEF k, b
<1>10. Draw(u, b)
  BY <1>2, <1>8, <1>9, Redrawn
<1> HIDE DEF u
<1>11. Sim(flush(u, 0), b)
  BY <1>10, FlushSim
<1>12. Sim([flush(u, 0) EXCEPT !.console[0].escape = "no"], d)
  BY <1>11, EscapeShown
<1> HIDE DEF d, e
<1> QED BY <1>6, <1>7, <1>12 DEF e

(* A console that shows a screen may be written to.                        *)
LEMMA SimWrites ==
  ASSUME NEW s, NEW a, Sim(s, a)
  PROVE  /\ Writing(s, 0) /\ Draw(s, a) /\ Loose(s, 0) /\ a \in AScreen
         /\ a.row = s.console[0].row /\ a.column = s.console[0].column /\ a.escape = s.console[0].escape
<1>1. /\ Draw(s, a) /\ Loose(s, 0) /\ a \in AScreen /\ Len(s.console[0].queue) <= s.console[0].column
      /\ a.row = s.console[0].row /\ a.column = s.console[0].column /\ a.escape = s.console[0].escape
  BY DEF Sim, Draw
<1>2. a.row \in 0 .. LINES - 1 /\ a.column \in 0 .. WIDTH
  BY <1>1, AScreenIs, Zenon
<1> QED BY <1>1, <1>2 DEF Writing

(* Two texts are equal when they are in every place.                       *)
LEMMA TextsEqual ==
  ASSUME NEW t \in Texts, NEW r \in Texts,
         \A y \in 0 .. LINES - 1 : \A x \in 0 .. WIDTH - 1 : t[y][x] = r[y][x]
  PROVE  t = r
<1>1. \A y \in 0 .. LINES - 1 : t[y] = r[y]
  <2> SUFFICES ASSUME NEW y \in 0 .. LINES - 1 PROVE t[y] = r[y]
    OBVIOUS
  <2>1. t[y] \in [0 .. WIDTH - 1 -> Word] /\ r[y] \in [0 .. WIDTH - 1 -> Word]
    BY DEF Texts
  <2>2. t[y] = [x \in 0 .. WIDTH - 1 |-> t[y][x]] /\ r[y] = [x \in 0 .. WIDTH - 1 |-> r[y][x]]
    BY <2>1
  <2> QED BY <2>2
<1>2. t = [y \in 0 .. LINES - 1 |-> t[y]] /\ r = [y \in 0 .. LINES - 1 |-> r[y]]
  BY DEF Texts
<1> QED BY <1>1, <1>2

(* A letter that joins the queue is seen in its place.                     *)
LEMMA QueuedShown ==
  ASSUME NEW s, NEW a, Sim(s, a), a.column < WIDTH, NEW ch \in Word
  PROVE  Sim(Queued(s, 0, ch), [a EXCEPT !.text[a.row][a.column] = ch, !.column = @ + 1])
<1> DEFINE k == s.console[0]
           u == Queued(s, 0, ch)
           j == u.console[0]
           b == [a EXCEPT !.text[a.row][a.column] = ch, !.column = @ + 1]
           q == k.queue
           n == Len(q)
           o == k.origin
           at == k.cursor
           row == a.row
           column == a.column
<1>1. /\ Writing(s, 0) /\ Draw(s, a) /\ Loose(s, 0) /\ a \in AScreen /\ 0 \in Line
      /\ row = k.row /\ column = k.column /\ a.escape = k.escape
  BY SimWrites, ConsolesFit
<1>2. a.text = Visible(s) /\ n <= column /\ at + n = o + row * WIDTH + column
  BY <1>1 DEF Sim, Draw
<1>3. /\ s \in State /\ k \in Kind /\ s.video \in [0 .. VIDEO - 1 -> Word] /\ q \in Seq(Word)
      /\ o \in Nat /\ at \in Nat /\ o + screen_size <= VIDEO
  BY <1>1, FirstKind, Zenon
<1>4. row \in 0 .. LINES - 1 /\ column \in Nat
  BY <1>1, AScreenIs, Zenon
<1>5. column \in 0 .. WIDTH - 1 /\ n \in Nat
  <2>1. column < WIDTH
    OBVIOUS
  <2> HIDE DEF q, column
  <2> QED BY <1>3, <1>4, <2>1, SizesFit
<1>6. Writing(u, 0)
  BY <1>1, QueuedWrites
<1>7. /\ u.video = s.video /\ j.queue = Append(q, ch) /\ j.column = k.column + 1 /\ j.row = k.row
      /\ j.origin = o /\ j.cursor = at /\ j.escape = k.escape
  BY <1>1, <1>3 DEF Queued, State, Kind
<1>8. /\ b \in AScreen /\ b.column = column + 1 /\ b.row = row /\ b.escape = a.escape
      /\ \A y \in 0 .. LINES - 1 : \A x \in 0 .. WIDTH - 1 :
            b.text[y][x] = IF y = row /\ x = column THEN ch ELSE a.text[y][x]
  BY <1>1, ALetter, Zenon
<1>9. Loose(u, 0)
  BY <1>6 DEF Writing
<1>10. b.text \in Texts /\ Visible(u) \in Texts
  BY <1>8, <1>9, AScreenIs, VisibleKind
<1> HIDE DEF u, b
<1>11. ASSUME NEW y \in 0 .. LINES - 1, NEW x \in 0 .. WIDTH - 1
       PROVE  b.text[y][x] = Visible(u)[y][x]
  <2> DEFINE w == o + y * WIDTH + x
             old == Stored(s.video, q, at)
             new == Stored(s.video, Append(q, ch), at)
  <2>1. y * WIDTH \in Nat /\ y * WIDTH + x \in 0 .. screen_size - 1
    BY PlaceOnScreen
  <2>2. w \in 0 .. VIDEO - 1
    <3> DEFINE i == y * WIDTH + x
    <3>1. i \in 0 .. screen_size - 1 /\ w = o + i
      BY <1>3, <2>1, SizesFit
    <3> HIDE DEF i, o, w
    <3> QED BY <1>3, <3>1, SizesFit
  <2>3. Visible(u)[y][x] = new[w]
    BY <1>7 DEF Visible, View
  <2>4. a.text[y][x] = old[w]
    BY <1>2 DEF Visible, View
  <2>5. new[w] = IF w = at + n THEN ch ELSE old[w]
    <3>1. at \in Int
      BY <1>3
    <3> HIDE DEF w, q, at
    <3> QED BY <1>3, <2>2, <3>1, StoredOneMore
  <2>6. w = at + n <=> y = row /\ x = column
    <3> DEFINE yy == y * WIDTH + x
               rr == row * WIDTH + column
    <3>1. row * WIDTH \in Nat
      BY <1>4, <1>5, PlaceOnScreen
    <3>2. yy = rr => y = row /\ x = column
      BY <1>4, <1>5, PlacesApart
    <3>3. yy \in Nat /\ rr \in Nat /\ w = o + yy /\ at + n = o + rr
      <4> DEFINE y1 == y * WIDTH
                 r1 == row * WIDTH
      <4>1. y1 \in Nat /\ r1 \in Nat /\ x \in Nat /\ column \in Nat /\ o \in Nat
            /\ at + n = o + r1 + column
        BY <1>2, <1>3, <1>4, <2>1, <3>1, SizesFit
      <4>2. w = o + y1 + x /\ yy = y1 + x /\ rr = r1 + column
        OBVIOUS
      <4> HIDE DEF y1, r1, o, at, n, column, w, yy, rr
      <4> QED BY <4>1, <4>2
    <3>4. w = at + n <=> yy = rr
      <4> HIDE DEF w, at, n, o, yy, rr
      <4> QED BY <1>3, <3>3
    <3>5. y = row /\ x = column => yy = rr
      OBVIOUS
    <3> QED BY <3>2, <3>4, <3>5
  <2> HIDE DEF w, old, new
  <2> QED BY <1>8, <2>3, <2>4, <2>5, <2>6
<1>12. b.text = Visible(u)
  BY <1>10, <1>11, TextsEqual
<1>13. Draw(u, b)
  BY <1>1, <1>7, <1>8, <1>9, <1>12 DEF Draw
<1>14. Len(j.queue) <= j.column /\ j.cursor + Len(j.queue) = j.origin + j.row * WIDTH + j.column
  <2>1. Len(j.queue) = n + 1
    BY <1>3, <1>7
  <2>2. row * WIDTH \in Nat
    BY <1>4, <1>5, PlaceOnScreen
  <2>3. j.row * WIDTH = row * WIDTH
    BY <1>1, <1>7
  <2> HIDE DEF n, o, at
  <2>4. j.column = column + 1
    BY <1>1, <1>7
  <2>5. at + (n + 1) = o + row * WIDTH + (column + 1)
    <3> DEFINE rw == row * WIDTH
    <3>1. rw \in Nat /\ at + n = o + rw + column
      BY <1>2, <2>2
    <3> HIDE DEF rw, row, column
    <3>2. at + (n + 1) = o + rw + (column + 1)
      BY <1>3, <1>4, <1>5, <3>1
    <3> QED BY <3>2 DEF rw, row, column
  <2> QED BY <1>2, <1>5, <1>7, <2>1, <2>3, <2>4, <2>5
<1>15. Sim(u, b)
  BY <1>13, <1>14 DEF Sim
<1> QED BY <1>15 DEF u, b

(* A letter, behind a line feed when the line is full.                     *)
LEMMA LetterShown ==
  ASSUME NEW s, NEW a, Sim(s, a), NEW ch \in Word
  PROVE  Sim(letter(s, 0, ch), FirstScreen!Lettered(a, ch))
<1> DEFINE k == s.console[0]
           fed == LineFeed(s, 0)
           wrapped == flush([fed EXCEPT !.console[0].column = 0], 0)
           at == IF k.column >= WIDTH THEN wrapped ELSE s
           to == IF at.console[0].row = RAM_WORDS THEN flush(at, 0) ELSE at
           e == FirstScreen!Fed(a)
           b == IF a.column = WIDTH THEN [e EXCEPT !.column = 0] ELSE a
<1>1. /\ Draw(s, a) /\ a \in AScreen /\ a.column = k.column
  BY SimWrites
<1>2. a.column \in 0 .. WIDTH /\ WIDTH \in Nat \ {0} /\ 0 \in 0 .. WIDTH
  <2>1. a.column \in 0 .. WIDTH
    BY <1>1, AScreenIs, Zenon
  <2> QED BY <2>1, SizesFit
<1>3. letter(s, 0, ch) = Queued(to, 0, ch)
  BY DEF letter
<1>4. FirstScreen!Lettered(a, ch) = [b EXCEPT !.text[b.row][b.column] = ch, !.column = @ + 1]
  BY DEF FirstScreen!Lettered
<1>5. Sim(at, b) /\ b.column < WIDTH
  <2>1. CASE k.column >= WIDTH
    <3>1. a.column = WIDTH
      BY <1>1, <1>2, <2>1
    <3>2. e \in AScreen
      BY <1>1, FedIs, Zenon
    <3>3. Draw(fed, e)
      BY <1>1, LineFeedDrawn
    <3> HIDE DEF e, fed
    <3>4. Draw([fed EXCEPT !.console[0].column = 0], [e EXCEPT !.column = 0])
      BY <1>2, <3>3, ColumnDrawn
    <3>5. Sim(wrapped, [e EXCEPT !.column = 0])
      BY <3>4, FlushSim
    <3>6. [e EXCEPT !.column = 0].column = 0
      BY <1>2, <3>2, AColumn, Zenon
    <3> QED BY <1>2, <2>1, <3>1, <3>5, <3>6
  <2>2. CASE ~ (k.column >= WIDTH)
    <3>1. a.column # WIDTH /\ a.column < WIDTH
      BY <1>1, <1>2, <2>2
    <3> QED BY <2>2, <3>1
  <2> QED BY <2>1, <2>2
<1> HIDE DEF at, b
<1>6. Sim(to, b)
  <2>1. CASE at.console[0].row = RAM_WORDS
    BY <1>5, <2>1, FlushSim DEF Sim
  <2>2. CASE at.console[0].row # RAM_WORDS
    BY <1>5, <2>2
  <2> QED BY <2>1, <2>2
<1> HIDE DEF to
<1>7. Sim(Queued(to, 0, ch), [b EXCEPT !.text[b.row][b.column] = ch, !.column = @ + 1])
  BY <1>5, <1>6, QueuedShown
<1> QED BY <1>3, <1>4, <1>7

(* Every character is shown as a screen shows it, but for the ESC M that   *)
(* pushes what is shown down.                                              *)
LEMMA CharShown ==
  ASSUME NEW s, NEW a, Sim(s, a), NEW ch \in Char, ~ (a.escape = "ESC" /\ ch = "M" /\ a.row = 0)
  PROVE  Sim(out_char(s, 0, ch), FirstScreen!Shown(a, ch))
<1>1. /\ Draw(s, a) /\ a \in AScreen /\ a.escape = s.console[0].escape /\ a.row \in Nat
      /\ a.escape \in {"no", "ESC", "ESC ["} /\ a.row = s.console[0].row
  <2>1. Draw(s, a) /\ a \in AScreen /\ a.escape = s.console[0].escape /\ a.row = s.console[0].row
    BY SimWrites
  <2> QED BY <2>1, AScreenIs
<1>2. CASE a.escape = "ESC"
  <2>1. out_char(s, 0, ch) = parse_escape(s, 0, ch)
    BY <1>1, <1>2 DEF out_char
  <2>2. FirstScreen!Shown(a, ch) = [a EXCEPT !.escape = IF ch = "[" THEN "ESC [" ELSE "no",
                                            !.row = IF ch = "M" /\ @ > 0 THEN @ - 1 ELSE @]
    BY <1>2 DEF FirstScreen!Shown
  <2>3. CASE ch = "["
    <3>1. parse_escape(s, 0, ch) = [s EXCEPT !.console[0].escape = "ESC ["]
      BY <1>1, <1>2, <2>3 DEF parse_escape
    <3>2. FirstScreen!Shown(a, ch) = [a EXCEPT !.escape = "ESC ["]
      BY <1>1, <2>2, <2>3 DEF AScreen
    <3>3. Sim([s EXCEPT !.console[0].escape = "ESC ["], [a EXCEPT !.escape = "ESC ["])
      BY EscapeShown
    <3> QED BY <2>1, <3>1, <3>2, <3>3
  <2>4. CASE ch = "M"
    <3>1. parse_escape(s, 0, ch) = do_escape(s, 0)
      BY <1>1, <1>2, <2>4 DEF parse_escape
    <3>2. a.row > 0
      BY <1>1, <1>2, <2>4
    <3>3. FirstScreen!Shown(a, ch) = [a EXCEPT !.escape = "no", !.row = a.row - 1]
      BY <1>1, <2>2, <2>4, <3>2 DEF AScreen
    <3>4. Sim(do_escape(s, 0), [a EXCEPT !.escape = "no", !.row = a.row - 1])
      BY <1>1, <3>2, EscMShown
    <3> QED BY <2>1, <3>1, <3>3, <3>4
  <2>5. CASE ch \notin {"[", "M"}
    <3>1. parse_escape(s, 0, ch) = [s EXCEPT !.console[0].escape = "no"]
      BY <1>1, <1>2, <2>5 DEF parse_escape
    <3>2. FirstScreen!Shown(a, ch) = [a EXCEPT !.escape = "no"]
      BY <1>1, <2>2, <2>5 DEF AScreen
    <3>3. Sim([s EXCEPT !.console[0].escape = "no"], [a EXCEPT !.escape = "no"])
      BY EscapeShown
    <3> QED BY <2>1, <3>1, <3>2, <3>3
  <2> QED BY <2>3, <2>4, <2>5
<1>3. CASE a.escape = "ESC ["
  <2>1. out_char(s, 0, ch) = s
    BY <1>1, <1>3 DEF out_char, parse_escape
  <2>2. FirstScreen!Shown(a, ch) = a
    BY <1>3 DEF FirstScreen!Shown
  <2> QED BY <2>1, <2>2
<1>4. CASE a.escape = "no"
  <2>1. CASE ch = "NL"
    <3>1. out_char(s, 0, ch) = newline(s, 0) /\ FirstScreen!Shown(a, ch) = [FirstScreen!Fed(a) EXCEPT !.column = 0]
      BY <1>1, <1>4, <2>1 DEF out_char, FirstScreen!Shown
    <3>2. Sim(newline(s, 0), [FirstScreen!Fed(a) EXCEPT !.column = 0])
      BY <1>1, NewlineShown
    <3> QED BY <3>1, <3>2
  <2>2. CASE ch = "BS"
    <3>1. out_char(s, 0, ch) = backspace(s, 0) /\ FirstScreen!Shown(a, ch) = FirstScreen!BackedUp(a)
      BY <1>1, <1>4, <2>2 DEF out_char, FirstScreen!Shown
    <3> QED BY <1>1, <3>1, BackspaceShown
  <2>3. CASE ch = "CR"
    <3>1. out_char(s, 0, ch) = flush([s EXCEPT !.console[0].column = 0], 0)
          /\ FirstScreen!Shown(a, ch) = [a EXCEPT !.column = 0]
      BY <1>1, <1>4, <2>3 DEF out_char, FirstScreen!Shown
    <3>2. 0 \in 0 .. WIDTH
      BY SizesFit
    <3>3. Draw([s EXCEPT !.console[0].column = 0], [a EXCEPT !.column = 0])
      BY <1>1, <3>2, ColumnDrawn
    <3> QED BY <3>1, <3>3, FlushSim
  <2>4. CASE ch = "TAB"
    <3>1. out_char(s, 0, ch) = tab(s, 0) /\ FirstScreen!Shown(a, ch) = FirstScreen!Tabbed(a)
      BY <1>1, <1>4, <2>4 DEF out_char, FirstScreen!Shown
    <3> QED BY <1>1, <3>1, TabShown
  <2>5. CASE ch = "ESC"
    <3>1. out_char(s, 0, ch) = [flush(s, 0) EXCEPT !.console[0].escape = "ESC"]
          /\ FirstScreen!Shown(a, ch) = [a EXCEPT !.escape = "ESC"]
      BY <1>1, <1>4, <2>5 DEF out_char, FirstScreen!Shown
    <3>2. Sim(flush(s, 0), a)
      BY <1>1, FlushSim
    <3> DEFINE f == flush(s, 0)
    <3> HIDE DEF f
    <3>3. Sim(f, a)
      BY <3>2 DEF f
    <3>4. Sim([f EXCEPT !.console[0].escape = "ESC"], [a EXCEPT !.escape = "ESC"])
      BY <3>3, EscapeShown
    <3> QED BY <3>1, <3>4 DEF f
  <2>6. CASE ch \notin {"NL", "BS", "CR", "TAB", "ESC"}
    <3>1. out_char(s, 0, ch) = letter(s, 0, ch) /\ FirstScreen!Shown(a, ch) = FirstScreen!Lettered(a, ch)
      BY <1>1, <1>4, <2>6 DEF out_char, FirstScreen!Shown
    <3>2. ch \in Word
      BY <2>6 DEF Char, Word
    <3> QED BY <3>1, <3>2, LetterShown
  <2> QED BY <2>1, <2>2, <2>3, <2>4, <2>5, <2>6
<1> QED BY <1>1, <1>2, <1>3, <1>4

------------------------------------------------------------------------------
(* A whole text.                                                           *)

(* Every character leaves a screen, and only an ESC leaves it after an     *)
(* ESC.                                                                    *)
LEMMA ShownKind ==
  ASSUME NEW a \in AScreen, NEW ch \in Char
  PROVE  LET b == FirstScreen!Shown(a, ch) IN b \in AScreen /\ (b.escape = "ESC" => ch = "ESC")
<1>1. /\ a.escape \in {"no", "ESC", "ESC ["} /\ a.row \in 0 .. LINES - 1 /\ a.row \in Nat
      /\ a.column \in 0 .. WIDTH /\ a.column \in Nat
  BY AScreenIs, Zenon
<1>5. /\ WIDTH \in Nat \ {0}
      /\ a.row > 0 => a.row - 1 \in 0 .. LINES - 1
      /\ a.column > 0 => a.column - 1 \in 0 .. WIDTH
      /\ a.column # WIDTH => a.column < WIDTH
      /\ ~ (a.row > 0) => a.row = 0
      /\ ~ (a.column > 0) => a.column = 0
  <2> DEFINE row == a.row
             column == a.column
  <2>1. row \in 0 .. LINES - 1 /\ column \in 0 .. WIDTH
    BY <1>1
  <2> HIDE DEF row, column
  <2>2. /\ WIDTH \in Nat \ {0}
        /\ row > 0 => row - 1 \in 0 .. LINES - 1
        /\ column > 0 => column - 1 \in 0 .. WIDTH
        /\ column # WIDTH => column < WIDTH
        /\ ~ (row > 0) => row = 0
        /\ ~ (column > 0) => column = 0
    BY <2>1, SizesFit
  <2> QED BY <2>2 DEF row, column
<1>2. CASE a.escape = "ESC"
  <2> DEFINE e == IF ch = "[" THEN "ESC [" ELSE "no"
             r == IF ch = "M" /\ a.row > 0 THEN a.row - 1 ELSE a.row
             b == [a EXCEPT !.escape = e]
             d == [b EXCEPT !.row = r]
  <2>1. FirstScreen!Shown(a, ch) = d
    BY <1>2 DEF FirstScreen!Shown, AScreen
  <2>2. e \in {"no", "ESC", "ESC ["} /\ e # "ESC" /\ r \in 0 .. LINES - 1
    BY <1>1, <1>5, Zenon
  <2> HIDE DEF e, r
  <2>3. b \in AScreen /\ b.escape = e
    BY <2>2, AEscape, Zenon
  <2> HIDE DEF b
  <2>4. d \in AScreen /\ d.escape = e
    BY <2>2, <2>3, ARow, Zenon
  <2> QED BY <2>1, <2>2, <2>4
<1>3. CASE a.escape = "ESC ["
  <2>1. FirstScreen!Shown(a, ch) = a
    BY <1>3 DEF FirstScreen!Shown
  <2> QED BY <1>3, <2>1
<1>4. CASE a.escape = "no"
  <2> DEFINE e == FirstScreen!Fed(a)
  <2>1. e \in AScreen /\ e.escape = "no" /\ e.column = a.column
    BY <1>4, FedIs, Zenon
  <2>2. 0 \in 0 .. WIDTH /\ WIDTH \in Nat \ {0}
    BY SizesFit
  <2>3. \A x \in 0 .. WIDTH : LET b == [e EXCEPT !.column = x] IN
           b \in AScreen /\ b.escape = "no" /\ b.column = x
    <3> HIDE DEF e
    <3> QED BY <2>1, AColumn, Zenon
  <2>4. \A x \in 0 .. WIDTH : LET b == [a EXCEPT !.column = x] IN
           b \in AScreen /\ b.escape = "no" /\ b.column = x /\ b.row = a.row
    BY <1>4, AColumn, Zenon
  <2>5. CASE ch = "NL"
    <3>1. FirstScreen!Shown(a, ch) = [e EXCEPT !.column = 0]
      BY <1>4, <2>5 DEF FirstScreen!Shown
    <3> HIDE DEF e
    <3> QED BY <2>2, <2>3, <3>1
  <2>6. CASE ch = "CR"
    <3>1. FirstScreen!Shown(a, ch) = [a EXCEPT !.column = 0]
      BY <1>4, <2>6 DEF FirstScreen!Shown
    <3> QED BY <2>2, <2>4, <3>1
  <2>7. CASE ch = "BS"
    <3>1. FirstScreen!Shown(a, ch) = FirstScreen!BackedUp(a)
      BY <1>4, <2>7 DEF FirstScreen!Shown
    <3>2. CASE a.column > 0
      <4> DEFINE x == a.column - 1
      <4>1. FirstScreen!BackedUp(a) = [a EXCEPT !.column = x]
        <5>1. FirstScreen!BackedUp(a) = [a EXCEPT !.column = @ - 1]
          BY <3>2 DEF FirstScreen!BackedUp
        <5> QED BY <5>1 DEF AScreen
      <4>2. x \in 0 .. WIDTH
        BY <1>5, <3>2, Zenon
      <4> HIDE DEF x
      <4> QED BY <2>4, <3>1, <4>1, <4>2
    <3>3. CASE a.column = 0 /\ a.row > 0
      <4> DEFINE x == WIDTH - 1
                 r == a.row - 1
                 b == [a EXCEPT !.row = r]
                 d == [b EXCEPT !.column = x]
      <4>1. FirstScreen!BackedUp(a) = d
        <5>1. ~ (a.column > 0)
          BY <1>5, <3>3
        <5>2. FirstScreen!BackedUp(a) = [a EXCEPT !.row = @ - 1, !.column = WIDTH - 1]
          BY <3>3, <5>1 DEF FirstScreen!BackedUp
        <5> QED BY <5>2 DEF AScreen
      <4>2. x \in 0 .. WIDTH /\ r \in 0 .. LINES - 1
        <5>1. x \in 0 .. WIDTH
          BY <1>5
        <5>2. r \in 0 .. LINES - 1
          BY <1>5, <3>3, Zenon
        <5> QED BY <5>1, <5>2
      <4> HIDE DEF x, r
      <4>3. b \in AScreen /\ b.escape = a.escape
        BY <4>2, ARow, Zenon
      <4> HIDE DEF b
      <4>4. d \in AScreen /\ d.escape = b.escape
        BY <4>2, <4>3, AColumn, Zenon
      <4> QED BY <1>4, <3>1, <4>1, <4>3, <4>4
    <3>4. CASE a.column = 0 /\ ~ (a.row > 0)
      <4>1. FirstScreen!BackedUp(a) = a
        BY <3>4 DEF FirstScreen!BackedUp
      <4> QED BY <1>4, <3>1, <4>1
    <3> QED BY <1>5, <3>2, <3>3, <3>4, Zenon
  <2>8. CASE ch = "TAB"
    <3> DEFINE to == (a.column \div TAB + 1) * TAB
    <3>1. FirstScreen!Shown(a, ch) = FirstScreen!Tabbed(a)
      BY <1>4, <2>8 DEF FirstScreen!Shown
    <3>2. FirstScreen!Tabbed(a) = IF to > WIDTH THEN [e EXCEPT !.column = to - WIDTH] ELSE [a EXCEPT !.column = to]
      BY DEF FirstScreen!Tabbed
    <3>3. to \in Nat /\ to <= WIDTH + WIDTH
      <4> DEFINE c == a.column
                 q == c \div TAB
      <4>1. TAB \in Nat \ {0} /\ TAB <= WIDTH /\ c \in 0 .. WIDTH /\ c \in Nat
        BY <1>1, SizesFit, ScreenAssumption, Zenon
      <4>2. q \in Nat /\ c % TAB \in 0 .. TAB - 1 /\ c = q * TAB + (c % TAB)
        <5> HIDE DEF c
        <5> QED BY <4>1, DivisionFacts
      <4> HIDE DEF c, q
      <4>3. q * TAB \in Nat /\ q * TAB <= c /\ (q + 1) * TAB = q * TAB + TAB
        BY <4>1, <4>2
      <4>4. (q + 1) * TAB \in Nat /\ (q + 1) * TAB <= WIDTH + WIDTH
        BY <2>2, <4>1, <4>3
      <4> QED BY <4>4 DEF q, c
    <3> HIDE DEF to, e
    <3>4. CASE to > WIDTH
      <4> DEFINE x == to - WIDTH
      <4>1. x \in 0 .. WIDTH
        BY <2>2, <3>3, <3>4
      <4>2. FirstScreen!Shown(a, ch) = [e EXCEPT !.column = x]
        BY <3>1, <3>2, <3>4
      <4> HIDE DEF x
      <4> QED BY <2>3, <4>1, <4>2
    <3>5. CASE ~ (to > WIDTH)
      <4>1. to \in 0 .. WIDTH
        BY <2>2, <3>3, <3>5
      <4>2. FirstScreen!Shown(a, ch) = [a EXCEPT !.column = to]
        BY <3>1, <3>2, <3>5
      <4> QED BY <2>4, <4>1, <4>2
    <3> QED BY <3>4, <3>5
  <2>9. CASE ch = "ESC"
    <3>1. FirstScreen!Shown(a, ch) = [a EXCEPT !.escape = "ESC"]
      BY <1>4, <2>9 DEF FirstScreen!Shown
    <3>2. [a EXCEPT !.escape = "ESC"] \in AScreen
      BY AEscape
    <3> QED BY <2>9, <3>1, <3>2
  <2>10. CASE ch \notin {"NL", "BS", "CR", "TAB", "ESC"}
    <3> DEFINE b == IF a.column = WIDTH THEN [e EXCEPT !.column = 0] ELSE a
               d == [b EXCEPT !.text[b.row][b.column] = ch, !.column = @ + 1]
    <3>1. FirstScreen!Shown(a, ch) = d
      BY <1>4, <2>10 DEF FirstScreen!Shown, FirstScreen!Lettered
    <3>2. ch \in Word
      BY <2>10 DEF Char, Word
    <3>3. b \in AScreen /\ b.escape = "no" /\ b.column < WIDTH
      <4>1. CASE a.column = WIDTH
        <5>1. b = [e EXCEPT !.column = 0]
          BY <4>1
        <5> HIDE DEF b, e
        <5>2. b \in AScreen /\ b.escape = "no" /\ b.column = 0
          BY <2>2, <2>3, <5>1
        <5> QED BY <2>2, <5>2
      <4>2. CASE a.column # WIDTH
        <5>1. b = a
          BY <4>2
        <5>2. a.column < WIDTH
          BY <1>5, <4>2
        <5> HIDE DEF b
        <5> QED BY <1>4, <5>1, <5>2
      <4> QED BY <4>1, <4>2
    <3> HIDE DEF b
    <3>4. d \in AScreen /\ d.escape = b.escape
      BY <3>2, <3>3, ALetter, Zenon
    <3> QED BY <3>1, <3>3, <3>4
  <2> QED BY <2>5, <2>6, <2>7, <2>8, <2>9, <2>10
<1> QED BY <1>1, <1>2, <1>3, <1>4

(* A text on the screen, character by character.                           *)
AllShown(a, t) == FirstScreen!FoldLeft(FirstScreen!Shown, a, t)

IsShowing(a, t, h) ==
    /\ h[0] = a /\ h[Len(t)] = AllShown(a, t)
    /\ \A k \in 0 .. Len(t) - 1 : h[k + 1] = FirstScreen!Shown(h[k], t[k + 1])
    /\ \A k \in 0 .. Len(t) : h[k] \in AScreen

(* AllShown is what the function yields that its fold chooses.             *)
LEMMA ShownFold ==
  ASSUME NEW t, NEW a,
         \E r : r = [x \in SUBSET DOMAIN t |->
                       IF x = {} THEN a ELSE FirstScreen!Shown(r[x \ {Max(x)}], t[Max(x)])]
  PROVE  \E r : /\ r = [x \in SUBSET DOMAIN t |->
                            IF x = {} THEN a ELSE FirstScreen!Shown(r[x \ {Max(x)}], t[Max(x)])]
                /\ AllShown(a, t) = r[DOMAIN t]
BY DEF AllShown, FirstScreen!FoldLeft, FirstScreen!MapThenFoldSet, FirstScreen!Max, Max

(* A text of any length takes a screen from one screen to the next.        *)
LEMMA TextShows ==
  ASSUME NEW a \in AScreen, NEW t \in Seq(Char)
  PROVE  \E h : IsShowing(a, t, h)
<1> DEFINE n == Len(t)
           F == [p \in AScreen \X Char |-> FirstScreen!Shown(p[1], p[2])]
           IsFold(r) == r = [x \in SUBSET DOMAIN t |->
                               IF x = {} THEN a ELSE FirstScreen!Shown(r[x \ {Max(x)}], t[Max(x)])]
<1>1. n \in Nat /\ DOMAIN t = 1 .. n /\ t \in [1 .. n -> Char]
  OBVIOUS
<1>3. ASSUME NEW b \in AScreen, NEW ch \in Char
      PROVE  FirstScreen!Shown(b, ch) \in AScreen /\ F[<<b, ch>>] = FirstScreen!Shown(b, ch)
  <2>1. FirstScreen!Shown(b, ch) \in AScreen
    BY ShownKind
  <2>2. <<b, ch>> \in AScreen \X Char /\ <<b, ch>>[1] = b /\ <<b, ch>>[2] = ch
    OBVIOUS
  <2> QED BY <2>1, <2>2
<1>4. F \in [AScreen \X Char -> AScreen]
  <2>1. ASSUME NEW p \in AScreen \X Char PROVE FirstScreen!Shown(p[1], p[2]) \in AScreen
    <3>1. p[1] \in AScreen /\ p[2] \in Char
      BY <2>1
    <3> QED BY <1>3, <3>1
  <2> QED BY <2>1
<1> HIDE DEF n, F
<1>6. PICK q \in [SUBSET (1 .. n) -> AScreen] : IsChain(n, F, a, t, q)
  BY <1>1, <1>4, ChainExists, Zenon
<1> DEFINE P0 == {x \in SUBSET (1 .. n) :
                    q[x] = IF x = {} THEN a ELSE FirstScreen!Shown(q[x \ {Max(x)}], t[Max(x)])}
<1>7. SUBSET (1 .. n) \subseteq P0
  <2>1. {} \in P0
    BY <1>6 DEF IsChain
  <2>2. ASSUME NEW x \in SUBSET (1 .. n), Max(x) \in x
        PROVE  x \in P0
    <3>1. q[x] = F[<<q[x \ {Max(x)}], t[Max(x)]>>]
      BY <1>6, <2>2 DEF IsChain
    <3>2. q[x \ {Max(x)}] \in AScreen /\ t[Max(x)] \in Char
      BY <1>1, <1>6, <2>2
    <3> QED BY <1>3, <2>2, <3>1, <3>2
  <2> HIDE DEF P0
  <2> QED BY <1>1, <2>1, <2>2, SubsetInduction
<1>8. IsFold(q)
  BY <1>1, <1>6, <1>7
<1>9. PICK r : IsFold(r) /\ AllShown(a, t) = r[DOMAIN t]
  <2>1. \E r : IsFold(r)
    BY <1>8
  <2> QED BY <2>1, ShownFold
<1> DEFINE P == {x \in SUBSET (1 .. n) : r[x] \in AScreen}
<1>10. SUBSET (1 .. n) \subseteq P
  <2>1. {} \in P
    <3>1. r[{}] = a
      BY <1>9
    <3> QED BY <3>1
  <2>2. ASSUME NEW x \in SUBSET (1 .. n), Max(x) \in x, x \ {Max(x)} \in P
        PROVE  x \in P
    <3>1. r[x] = FirstScreen!Shown(r[x \ {Max(x)}], t[Max(x)])
      BY <1>1, <1>9, <2>2
    <3>2. r[x \ {Max(x)}] \in AScreen /\ t[Max(x)] \in Char
      BY <1>1, <2>2
    <3>3. r[x] \in AScreen
      BY <1>3, <3>1, <3>2
    <3> QED BY <3>3
  <2> HIDE DEF P
  <2> QED BY <1>1, <2>1, <2>2, SubsetInduction
<1> DEFINE P1 == {x \in SUBSET (1 .. n) :
                    r[x] = IF x = {} THEN a ELSE F[<<r[x \ {Max(x)}], t[Max(x)]>>]}
<1>11. SUBSET (1 .. n) \subseteq P1
  <2>1. {} \in P1
    BY <1>1, <1>9
  <2>2. ASSUME NEW x \in SUBSET (1 .. n), Max(x) \in x
        PROVE  x \in P1
    <3>1. r[x] = FirstScreen!Shown(r[x \ {Max(x)}], t[Max(x)])
      BY <1>1, <1>9, <2>2
    <3>2. r[x \ {Max(x)}] \in AScreen /\ t[Max(x)] \in Char
      BY <1>1, <1>10, <2>2
    <3> QED BY <1>3, <2>2, <3>1, <3>2
  <2> HIDE DEF P1
  <2> QED BY <1>1, <2>1, <2>2, SubsetInduction
<1>16. IsChain(n, F, a, t, r)
  BY <1>11 DEF IsChain
<1> DEFINE h == [k \in 0 .. n |-> r[1 .. k]]
<1>12. h[0] = a /\ h[n] = AllShown(a, t)
  <2>1. r[1 .. 0] = a
    BY <1>1, <1>16, ChainSteps
  <2>2. 0 \in 0 .. n /\ n \in 0 .. n /\ AllShown(a, t) = r[1 .. n]
    BY <1>1, <1>9
  <2>3. h[0] = r[1 .. 0] /\ h[n] = r[1 .. n]
    BY <2>2
  <2> QED BY <2>1, <2>2, <2>3
<1>13. ASSUME NEW k \in 0 .. n - 1
       PROVE  h[k + 1] = FirstScreen!Shown(h[k], t[k + 1])
  <2>1. r[1 .. k + 1] = F[<<r[1 .. k], t[k + 1]>>]
    BY <1>1, <1>16, ChainSteps
  <2>2. 1 .. k \in SUBSET (1 .. n) /\ k \in 0 .. n /\ k + 1 \in 0 .. n /\ k + 1 \in 1 .. n
    BY <1>1
  <2>3. r[1 .. k] \in AScreen /\ t[k + 1] \in Char
    BY <1>1, <1>10, <2>2
  <2>4. F[<<r[1 .. k], t[k + 1]>>] = FirstScreen!Shown(r[1 .. k], t[k + 1])
    BY <1>3, <2>3
  <2> QED BY <2>1, <2>2, <2>4
<1>14. ASSUME NEW k \in 0 .. n
       PROVE  h[k] \in AScreen
  <2>1. 1 .. k \in SUBSET (1 .. n)
    BY <1>1
  <2> QED BY <1>10, <2>1
<1> HIDE DEF h
<1>15. IsShowing(a, t, h)
  BY <1>12, <1>13, <1>14 DEF IsShowing, n
<1> QED BY <1>15

------------------------------------------------------------------------------
(* With everything in place the first console shows what it looks like.    *)
LEMMA FullLooks ==
  ASSUME NEW s, Full(s)
  PROVE  Looks(s) \in AScreen /\ Sim(s, Looks(s))
<1> DEFINE k == s.console[0]
           a == Looks(s)
<1>1. Loose(s, 0)
  BY FullIsLoose, ConsolesFit
<1>2. /\ Visible(s) = View(s.video, k.origin) /\ k.queue = << >>
      /\ k.row \in 0 .. LINES - 1 /\ k.column \in 0 .. WIDTH
      /\ k.cursor = k.origin + k.row * WIDTH + k.column
  BY FullIsSeen, Zenon
<1>3. k.escape \in {"no", "ESC", "ESC ["} /\ k.cursor \in Nat
  BY <1>1, FirstKind, Zenon
<1>4. Visible(s) \in Texts
  BY <1>1, VisibleKind
<1>5. a.text = Visible(s) /\ a.row = k.row /\ a.column = k.column /\ a.escape = k.escape
  BY <1>2 DEF Looks
<1>6. a \in AScreen
  BY <1>2, <1>3, <1>4 DEF Looks, AScreen
<1> HIDE DEF a
<1>7. Len(k.queue) <= k.column /\ k.cursor + Len(k.queue) = k.origin + k.row * WIDTH + k.column
  <2> DEFINE at == k.cursor
             column == k.column
  <2>1. Len(k.queue) = 0
    BY <1>2
  <2>2. at \in Nat /\ column \in 0 .. WIDTH
    BY <1>2, <1>3
  <2> HIDE DEF at, column
  <2>3. 0 <= column /\ at + 0 = at
    BY <2>2, SizesFit
  <2> QED BY <1>2, <2>1, <2>3 DEF at, column
<1> QED BY <1>1, <1>5, <1>6, <1>7 DEF Sim, Draw, a

(* And it shows nothing else.                                              *)
LEMMA SimLooks ==
  ASSUME NEW s, Full(s), NEW a, Sim(s, a)
  PROVE  Looks(s) = a
<1> DEFINE b == Looks(s)
<1>1. b \in AScreen /\ Sim(s, b)
  BY FullLooks
<1>2. a \in AScreen
  BY DEF Sim, Draw
<1> HIDE DEF b
<1>3. a.text = b.text /\ a.row = b.row /\ a.column = b.column /\ a.escape = b.escape
  BY <1>1 DEF Sim, Draw
<1> QED BY <1>1, <1>2, <1>3, SameScreen DEF b

(* A flush with nothing waiting is not seen.                               *)
LEMMA FlushLooks ==
  ASSUME NEW s, Full(s)
  PROVE  Looks(flush(s, 0)) = Looks(s)
<1>1. Sim(s, Looks(s))
  BY FullLooks
<1>2. Full(flush(s, 0)) /\ Sim(flush(s, 0), Looks(s))
  BY <1>1, FlushSim DEF Sim
<1> QED BY <1>2, SimLooks

(* What a screen looks like after an ESC M in its first row.               *)
Pushed(b, column) ==
    /\ b.text[0] = [x \in 0 .. WIDTH - 1 |-> Blank]
    /\ b.row = 0 /\ b.column = column /\ b.escape = "no"

(* ESC M in the first row, by any of the three ways to scroll down.        *)
LEMMA EscMPushes ==
  ASSUME NEW s, NEW a, Sim(s, a), a.row = 0, a.escape = "ESC"
  PROVE  LET u == out_char(s, 0, "M") IN Full(u) /\ Pushed(Looks(u), a.column)
<1> DEFINE f == flush(s, 0)
           p == flush(f, 0)
           w == scroll_down(p, 0)
           z == flush(w, 0)
           u == [z EXCEPT !.console[0].escape = "no"]
<1>1. Draw(s, a) /\ a.escape = s.console[0].escape /\ a \in AScreen
  BY SimWrites
<1>2. Full(f) /\ Sim(f, a)
  BY <1>1, FlushSim
<1>3. Draw(f, a) /\ f.console[0].row = 0
  BY <1>2 DEF Sim, Draw
<1>4. out_char(s, 0, "M") = u
  <2>1. s.console[0].escape = "ESC"
    BY <1>1
  <2>2. out_char(s, 0, "M") = do_escape(s, 0)
    BY <2>1 DEF out_char, parse_escape
  <2> QED BY <1>3, <2>2 DEF do_escape, Pending
<1> HIDE DEF f
<1>5. Full(p) /\ Sim(p, a)
  BY <1>3, FlushSim
<1> HIDE DEF p
<1>6. /\ p.console[0].row = 0 /\ p.console[0].column = a.column /\ 0 \in Line
      /\ Rest(p) /\ OrgRight(p)
  BY <1>5, SimWrites, ConsolesFit DEF Full
<1>7. /\ Rest(w) /\ OrgRight(w)
      /\ w.console[0].row = p.console[0].row /\ w.console[0].column = p.console[0].column
      /\ \E v \in [0 .. VIDEO - 1 -> Word] : w.video = Blanked(v, w.console[0].origin)
  BY <1>6, ScrollDownRests
<1> HIDE DEF w
<1>8. Full(w) /\ Loose(w, 0)
  BY <1>6, <1>7, FullIsLoose DEF Full
<1>9. w.console[0].origin \in Nat /\ w.console[0].origin + screen_size <= VIDEO
  BY <1>8, FirstKind, Zenon
<1>10. View(w.video, w.console[0].origin) = [y \in 0 .. LINES - 1 |-> [x \in 0 .. WIDTH - 1 |-> Blank]]
  <2> DEFINE o == w.console[0].origin
  <2>1. PICK v \in [0 .. VIDEO - 1 -> Word] : w.video = Blanked(v, o)
    BY <1>7
  <2>2. o \in Nat /\ o + screen_size <= VIDEO
    BY <1>9
  <2> HIDE DEF o
  <2>3. View(Blanked(v, o), o) = [y \in 0 .. LINES - 1 |-> [x \in 0 .. WIDTH - 1 |-> Blank]]
    BY <2>2, BlankedAll
  <2> QED BY <2>1, <2>3 DEF o
<1>11. Full(z) /\ Looks(z) = Looks(w)
  BY <1>6, <1>8, FlushLooks, FlushIsFull
<1> HIDE DEF z
<1>12. Full(u)
  BY <1>6, <1>11, FullEscaped
<1>13. z \in State /\ z.console[0] \in Kind
  <2>1. Loose(z, 0)
    BY <1>6, <1>11, FullIsLoose
  <2> QED BY <1>6, <2>1, LooseKind
<1>14. Looks(u) = [Looks(z) EXCEPT !.escape = "no"]
  <2> DEFINE j == [z.console[0] EXCEPT !.escape = "no"]
  <2>1. u.video = z.video /\ u.console[0] = j
    BY <1>6, <1>13 DEF State
  <2>2. j.row = z.console[0].row /\ j.column = z.console[0].column /\ j.origin = z.console[0].origin
        /\ j.escape = "no"
    BY <1>13 DEF Kind
  <2> HIDE DEF u, j
  <2> QED BY <2>1, <2>2 DEF Looks
<1> DEFINE b == Looks(w)
<1>15. /\ b.text = [y \in 0 .. LINES - 1 |-> [x \in 0 .. WIDTH - 1 |-> Blank]]
       /\ b.row = 0 /\ b.column = a.column /\ b \in AScreen
  BY <1>6, <1>7, <1>8, <1>10, FullLooks DEF Looks
<1> HIDE DEF b
<1> DEFINE d == [b EXCEPT !.escape = "no"]
<1>16. d.text = b.text /\ d.row = b.row /\ d.column = b.column /\ d.escape = "no"
  BY <1>15 DEF AScreen
<1>17. 0 \in 0 .. LINES - 1
  BY SizesFit
<1>18. Looks(u) = d
  BY <1>11, <1>14 DEF b
<1> HIDE DEF d, u
<1>19. Pushed(d, a.column)
  BY <1>15, <1>16, <1>17 DEF Pushed
<1> QED BY <1>4, <1>12, <1>18, <1>19

------------------------------------------------------------------------------
(* An ESC M is the end of a text.                                          *)
EndsInM(t) == \A i \in DOMAIN t : t[i] = "M" /\ (i = 1 \/ t[i - 1] = "ESC") => i = Len(t)

Pushes(a, t) ==
    LET before == AllShown(a, FirstScreen!Front(t)) IN
    FirstScreen!Last(t) = "M" /\ before.escape = "ESC" /\ before.row = 0

(* All characters but the last take a screen to the last screen but one.   *)
LEMMA BeforeLast ==
  ASSUME NEW a \in AScreen, NEW t \in Seq(Char), t # << >>, NEW h, IsShowing(a, t, h)
  PROVE  AllShown(a, FirstScreen!Front(t)) = h[Len(t) - 1]
<1> DEFINE m == Len(t) - 1
           f == FirstScreen!Front(t)
<1>1. Len(t) \in Nat \ {0} /\ m \in Nat
  OBVIOUS
<1>2. f = [i \in 1 .. m |-> t[i]]
  BY DEF FirstScreen!Front
<1>3. f \in Seq(Char) /\ Len(f) = m /\ \A k \in 0 .. m - 1 : f[k + 1] = t[k + 1]
  <2>1. \A i \in 1 .. m : t[i] \in Char
    BY <1>1
  <2> HIDE DEF m, f
  <2>2. f \in [1 .. m -> Char]
    BY <1>2, <2>1
  <2> QED BY <1>1, <1>2, <2>2
<1>4. Len(t) = m + 1
  BY <1>1
<1> HIDE DEF f, m
<1>5. PICK g : IsShowing(a, f, g)
  BY <1>3, TextShows
<1> DEFINE K == {k \in 0 .. m : g[k] = h[k]}
<1>6. 0 \in K
  <2>1. g[0] = a /\ h[0] = a
    BY <1>5 DEF IsShowing
  <2> QED BY <1>1, <2>1
<1>7. ASSUME NEW k \in 0 .. m - 1, k \in K
      PROVE  k + 1 \in K
  <2>1. g[k + 1] = FirstScreen!Shown(g[k], f[k + 1])
    BY <1>3, <1>5 DEF IsShowing
  <2>2. h[k + 1] = FirstScreen!Shown(h[k], t[k + 1])
    <3>1. k \in 0 .. Len(t) - 1
      BY <1>1, <1>4
    <3> QED BY <3>1 DEF IsShowing
  <2>3. f[k + 1] = t[k + 1] /\ g[k] = h[k] /\ k + 1 \in 0 .. m
    BY <1>1, <1>3, <1>7
  <2> QED BY <2>1, <2>2, <2>3
<1>8. m \in K
  <2> HIDE DEF K
  <2>1. 0 .. m \subseteq K
    BY <1>1, <1>6, <1>7, UpTo
  <2> QED BY <1>1, <2>1
<1>9. g[m] = AllShown(a, f)
  BY <1>3, <1>5 DEF IsShowing
<1> QED BY <1>8, <1>9 DEF m, f

(* A text is shown as a screen shows it.                                   *)
LEMMA TextShown ==
  ASSUME NEW s, Full(s), NEW t \in Seq(Char), t # << >>, EndsInM(t)
  PROVE  LET u == Printed(s, 0, t)
             a == Looks(s) IN
         /\ Full(u)
         /\ ~ Pushes(a, t) => Looks(u) = AllShown(a, t)
         /\ Pushes(a, t) => Pushed(Looks(u), AllShown(a, FirstScreen!Front(t)).column)
<1> DEFINE a == Looks(s)
           n == Len(t)
           m == n - 1
           u == Printed(s, 0, t)
<1>1. a \in AScreen /\ Sim(s, a)
  BY FullLooks
<1>2. Full(u)
  BY PrintedFull, ConsolesFit
<1> HIDE DEF a
<1>3. PICK g : IsWriting(0, s, t, g)
  <2>1. Writing(s, 0)
    BY <1>1, SimWrites
  <2> QED BY <2>1, TextWrites, ConsolesFit
<1>4. PICK h : IsShowing(a, t, h)
  BY <1>1, TextShows
<1>5. /\ n \in Nat \ {0} /\ m \in Nat /\ n = m + 1 /\ m \in 0 .. n /\ m \in 0 .. n - 1 /\ n \in 1 .. n
      /\ DOMAIN t = 1 .. n /\ \A i \in 1 .. n : t[i] \in Char
  OBVIOUS
<1>6. AllShown(a, FirstScreen!Front(t)) = h[m]
  BY <1>1, <1>4, BeforeLast
<1>7. FirstScreen!Last(t) = t[n]
  BY DEF FirstScreen!Last
<1>8. u = flush(g[n], 0)
  BY <1>3 DEF Printed, Written, IsWriting
<1> HIDE DEF u, n
<1>9. /\ g[0] = s /\ h[0] = a /\ h[n] = AllShown(a, t)
      /\ \A k \in 0 .. n - 1 : g[k + 1] = out_char(g[k], 0, t[k + 1]) /\ h[k + 1] = FirstScreen!Shown(h[k], t[k + 1])
      /\ \A k \in 0 .. n : h[k] \in AScreen
  BY <1>3, <1>4 DEF IsWriting, IsShowing, n
<1> HIDE DEF m
<1> DEFINE K == {k \in 0 .. m : Sim(g[k], h[k])}
<1>10. 0 \in K
  BY <1>1, <1>5, <1>9
<1>11. ASSUME NEW k \in 0 .. m - 1, k \in K
       PROVE  k + 1 \in K
  <2>1. k \in 0 .. n - 1 /\ k + 1 \in 1 .. n /\ k + 1 \in 0 .. m /\ k + 1 # n /\ k \in Nat
    BY <1>5
  <2>2. ~ (h[k].escape = "ESC" /\ t[k + 1] = "M")
    <3>1. SUFFICES ASSUME h[k].escape = "ESC", t[k + 1] = "M" PROVE FALSE
      OBVIOUS
    <3>2. k # 0
      <4>1. k = 0 => k + 1 = 1
        OBVIOUS
      <4>2. k + 1 = 1 => k + 1 = n
        BY <1>5, <2>1, <3>1 DEF EndsInM, n
      <4> QED BY <2>1, <4>1, <4>2
    <3> DEFINE j == k - 1
    <3>3. j \in 0 .. n - 1 /\ j + 1 = k /\ k \in 1 .. n /\ (k + 1) - 1 = k /\ j \in 0 .. n
      BY <1>5, <2>1, <3>2
    <3> HIDE DEF j
    <3>4. h[k] = FirstScreen!Shown(h[j], t[k]) /\ h[j] \in AScreen /\ t[k] \in Char
      BY <1>5, <1>9, <3>3
    <3>5. t[k] = "ESC"
      BY <3>1, <3>4, ShownKind
    <3>6. k + 1 = n
      BY <1>5, <2>1, <3>1, <3>3, <3>5 DEF EndsInM, n
    <3> QED BY <2>1, <3>6
  <2>3. Sim(out_char(g[k], 0, t[k + 1]), FirstScreen!Shown(h[k], t[k + 1]))
    <3> DEFINE x == g[k]
               y == h[k]
               ch == t[k + 1]
    <3>1. Sim(x, y) /\ ch \in Char /\ ~ (y.escape = "ESC" /\ ch = "M" /\ y.row = 0)
      BY <1>5, <1>11, <2>1, <2>2
    <3> HIDE DEF x, y, ch
    <3>2. Sim(out_char(x, 0, ch), FirstScreen!Shown(y, ch))
      BY <3>1, CharShown
    <3> QED BY <3>2 DEF x, y, ch
  <2>4. g[k + 1] = out_char(g[k], 0, t[k + 1]) /\ h[k + 1] = FirstScreen!Shown(h[k], t[k + 1])
    BY <1>9, <2>1
  <2> QED BY <2>1, <2>3, <2>4
<1>12. Sim(g[m], h[m])
  <2> HIDE DEF K
  <2>1. 0 .. m \subseteq K
    BY <1>5, <1>10, <1>11, UpTo
  <2>2. m \in K
    BY <1>5, <2>1
  <2> QED BY <2>2 DEF K
<1> DEFINE x == g[m]
           y == h[m]
           ch == t[n]
<1>13. g[n] = out_char(x, 0, ch) /\ h[n] = FirstScreen!Shown(y, ch)
  BY <1>5, <1>9
<1>14. Sim(x, y) /\ ch \in Char
  BY <1>5, <1>12
<1>15. Pushes(a, t) <=> ch = "M" /\ y.escape = "ESC" /\ y.row = 0
  BY <1>6, <1>7 DEF Pushes
<1> HIDE DEF x, y, ch
<1>16. ASSUME ~ Pushes(a, t) PROVE Looks(u) = AllShown(a, t)
  <2>1. Sim(g[n], h[n])
    BY <1>13, <1>14, <1>15, <1>16, CharShown
  <2>2. Sim(flush(g[n], 0), h[n])
    BY <2>1, FlushSim DEF Sim
  <2>3. Sim(u, h[n])
    BY <1>8, <2>2
  <2> QED BY <1>2, <1>9, <2>3, SimLooks
<1>17. ASSUME Pushes(a, t) PROVE Pushed(Looks(u), y.column)
  <2>1. Full(out_char(x, 0, "M")) /\ Pushed(Looks(out_char(x, 0, "M")), y.column)
    BY <1>14, <1>15, <1>17, EscMPushes
  <2>2. Full(g[n]) /\ Pushed(Looks(g[n]), y.column)
    BY <1>13, <1>15, <1>17, <2>1
  <2>3. Looks(u) = Looks(g[n])
    BY <1>8, <2>2, FlushLooks
  <2> QED BY <2>2, <2>3
<1>18. AllShown(a, FirstScreen!Front(t)) = y
  BY <1>6 DEF y
<1> QED BY <1>2, <1>16, <1>17, <1>18 DEF a, u

------------------------------------------------------------------------------
(* One step and another that leave the first console alone.                *)
LEMMA ApartTwice ==
  ASSUME NEW s, NEW u, NEW w, Apart(s, u), Apart(u, w)
  PROVE  Apart(s, w)
BY DEF Apart

(* What another console holds while a text is written.                     *)
LEMMA OtherKind ==
  ASSUME NEW c \in Line, NEW s, Loose(s, c)
  PROVE  LET k == s.console[c] IN
         /\ s \in State /\ k \in Kind /\ s.video \in [0 .. VIDEO - 1 -> Word]
         /\ k.row \in Int /\ k.column \in Int /\ k.queue \in Seq(Word)
         /\ k.origin \in Nat /\ k.cursor \in Nat /\ start(c) <= k.origin /\ start(c) <= k.cursor
BY BusyKind DEF Loose

(* A flush of another console.                                             *)
LEMMA FlushApart ==
  ASSUME NEW c \in Line, c # 0, NEW s, Loose(s, c)
  PROVE  Apart(s, flush(s, c))
<1> DEFINE k == s.console[c]
           u == flush(s, c)
           q == k.queue
           at == k.cursor
<1>1. /\ s \in State /\ s.video \in [0 .. VIDEO - 1 -> Word] /\ q \in Seq(Word)
      /\ at \in Nat /\ start(c) <= at
  BY OtherKind, Zenon
<1>2. 0 \in Line \ {c} /\ limit(0) <= start(c) /\ limit(0) \in Nat /\ start(c) \in Nat
  BY OthersBehind, ConsolesFit
<1>3. /\ \A d \in Line \ {c} : u.console[d] = s.console[d]
      /\ u.video = Stored(s.video, q, at)
  BY <1>1, FlushIs
<1> HIDE DEF u, q, at
<1>4. ASSUME NEW m \in 0 .. VIDEO - 1, m < limit(0)
      PROVE  u.video[m] = s.video[m]
  <2>1. m < at
    BY <1>1, <1>2, <1>4, SizesFit
  <2>2. at \in Int
    BY <1>1
  <2> QED BY <1>1, <1>3, <2>1, <2>2, StoredBehind
<1>5. u.console[0] = s.console[0]
  BY <1>2, <1>3
<1> QED BY <1>4, <1>5 DEF Apart, u

(* A change of another console's record is no change of the first.         *)
LEMMA MovedApart ==
  ASSUME NEW c \in Line, c # 0, NEW s \in State, NEW k
  PROVE  Apart(s, [s EXCEPT !.console[c] = k])
<1>1. 0 \in Line
  BY ConsolesFit
<1> QED BY <1>1 DEF Apart, State

(* Setting the column of another console.                                  *)
LEMMA ColumnApart ==
  ASSUME NEW c \in Line, c # 0, NEW s, Loose(s, c), NEW x \in Int
  PROVE  LET u == [s EXCEPT !.console[c].column = x] IN Loose(u, c) /\ Apart(s, u)
<1>1. s \in State
  BY LooseKind
<1>2. [s EXCEPT !.console[c].column = x] = [s EXCEPT !.console[c] = [s.console[c] EXCEPT !.column = x]]
  BY <1>1 DEF State
<1> QED BY <1>1, <1>2, MovedApart, ColumnSet

(* A line feed on another console, also one that scrolls: the line it      *)
(* blanks is within its own memory or behind.                              *)
LEMMA LineFeedApart ==
  ASSUME NEW c \in Line, c # 0, NEW s, Loose(s, c)
  PROVE  Apart(s, LineFeed(s, c))
<1>1. CASE s.console[c].row = LINES - 1
  <2> DEFINE f == flush(s, c)
             w == scroll_up(f, c)
  <2>1. Full(f) /\ Apart(s, f)
    BY FlushIsFull, FlushApart
  <2>2. LineFeed(s, c) = w
    BY <1>1 DEF LineFeed, Pending
  <2> HIDE DEF f
  <2>3. Rest(f) /\ OrgRight(f)
    BY <2>1 DEF Full
  <2>4. /\ Rest(w) /\ OrgRight(w)
        /\ \A d \in Line \ {c} : w.console[d] = f.console[d]
        /\ \E v \in [0 .. VIDEO - 1 -> Word] :
              /\ w.video = Blanked(v, w.console[c].origin + chars)
              /\ \A m \in 0 .. VIDEO - 1 : m < start(c) => v[m] = f.video[m]
    <3>1. /\ Rest(w) /\ OrgRight(w)
          /\ \A d \in Line \ {c} : w.console[d] = f.console[d]
      BY <2>3, ScrollUpRests
    <3>2. \E v \in [0 .. VIDEO - 1 -> Word] :
             /\ w.video = Blanked(v, w.console[c].origin + chars)
             /\ \A m \in 0 .. chars - 1 :
                  v[w.console[c].origin + m] = f.video[f.console[c].origin + WIDTH + m]
             /\ \A m \in 0 .. VIDEO - 1 : m < start(c) => v[m] = f.video[m]
      BY <2>3, ScrollUpRests
    <3> HIDE DEF w
    <3>3. \E v \in [0 .. VIDEO - 1 -> Word] :
             /\ w.video = Blanked(v, w.console[c].origin + chars)
             /\ \A m \in 0 .. VIDEO - 1 : m < start(c) => v[m] = f.video[m]
      BY <3>2
    <3> QED BY <3>1, <3>3, Zenon
  <2> HIDE DEF w
  <2>5. Full(w)
    BY <2>4 DEF Full
  <2>6. Loose(w, c)
    BY <2>5, FullIsLoose
  <2> DEFINE o == w.console[c].origin
  <2>7. o \in Nat /\ start(c) <= o
    BY <2>6, OtherKind, Zenon
  <2>8. PICK v \in [0 .. VIDEO - 1 -> Word] :
              /\ w.video = Blanked(v, o + chars)
              /\ \A m \in 0 .. VIDEO - 1 : m < start(c) => v[m] = f.video[m]
    BY <2>4
  <2> HIDE DEF o
  <2>9. 0 \in Line \ {c} /\ limit(0) <= start(c) /\ limit(0) \in Nat /\ start(c) \in Nat /\ chars \in Nat
    BY OthersBehind, ConsolesFit, SizesFit
  <2>10. ASSUME NEW m \in 0 .. VIDEO - 1, m < limit(0)
         PROVE  w.video[m] = f.video[m]
    <3> DEFINE dest == o + chars
    <3>1. m < dest /\ dest \in Int /\ m < start(c)
      BY <2>7, <2>9, <2>10, SizesFit
    <3> HIDE DEF dest
    <3>2. << >> \in Seq(Word)
      OBVIOUS
    <3>3. Blanked(v, dest)[m] = v[m]
      BY <3>1, <3>2, StoredBehind
    <3>4. v[m] = f.video[m]
      BY <2>8, <3>1
    <3> QED BY <2>8, <3>3, <3>4 DEF dest
  <2>11. Apart(f, w)
    BY <2>4, <2>9, <2>10 DEF Apart
  <2> QED BY <2>1, <2>2, <2>11, ApartTwice
<1>2. CASE s.console[c].row # LINES - 1
  <2>1. s \in State
    BY LooseKind
  <2>2. LineFeed(s, c) = [s EXCEPT !.console[c] = [s.console[c] EXCEPT !.row = @ + 1]]
    BY <1>2, <2>1 DEF LineFeed, State
  <2> QED BY <2>1, <2>2, MovedApart
<1> QED BY <1>1, <1>2

(* A newline on another console.                                           *)
LEMMA NewlineApart ==
  ASSUME NEW c \in Line, c # 0, NEW s, Loose(s, c)
  PROVE  Apart(s, newline(s, c))
<1> DEFINE u == [s EXCEPT !.console[c].column = 0]
           w == LineFeed(u, c)
<1>0. 0 \in Int
  OBVIOUS
<1>1. Loose(u, c) /\ Apart(s, u)
  BY <1>0, ColumnApart, Zenon
<1> HIDE DEF u
<1>2. Loose(w, c) /\ Apart(u, w)
  BY <1>1, LineFeedLoose, LineFeedApart
<1> HIDE DEF w
<1>3. Apart(w, flush(w, c))
  BY <1>2, FlushApart
<1>4. Apart(s, flush(w, c))
  BY <1>1, <1>2, <1>3, ApartTwice
<1> QED BY <1>4 DEF newline, w, u

(* A backspace on another console.                                         *)
LEMMA BackspaceApart ==
  ASSUME NEW c \in Line, c # 0, NEW s, Loose(s, c)
  PROVE  Apart(s, backspace(s, c))
<1> DEFINE k == s.console[c]
           left == [k EXCEPT !.column = @ - 1]
           up == [k EXCEPT !.row = @ - 1, !.column = IF k.row > 0 THEN WIDTH - 1 ELSE -1]
           j == IF k.column > 0 THEN left ELSE up
           u == [s EXCEPT !.console[c] = j]
<1>1. s \in State /\ k \in Kind /\ k.row \in Int /\ k.column \in Int
  BY OtherKind, Zenon
<1>2. left \in Kind /\ left.origin = k.origin /\ left.cursor = k.cursor
  <2>1. k.column - 1 \in Int
    BY <1>1
  <2> QED BY <1>1, <2>1, ColumnKind, Zenon
<1>3. up \in Kind /\ up.origin = k.origin /\ up.cursor = k.cursor
  <2> DEFINE r == k.row - 1
             x == IF k.row > 0 THEN WIDTH - 1 ELSE -1
  <2>1. up = [k EXCEPT !.row = r, !.column = x]
    BY <1>1 DEF Kind
  <2>2. r \in Int /\ x \in Int
    BY <1>1, SizesFit
  <2> HIDE DEF k, up, r, x
  <2>3. LET m == [k EXCEPT !.row = r, !.column = x] IN
        m \in Kind /\ m.origin = k.origin /\ m.cursor = k.cursor
    BY <1>1, <2>2 DEF Kind
  <2> QED BY <2>1, <2>3, Zenon
<1>4. backspace(s, c) = flush(u, c)
  <2>1. backspace(s, c) = flush(IF k.column > 0 THEN [s EXCEPT !.console[c] = left]
                                ELSE [s EXCEPT !.console[c] = up], c)
    BY <1>1 DEF backspace, State
  <2> HIDE DEF left, up
  <2> QED BY <2>1
<1> HIDE DEF left, up
<1>5. j \in Kind /\ j.origin = k.origin /\ j.cursor = k.cursor
  BY <1>2, <1>3
<1> HIDE DEF j
<1>6. Loose(u, c) /\ Apart(s, u)
  BY <1>1, <1>5, LooseMoved, MovedApart
<1> HIDE DEF u
<1>7. Apart(u, flush(u, c))
  BY <1>6, FlushApart
<1> QED BY <1>4, <1>6, <1>7, ApartTwice

(* A tab on another console.                                               *)
LEMMA TabApart ==
  ASSUME NEW c \in Line, c # 0, NEW s, Loose(s, c), s.console[c].column \in Nat
  PROVE  Apart(s, tab(s, c))
<1> DEFINE to == ((s.console[c].column + TAB) \div TAB) * TAB
           x == to - WIDTH
           u == [s EXCEPT !.console[c].column = x]
           w == [s EXCEPT !.console[c].column = to]
           b == IF to > WIDTH THEN LineFeed(u, c) ELSE w
<1>1. to \in Int /\ x \in Int
  <2>1. (s.console[c].column + TAB) \div TAB \in Nat
    <3>1. s.console[c].column + TAB \in Nat /\ TAB \in Nat \ {0}
      BY SizesFit
    <3> HIDE DEF to, x
    <3> QED BY <3>1, DivisionFacts
  <2> QED BY <2>1, SizesFit
<1>2. tab(s, c) = flush(b, c)
  BY DEF tab
<1> HIDE DEF to, x
<1>3. Loose(u, c) /\ Apart(s, u) /\ Loose(w, c) /\ Apart(s, w)
  BY <1>1, ColumnApart
<1> HIDE DEF u, w
<1>4. Loose(LineFeed(u, c), c) /\ Apart(u, LineFeed(u, c))
  BY <1>3, LineFeedLoose, LineFeedApart
<1>5. Loose(b, c) /\ Apart(s, b)
  BY <1>3, <1>4, ApartTwice
<1> HIDE DEF b
<1>6. Apart(b, flush(b, c))
  BY <1>5, FlushApart
<1> QED BY <1>2, <1>5, <1>6, ApartTwice

(* The escape state of another console.                                    *)
LEMMA EscapeSetApart ==
  ASSUME NEW c \in Line, c # 0, NEW s, Loose(s, c), NEW e
  PROVE  Apart(s, [s EXCEPT !.console[c].escape = e])
<1>1. s \in State
  BY LooseKind
<1>2. [s EXCEPT !.console[c].escape = e] = [s EXCEPT !.console[c] = [s.console[c] EXCEPT !.escape = e]]
  BY <1>1 DEF State
<1> QED BY <1>1, <1>2, MovedApart

(* Scrolling down another console.                                         *)
LEMMA ScrollDownApart ==
  ASSUME NEW c \in Line, c # 0, NEW f, Full(f)
  PROVE  LET w == scroll_down(f, c) IN Full(w) /\ Apart(f, w)
<1> DEFINE w == scroll_down(f, c)
<1>1. Rest(f) /\ OrgRight(f)
  BY DEF Full
<1>2. /\ Rest(w) /\ OrgRight(w)
      /\ \A d \in Line \ {c} : w.console[d] = f.console[d]
      /\ \E v \in [0 .. VIDEO - 1 -> Word] :
            /\ w.video = Blanked(v, w.console[c].origin)
            /\ \A m \in 0 .. VIDEO - 1 : m < start(c) => v[m] = f.video[m]
  <2>1. LET j == w.console[c] IN
        /\ Rest(w) /\ OrgRight(w)
        /\ j.row = f.console[c].row /\ j.column = f.console[c].column /\ j.escape = f.console[c].escape
        /\ \A d \in Line \ {c} : w.console[d] = f.console[d]
        /\ \E v \in [0 .. VIDEO - 1 -> Word] :
              /\ w.video = Blanked(v, j.origin)
              /\ \A m \in 0 .. VIDEO - 1 : m < start(c) => v[m] = f.video[m]
    BY <1>1, ScrollDownRests
  <2> HIDE DEF w
  <2> QED BY <2>1
<1> HIDE DEF w
<1>3. Full(w)
  BY <1>2 DEF Full
<1>4. Loose(w, c)
  BY <1>3, FullIsLoose
<1> DEFINE o == w.console[c].origin
<1>5. o \in Nat /\ start(c) <= o
  BY <1>4, OtherKind, Zenon
<1>6. PICK v \in [0 .. VIDEO - 1 -> Word] :
            /\ w.video = Blanked(v, o)
            /\ \A m \in 0 .. VIDEO - 1 : m < start(c) => v[m] = f.video[m]
  BY <1>2
<1> HIDE DEF o
<1>7. 0 \in Line \ {c} /\ limit(0) <= start(c) /\ limit(0) \in Nat /\ start(c) \in Nat
  BY OthersBehind, ConsolesFit, SizesFit
<1>8. ASSUME NEW m \in 0 .. VIDEO - 1, m < limit(0)
      PROVE  w.video[m] = f.video[m]
  <2>1. m < o /\ o \in Int /\ m < start(c)
    BY <1>5, <1>7, <1>8, SizesFit
  <2>2. << >> \in Seq(Word)
    OBVIOUS
  <2>3. Blanked(v, o)[m] = v[m]
    BY <2>1, <2>2, StoredBehind
  <2>4. v[m] = f.video[m]
    BY <1>6, <2>1
  <2> QED BY <1>6, <2>3, <2>4
<1>9. Apart(f, w)
  BY <1>2, <1>7, <1>8 DEF Apart
<1> QED BY <1>3, <1>9 DEF w

(* ESC M on another console.                                               *)
LEMMA EscapeApart ==
  ASSUME NEW c \in Line, c # 0, NEW s, Loose(s, c)
  PROVE  Apart(s, do_escape(s, c))
<1> DEFINE f == flush(s, c)
           k == [f.console[c] EXCEPT !.row = @ - 1]
           p == flush(f, c)
           g == IF f.console[c].row = 0 THEN scroll_down(p, c) ELSE [f EXCEPT !.console[c].row = @ - 1]
           z == flush(g, c)
           u == [z EXCEPT !.console[c].escape = "no"]
<1>1. Full(f) /\ Apart(s, f)
  BY FlushIsFull, FlushApart
<1>2. do_escape(s, c) = u
  BY DEF do_escape, Pending
<1> HIDE DEF f
<1>3. f.console[c] \in Kind /\ f \in State /\ Loose(f, c) /\ f.console[c].row \in Int
  <2>1. Loose(f, c)
    BY <1>1, FullIsLoose
  <2> QED BY <2>1, OtherKind
<1>4. Full(p) /\ Apart(f, p)
  BY <1>3, FlushIsFull, FlushApart
<1> HIDE DEF p
<1>5. Loose(g, c) /\ Apart(f, g)
  <2>1. CASE f.console[c].row = 0
    <3>1. g = scroll_down(p, c)
      BY <2>1
    <3> HIDE DEF g
    <3>2. Full(g) /\ Apart(p, g)
      BY <1>4, <3>1, ScrollDownApart
    <3> QED BY <1>4, <3>2, FullIsLoose, ApartTwice
  <2>2. CASE f.console[c].row # 0
    <3>1. k \in Kind /\ k.origin = f.console[c].origin /\ k.cursor = f.console[c].cursor
      <4>1. f.console[c].row - 1 \in Int
        BY <1>3
      <4> QED BY <1>3, <4>1, RowKind, Zenon
    <3>2. g = [f EXCEPT !.console[c] = k]
      BY <1>3, <2>2 DEF State
    <3> HIDE DEF k, g
    <3> QED BY <1>3, <3>1, <3>2, LooseMoved, MovedApart
  <2> QED BY <2>1, <2>2
<1> HIDE DEF g
<1>6. Full(z) /\ Apart(g, z)
  BY <1>5, FlushIsFull, FlushApart
<1> HIDE DEF z
<1>7. Apart(z, u)
  BY <1>6, FullIsLoose, EscapeSetApart
<1> HIDE DEF u
<1>8. Apart(s, u)
  BY <1>1, <1>5, <1>6, <1>7, ApartTwice
<1> QED BY <1>2, <1>8

(* A letter on another console.                                            *)
LEMMA LetterApart ==
  ASSUME NEW c \in Line, c # 0, NEW s, Writing(s, c), NEW ch
  PROVE  Apart(s, letter(s, c, ch))
<1> DEFINE fed == LineFeed(s, c)
           cr == [fed EXCEPT !.console[c].column = 0]
           at == IF s.console[c].column >= WIDTH THEN flush(cr, c) ELSE s
           to == IF at.console[c].row = RAM_WORDS THEN flush(at, c) ELSE at
<1>0. Loose(s, c) /\ 0 \in Int
  BY DEF Writing
<1>1. Loose(fed, c) /\ Apart(s, fed)
  BY <1>0, LineFeedLoose, LineFeedApart
<1> HIDE DEF fed
<1>2. Loose(cr, c) /\ Apart(fed, cr)
  BY <1>0, <1>1, ColumnApart, Zenon
<1> HIDE DEF cr
<1>3. Loose(flush(cr, c), c) /\ Apart(cr, flush(cr, c))
  BY <1>2, FlushIsFull, FullIsLoose, FlushApart
<1>4. Apart(s, s)
  BY DEF Apart
<1>5. Loose(at, c) /\ Apart(s, at)
  BY <1>0, <1>1, <1>2, <1>3, <1>4, ApartTwice
<1>6. letter(s, c, ch) = Queued(to, c, ch)
  BY DEF letter, at, to, cr, fed
<1> HIDE DEF at
<1>7. Loose(flush(at, c), c) /\ Apart(at, flush(at, c))
  BY <1>5, FlushIsFull, FullIsLoose, FlushApart
<1>8. Loose(to, c) /\ Apart(s, to)
  BY <1>5, <1>7, ApartTwice
<1> HIDE DEF to
<1>9. Apart(to, Queued(to, c, ch))
  <2>1. to \in State /\ 0 \in Line
    BY <1>8, LooseKind, ConsolesFit
  <2> QED BY <2>1 DEF Queued, Apart, State
<1> QED BY <1>6, <1>8, <1>9, ApartTwice

(* Every character on another console.                                     *)
LEMMA CharApart ==
  ASSUME NEW c \in Line, c # 0, NEW s, Writing(s, c), NEW ch
  PROVE  Apart(s, out_char(s, c, ch))
<1> DEFINE k == s.console[c]
<1>1. Loose(s, c) /\ k.escape \in {"no", "ESC", "ESC ["} /\ k.column \in Nat
  <2>1. Loose(s, c) /\ k.column \in Nat
    BY SizesFit DEF Writing
  <2>2. k \in Kind
    BY <2>1, LooseKind
  <2> QED BY <2>1, <2>2, KindIs, Zenon
<1>2. Apart(s, s)
  BY DEF Apart
<1>3. CASE k.escape # "no"
  <2>1. out_char(s, c, ch) = parse_escape(s, c, ch)
    BY <1>3 DEF out_char
  <2>2. CASE k.escape = "ESC" /\ ch = "["
    <3>1. out_char(s, c, ch) = [s EXCEPT !.console[c].escape = "ESC ["]
      BY <2>1, <2>2 DEF parse_escape
    <3>2. Apart(s, [s EXCEPT !.console[c].escape = "ESC ["])
      BY <1>1, EscapeSetApart, Zenon
    <3> QED BY <3>1, <3>2
  <2>3. CASE k.escape = "ESC" /\ ch = "M"
    <3>1. out_char(s, c, ch) = do_escape(s, c)
      BY <2>1, <2>3 DEF parse_escape
    <3> QED BY <1>1, <3>1, EscapeApart
  <2>4. CASE k.escape = "ESC" /\ ch \notin {"[", "M"}
    BY <1>1, <2>1, <2>4, EscapeSetApart DEF parse_escape
  <2>5. CASE k.escape = "ESC ["
    BY <1>2, <2>1, <2>5 DEF parse_escape
  <2> QED BY <1>1, <1>3, <2>2, <2>3, <2>4, <2>5
<1>4. CASE k.escape = "no"
  <2>1. CASE ch = "NL"
    BY <1>1, <1>4, <2>1, NewlineApart DEF out_char
  <2>2. CASE ch = "BS"
    BY <1>1, <1>4, <2>2, BackspaceApart DEF out_char
  <2>3. CASE ch = "CR"
    <3> DEFINE u == [s EXCEPT !.console[c].column = 0]
    <3>1. out_char(s, c, ch) = flush(u, c)
      BY <1>4, <2>3 DEF out_char
    <3>2. 0 \in Int
      OBVIOUS
    <3>3. Loose(u, c) /\ Apart(s, u)
      BY <1>1, <3>2, ColumnApart, Zenon
    <3> HIDE DEF u
    <3>4. Apart(u, flush(u, c))
      BY <3>3, FlushApart
    <3> QED BY <3>1, <3>3, <3>4, ApartTwice
  <2>4. CASE ch = "TAB"
    BY <1>1, <1>4, <2>4, TabApart DEF out_char
  <2>5. CASE ch = "ESC"
    <3> DEFINE f == flush(s, c)
    <3>1. out_char(s, c, ch) = [f EXCEPT !.console[c].escape = "ESC"]
      BY <1>4, <2>5 DEF out_char
    <3>2. Full(f) /\ Apart(s, f)
      BY <1>1, FlushIsFull, FlushApart
    <3> HIDE DEF f
    <3>3. Apart(f, [f EXCEPT !.console[c].escape = "ESC"])
      BY <3>2, FullIsLoose, EscapeSetApart
    <3> QED BY <3>1, <3>2, <3>3, ApartTwice
  <2>6. CASE ch \notin {"NL", "BS", "CR", "TAB", "ESC"}
    <3>1. out_char(s, c, ch) = letter(s, c, ch)
      BY <1>4, <2>6 DEF out_char
    <3> QED BY <3>1, LetterApart
  <2> QED BY <2>1, <2>2, <2>3, <2>4, <2>5, <2>6
<1> QED BY <1>3, <1>4

(* A text on another console is not seen on the first.                     *)
LEMMA OtherText ==
  ASSUME NEW c \in Line, c # 0, NEW s, Full(s), NEW t \in Seq(Char)
  PROVE  LET u == Printed(s, c, t) IN Full(u) /\ Looks(u) = Looks(s)
<1> DEFINE u == Printed(s, c, t)
           n == Len(t)
<1>1. Full(u)
  BY PrintedFull
<1>2. PICK g : IsWriting(c, s, t, g)
  BY FullIsWriting, TextWrites
<1>3. u = flush(g[n], c)
  BY <1>2 DEF Printed, Written, IsWriting
<1>4. n \in Nat
  OBVIOUS
<1> DEFINE K == {k \in 0 .. n : Apart(s, g[k])}
<1>5. 0 \in K
  BY <1>2, <1>4 DEF IsWriting, Apart
<1>6. ASSUME NEW k \in 0 .. n - 1, k \in K
      PROVE  k + 1 \in K
  <2>1. g[k + 1] = out_char(g[k], c, t[k + 1]) /\ Writing(g[k], c) /\ k + 1 \in 0 .. n
    BY <1>2, <1>4 DEF IsWriting
  <2>2. Apart(g[k], out_char(g[k], c, t[k + 1]))
    BY <2>1, CharApart
  <2>3. Apart(s, g[k])
    BY <1>6
  <2>4. Apart(s, g[k + 1])
    BY <2>1, <2>2, <2>3, ApartTwice
  <2> QED BY <2>1, <2>4
<1>7. n \in K
  <2> HIDE DEF K, n
  <2>1. 0 .. n \subseteq K
    BY <1>4, <1>5, <1>6, UpTo
  <2> QED BY <1>4, <2>1
<1>8. Apart(s, g[n]) /\ Loose(g[n], c)
  BY <1>2, <1>4, <1>7 DEF IsWriting, Writing
<1> HIDE DEF u, n
<1>9. Apart(s, u)
  BY <1>3, <1>8, FlushApart, ApartTwice
<1>10. Looks(u) = Looks(s)
  BY <1>9, ApartLooks DEF Full
<1> QED BY <1>1, <1>10 DEF u

------------------------------------------------------------------------------
(* The calls, looked at.                                                   *)
LEMMA SameLooks ==
  ASSUME NEW s, NEW u, u.video = s.video, u.console = s.console
  PROVE  Looks(u) = Looks(s)
BY DEF Looks

(* clear_screen clears the first console when it is meant, and else leaves *)
(* it alone.                                                               *)
LEMMA ClearedLooks ==
  ASSUME NEW c \in Line, NEW s, Full(s)
  PROVE  LET u == Cleared(s, c) IN
         /\ c # 0 => Looks(u) = Looks(s)
         /\ c = 0 => Looks(u) = [text |-> BlankScreen, row |-> 0, column |-> 0, escape |-> Looks(s).escape]
<1>0. \A n \in Nat : n \in Int
  OBVIOUS
<1> DEFINE k == s.console[c]
           j == [k EXCEPT !.row = 0, !.column = 0]
           v == Blanked(s.video, k.origin)
           b == [s EXCEPT !.video = v, !.console[c] = j]
           u == flush(b, c)
<1>1. /\ s \in State /\ k \in Kind /\ s.video \in [0 .. VIDEO - 1 -> Word]
      /\ k.origin \in Nat /\ start(c) <= k.origin /\ k.cursor \in Nat /\ 0 \in Line
      /\ k.escape \in {"no", "ESC", "ESC ["}
  <2>1. Loose(s, c)
    BY FullIsLoose
  <2>2. /\ s \in State /\ k \in Kind /\ s.video \in [0 .. VIDEO - 1 -> Word]
        /\ k.origin \in Nat /\ start(c) <= k.origin /\ k.cursor \in Nat
    BY <2>1, OtherKind, Zenon
  <2> QED BY <2>2, KindIs, ConsolesFit, Zenon
<1>2. k.origin \in Int /\ k.queue = << >>
  <2>1. k.queue = << >>
    BY DEF Full, Rest, Still
  <2>2. k.origin \in Int
    BY <1>0, <1>1, Zenon
  <2> QED BY <2>1, <2>2
<1>3. v \in [0 .. VIDEO - 1 -> Word]
  BY <1>1, <1>2, BlankedKind
<1>4. Cleared(s, c) = u
  BY <1>1 DEF Cleared, State
<1>5. j \in Kind /\ j.origin = k.origin /\ j.cursor = k.cursor /\ j.queue = k.queue /\ j.escape = k.escape
      /\ j.row = 0 /\ j.column = 0
  <2>1. PICK z \in Int : z = 0
    OBVIOUS
  <2>2. j = [k EXCEPT !.row = z, !.column = z]
    BY <2>1
  <2>3. LET m == [k EXCEPT !.row = z, !.column = z] IN
        /\ m \in Kind /\ m.origin = k.origin /\ m.cursor = k.cursor /\ m.queue = k.queue
        /\ m.escape = k.escape /\ m.row = z /\ m.column = z
    <3> HIDE DEF k
    <3> QED BY <1>1 DEF Kind
  <2> HIDE DEF k, j
  <2> QED BY <2>1, <2>2, <2>3
<1> HIDE DEF j, v
<1>6. b \in State
  BY <1>1, <1>3, <1>5 DEF State
<1>7. b.video = v /\ b.console[c] = j /\ \A d \in Line \ {c} : b.console[d] = s.console[d]
  BY <1>1 DEF State
<1> HIDE DEF b
<1>8. LET i == u.console[c] IN
      /\ i.row = Within(j.row, LINES - 1) /\ i.column = Within(j.column, WIDTH)
      /\ i.origin = j.origin /\ i.escape = j.escape
      /\ \A d \in Line \ {c} : u.console[d] = b.console[d]
      /\ u.video = Stored(v, j.queue, j.cursor)
  BY <1>6, <1>7, FlushIs
<1> HIDE DEF u
<1>9. u.video = v
  <2>1. j.queue = << >> /\ j.cursor \in Int
    <3>1. k.cursor \in Int
      BY <1>0, <1>1, Zenon
    <3> HIDE DEF k
    <3> QED BY <1>2, <1>5, <3>1
  <2>2. Stored(v, << >>, j.cursor) = v
    BY <1>3, <2>1, StoredNothing
  <2> QED BY <1>8, <2>1, <2>2
<1>10. Within(j.row, LINES - 1) = 0 /\ Within(j.column, WIDTH) = 0
  BY <1>5, SizesFit DEF Within
<1>11. CASE c = 0
  <2>1. Loose(s, 0)
    BY <1>11, FullIsLoose
  <2>2. k.origin + screen_size <= VIDEO
    BY <1>11, <2>1, FirstKind, Zenon
  <2>3. View(v, k.origin) = BlankScreen
    BY <1>1, <2>2, BlankedAll DEF v, BlankScreen
  <2>4. /\ u.console[0].origin = k.origin /\ u.console[0].row = 0 /\ u.console[0].column = 0
        /\ u.console[0].escape = k.escape /\ Looks(s).escape = k.escape
    BY <1>5, <1>8, <1>10, <1>11 DEF Looks
  <2>5. Looks(u) = [text |-> View(u.video, u.console[0].origin), row |-> u.console[0].row,
                    column |-> u.console[0].column, escape |-> u.console[0].escape]
    BY DEF Looks
  <2> QED BY <1>4, <1>9, <1>11, <2>3, <2>4, <2>5
<1>12. CASE c # 0
  <2>1. limit(0) <= start(c) /\ limit(0) \in Nat /\ start(c) \in Nat
    BY <1>12, OthersBehind
  <2>2. ASSUME NEW m \in 0 .. VIDEO - 1, m < limit(0)
        PROVE  u.video[m] = s.video[m]
    <3> DEFINE o == k.origin
    <3>1. o \in Int /\ start(c) <= o /\ v = Blanked(s.video, o)
      BY <1>1, <1>2 DEF v
    <3> HIDE DEF o
    <3>2. m < o
      BY <2>1, <2>2, <3>1, SizesFit
    <3>3. << >> \in Seq(Word)
      OBVIOUS
    <3>4. Blanked(s.video, o)[m] = s.video[m]
      BY <1>1, <3>1, <3>2, <3>3, StoredBehind
    <3> QED BY <1>9, <3>1, <3>4
  <2>3. u.console[0] = s.console[0]
    BY <1>1, <1>7, <1>8, <1>12
  <2>4. Apart(s, u)
    BY <2>2, <2>3 DEF Apart
  <2>5. Looks(u) = Looks(s)
    BY <2>4, ApartLooks DEF Full
  <2> QED BY <1>4, <1>12, <2>5
<1> QED BY <1>11, <1>12

(* What a call leaves on the screen.                                       *)
LEMMA HereLooks == FirstScreen!Here = Looks(Here)
BY DEF FirstScreen!Here, Looks, Here, Shows, View

(* What a call leaves is what its routine computes.                        *)
LEMMA BecomesLooks ==
  ASSUME NEW u, Becomes(u)
  PROVE  /\ Shows(0)' = Looks(u).text /\ console[0].row' = Looks(u).row
         /\ console[0].column' = Looks(u).column /\ console[0].escape' = Looks(u).escape
<1>1. video' = u.video /\ console' = u.console
  BY DEF Becomes
<1>2. Shows(0)' = View(u.video, u.console[0].origin)
  BY <1>1 DEF Shows, View
<1> QED BY <1>1, <1>2 DEF Looks

firstVars == <<Shows(0), console[0].row, console[0].column, console[0].escape>>

(* What is not seen is no step.                                            *)
LEMMA Unseen ==
  ASSUME NEW u, Becomes(u), Looks(u) = Looks(Here)
  PROVE  UNCHANGED firstVars
<1>1. /\ Shows(0)' = Looks(Here).text /\ console[0].row' = Looks(Here).row
      /\ console[0].column' = Looks(Here).column /\ console[0].escape' = Looks(Here).escape
  BY BecomesLooks
<1>2. /\ Shows(0) = Looks(Here).text /\ console[0].row = Looks(Here).row
      /\ console[0].column = Looks(Here).column /\ console[0].escape = Looks(Here).escape
  BY DEF Looks, Here, Shows, View
<1> QED BY <1>1, <1>2 DEF firstVars

(* A text on the first console is one on the screen.                       *)
LEMMA TextStep ==
  ASSUME NEW s, Full(s), Looks(s) = Looks(Here), NEW t \in Text[0] \cup {Notice}, Becomes(Printed(s, 0, t))
  PROVE  FirstScreen!Write(t) \/ FirstScreen!ReverseFeed(t)
<1> DEFINE u == Printed(s, 0, t)
           a == Looks(s)
           b == Looks(u)
<1>1. t \in Seq(Char) /\ t # << >> /\ EndsInM(t)
  <2>1. 0 \in 0 .. NR_CONSOLES - 1
    BY SizesFit
  <2> QED BY <2>1, ScreenAssumption DEF EndsInM
<1>2. /\ ~ Pushes(a, t) => b = AllShown(a, t)
      /\ Pushes(a, t) => Pushed(b, AllShown(a, FirstScreen!Front(t)).column)
  BY <1>1, TextShown
<1>3. a = FirstScreen!Here
  BY HereLooks
<1>4. /\ Shows(0)' = b.text /\ console[0].row' = b.row
      /\ console[0].column' = b.column /\ console[0].escape' = b.escape
  BY BecomesLooks
<1>5. FirstScreen!Before(t) = AllShown(a, FirstScreen!Front(t))
  BY <1>3 DEF FirstScreen!Before, AllShown
<1>6. FirstScreen!PushesDown(t) <=> Pushes(a, t)
  BY <1>5 DEF FirstScreen!PushesDown, Pushes
<1> HIDE DEF a, b, u
<1>7. CASE Pushes(a, t)
  <2>1. Pushed(b, FirstScreen!Before(t).column)
    BY <1>2, <1>5, <1>7
  <2>2. FirstScreen!ReverseFeed(t)
    BY <1>4, <1>6, <1>7, <2>1 DEF FirstScreen!ReverseFeed, Pushed, FirstScreen!BlankRow, FirstScreen!Column
  <2> QED BY <2>2
<1>8. CASE ~ Pushes(a, t)
  <2>1. b = FirstScreen!FoldLeft(FirstScreen!Shown, FirstScreen!Here, t)
    BY <1>2, <1>3, <1>8 DEF AllShown
  <2>2. FirstScreen!Becomes(b)
    BY <1>4 DEF FirstScreen!Becomes
  <2> QED BY <1>6, <1>8, <2>1, <2>2 DEF FirstScreen!Write
<1> QED BY <1>7, <1>8

(* A clear is one of the screen, or is not seen.                           *)
LEMMA ClearStep ==
  ASSUME NEW c \in Line, NEW s, Full(s), Looks(s) = Looks(Here), Becomes(Cleared(s, c))
  PROVE  FirstScreen!Clear \/ UNCHANGED firstVars
<1> DEFINE u == Cleared(s, c)
<1>1. CASE c # 0
  <2>1. Looks(u) = Looks(Here)
    BY <1>1, ClearedLooks
  <2> QED BY <2>1, Unseen
<1>2. CASE c = 0
  <2>1. Looks(u) = [text |-> BlankScreen, row |-> 0, column |-> 0, escape |-> Looks(s).escape]
    BY <1>2, ClearedLooks
  <2>2. /\ Shows(0)' = Looks(u).text /\ console[0].row' = Looks(u).row
        /\ console[0].column' = Looks(u).column /\ console[0].escape' = Looks(u).escape
    BY BecomesLooks
  <2>3. console[0].escape = Looks(s).escape
    <3>1. Looks(Here).escape = console[0].escape
      BY DEF Looks, Here
    <3> QED BY <3>1
  <2> HIDE DEF u
  <2>4. Shows(0)' = BlankScreen /\ console[0].row' = 0 /\ console[0].column' = 0
        /\ console[0].escape' = console[0].escape
    BY <2>1, <2>2, <2>3
  <2> QED BY <2>4 DEF FirstScreen!Clear, FirstScreen!Row, FirstScreen!BlankRow, FirstScreen!Column, BlankScreen
<1> QED BY <1>1, <1>2

(* At the start the first console is an empty screen.                      *)
LEMMA FirstInit == ConsoleInit => FirstScreen!Init
<1> SUFFICES ASSUME ConsoleInit PROVE FirstScreen!Init
  OBVIOUS
<1>1. 0 \in Line /\ start(0) \in Nat /\ start(0) + screen_size <= VIDEO
  <2>1. 0 \in Line /\ start(0) \in Nat /\ limit(0) \in Nat /\ limit(0) <= VIDEO
        /\ limit(0) = start(0) + page_size /\ page_size \in Nat /\ screen_size <= page_size
    BY ConsolesFit
  <2> QED BY <2>1, SizesFit
<1>2. console[0].row = 0 /\ console[0].column = 0 /\ console[0].escape = "no" /\ console[0].origin = start(0)
  BY <1>1 DEF ConsoleInit
<1>3. ASSUME NEW y \in 0 .. LINES - 1, NEW x \in 0 .. WIDTH - 1
      PROVE  video[console[0].origin + y * WIDTH + x] = Blank
  <2>1. y * WIDTH \in Nat /\ y * WIDTH + x \in 0 .. screen_size - 1
    BY PlaceOnScreen
  <2>2. start(0) + y * WIDTH + x \in 0 .. VIDEO - 1
    BY <1>1, <2>1, SizesFit
  <2> QED BY <1>2, <2>2 DEF ConsoleInit
<1>4. Shows(0) = [y \in 0 .. LINES - 1 |-> [x \in 0 .. WIDTH - 1 |-> Blank]]
  BY <1>3 DEF Shows
<1> QED BY <1>2, <1>4 DEF FirstScreen!Init, FirstScreen!Row, FirstScreen!BlankRow, FirstScreen!Column

(* Every call is a step of the screen on the first console or is not seen  *)
(* there.                                                                  *)
LEMMA FirstStep ==
  ASSUME ScreensInv, [ConsoleNext]_consoleVars
  PROVE  FirstScreen!Next \/ UNCHANGED firstVars
<1>1. Full(Here) /\ Rest(Here) /\ 0 \in Line /\ current \in Line
  BY ConsolesFit DEF ScreensInv, Full, Rest, Origins, State, Here
<1>2. CASE \E c \in Line : \E t \in Text[c] : write(c, t)
  <2>1. PICK c \in Line : \E t \in Text[c] : write(c, t)
    BY <1>2
  <2>2. PICK t \in Text[c] : write(c, t)
    BY <2>1
  <2>3. Becomes(Printed(Here, c, t))
    BY <2>2 DEF write
  <2>4. CASE c = 0
    <3>1. t \in Text[0] \cup {Notice} /\ Becomes(Printed(Here, 0, t))
      BY <2>2, <2>3, <2>4
    <3>2. FirstScreen!Write(t) \/ FirstScreen!ReverseFeed(t)
      BY <1>1, <3>1, TextStep
    <3> QED BY <3>1, <3>2 DEF FirstScreen!Next
  <2>5. CASE c # 0
    <3>1. t \in Seq(Char)
      <4>1. c \in 0 .. NR_CONSOLES - 1
        BY ConsolesFit, SizesFit DEF Line
      <4> QED BY <4>1, ScreenAssumption
    <3>2. Looks(Printed(Here, c, t)) = Looks(Here)
      BY <1>1, <2>5, <3>1, OtherText
    <3> QED BY <2>3, <3>2, Unseen
  <2> QED BY <2>4, <2>5
<1>3. CASE \E c \in Line : switch_to(c)
  <2>1. PICK c \in Line : Becomes(Seen(Here, c))
    BY <1>3 DEF switch_to
  <2>2. Looks(Seen(Here, c)) = Looks(Here)
    BY DEF Looks, Seen, Here
  <2> QED BY <2>1, <2>2, Unseen
<1> DEFINE z == console_origin0(Here)
<1>5. Rest(z) /\ z \in State /\ (\A d \in Line : z.console[d].origin = start(d)) /\ Looks(z) = Looks(Here)
  BY <1>1, OriginsZeroed DEF Rest, Origins
<1> HIDE DEF z
<1>6. ASSUME NEW c \in Line, NEW b \in BOOLEAN
      PROVE  LET w == [Seen(z, c) EXCEPT !.software = b] IN Full(w) /\ Looks(w) = Looks(Here)
  <2> DEFINE u == Seen(z, c)
             w == [u EXCEPT !.software = b]
  <2>1. Full(u) /\ u.console = z.console
    BY <1>5, SeenFull
  <2>2. u.video = z.video
    BY <1>5 DEF Seen, State
  <2>3. u \in State /\ \A d \in Line : u.console[d].origin = start(d)
    BY <1>5, <2>1 DEF Full, Rest, Origins
  <2> HIDE DEF u
  <2>4. Full(w)
    BY <2>1, <2>3, SoftwareSet
  <2>5. w.video = z.video /\ w.console = z.console
    BY <2>1, <2>2, <2>3 DEF State
  <2> HIDE DEF w
  <2>6. Looks(w) = Looks(Here)
    BY <1>5, <2>5, SameLooks
  <2> QED BY <2>4, <2>6 DEF w, u
<1>7. CASE toggle_scroll
  <2> DEFINE u == Seen(z, current)
             b == ~ u.software
             w == [u EXCEPT !.software = b]
  <2>1. b \in BOOLEAN
    OBVIOUS
  <2>2. u \in State
    BY <1>1, <1>5, SeenFull DEF Full, Rest, Origins
  <2>3. Becomes(Printed([u EXCEPT !.software = ~@], 0, Notice))
    BY <1>7 DEF toggle_scroll, z
  <2>4. [u EXCEPT !.software = ~@] = w
    OBVIOUS
  <2>5. Full(w) /\ Looks(w) = Looks(Here)
    <3> HIDE DEF b
    <3> QED BY <1>1, <1>6, <2>1
  <2> HIDE DEF w
  <2>6. Becomes(Printed(w, 0, Notice))
    BY <2>3, <2>4
  <2>7. Notice \in Text[0] \cup {Notice}
    OBVIOUS
  <2>8. FirstScreen!Write(Notice) \/ FirstScreen!ReverseFeed(Notice)
    BY <2>5, <2>6, <2>7, TextStep
  <2> QED BY <2>7, <2>8 DEF FirstScreen!Next
<1>8. CASE console_stop
  <2> DEFINE w == [Seen(z, 0) EXCEPT !.software = TRUE]
  <2>1. Becomes(w)
    BY <1>8 DEF console_stop, z
  <2>2. Looks(w) = Looks(Here)
    BY <1>1, <1>6
  <2> HIDE DEF w
  <2> QED BY <2>1, <2>2, Unseen
<1>9. CASE clear_screen
  <2>1. Becomes(Cleared(Here, current))
    BY <1>9 DEF clear_screen
  <2>2. FirstScreen!Clear \/ UNCHANGED firstVars
    BY <1>1, <2>1, ClearStep
  <2> QED BY <2>2 DEF FirstScreen!Next
<1>10. CASE blue_screen
  <2> DEFINE s == Seen(Here, 0)
  <2>1. Full(s)
    BY <1>1, SeenFull
  <2>2. Looks(s) = Looks(Here)
    BY DEF Looks, Seen, Here
  <2>3. Becomes(Cleared(s, 0))
    BY <1>10 DEF blue_screen
  <2> HIDE DEF s
  <2>4. FirstScreen!Clear \/ UNCHANGED firstVars
    BY <1>1, <2>1, <2>2, <2>3, ClearStep
  <2> QED BY <2>4 DEF FirstScreen!Next
<1>11. CASE UNCHANGED consoleVars
  BY <1>11 DEF consoleVars, firstVars, Shows
<1> QED BY <1>2, <1>3, <1>7, <1>8, <1>9, <1>10, <1>11 DEF ConsoleNext

(* For any consoles, screen and video memory, any text, and whatever is    *)
(* done on the other consoles: the first console implements Screen.        *)
THEOREM FirstConsoleIsScreen == ConsoleSpec => FirstIsScreen
<1>1. ScreensInv /\ [ConsoleNext]_consoleVars => ScreensInv'
  BY ScreensStep
<1>2. ScreensInv /\ [ConsoleNext]_consoleVars => [FirstScreen!Next]_firstVars
  BY FirstStep
<1>3. ConsoleSpec => []ScreensInv
  BY <1>1, ScreensInitially, PTL DEF ConsoleSpec
<1>4. ConsoleSpec => FirstScreen!Init /\ [][FirstScreen!Next]_firstVars
  BY <1>2, <1>3, FirstInit, PTL DEF ConsoleSpec
<1>5. FirstScreen!Init /\ [][FirstScreen!Next]_firstVars => FirstIsScreen
  BY PTL DEF FirstIsScreen, FirstScreen!Spec, firstVars
<1> QED BY <1>4, <1>5, PTL

==============================================================================
