----------------------------- MODULE Interrupts -----------------------------
(***************************************************************************)
(* How the CPU goes in and out of the kernel: the entry code save, the     *)
(* interrupt handlers, the system call gate and restart (kernel.asm), and  *)
(* interrupt() and unhold() (process.c), which turn a device interrupt     *)
(* into a message at once or put it on a list until the kernel is left.    *)
(*                                                                         *)
(* A step is what runs between two points at which an interrupt may come   *)
(* in, so unhold() is taken apart into the loads and stores of its         *)
(* pointers.  The ready lists are Kernel's; here only curr_proc is kept,   *)
(* and whatever takes or gives the CPU may choose any process that the     *)
(* lists could hold.                                                       *)
(***************************************************************************)
EXTENDS Integers, Sequences, FiniteSets

CONSTANTS CLOCK, TTY,        \* the clock task and the terminal task (the keyboard's line)
          Device,            \* the tasks that own an interrupt line, with CLOCK and TTY
          SYS,               \* the system task, which uses lock_ready and lock_unready
          User, IDLE, NIL,
          MaxInterrupts      \* bound on the interrupts of one behaviour

Task == Device \cup {SYS}
Proc == Task \cup User

ASSUME InterruptAssumption ==
    /\ IsFiniteSet(Device) /\ {CLOCK, TTY} \subseteq Device /\ SYS \notin Device
    /\ Task \cap User = {} /\ {IDLE, NIL} \cap Proc = {} /\ IDLE # NIL
    /\ MaxInterrupts \in Nat

VARIABLES
    stack,      \* the activities inside the kernel, the running one last
    intsOn,     \* IF, the interrupt flag of the CPU
    masked,     \* lines masked at the interrupt controller
    switching,  \* set by the lock_ routines
    section,    \* the system task is inside a lock_ routine
    curr,       \* curr_proc
    heldHead, heldTail, nextHeld, intHeld,  \* the list of held interrupts
    taken       \* interrupts so far

heldVars == <<heldHead, heldTail, nextHeld, intHeld>>
vars == <<stack, intsOn, masked, switching, section, curr, heldVars, taken>>

(* An activity: what it is of, where it is, the process it is about and a  *)
(* register.                                                               *)
Activity(of, at, who) == [of |-> of, at |-> at, who |-> who, reg |-> NIL]
Steps == {"entry", "body", "exit", "handler", "alarm", "tick", "interrupt", "deliver",
          "schedule", "handled", "halt", "woken", "restart", "load", "store", "tail",
          "cleartail", "clear", "convert", "while", "switch"}

(* 0 for the activity that left a process, 1 and more for nested ones;     *)
(* -1 (255 as the byte it is) while a process runs.                        *)
kernel_reenter == Len(stack) - 1

InProcess == stack = <<>>
Top == stack[Len(stack)]
At(step) == stack # <<>> /\ Top.at = step
Goto(f) == stack' = [stack EXCEPT ![Len(stack)] = f]
Continue(step) == Goto([Top EXCEPT !.at = step])

Init ==
    /\ stack = <<>> /\ intsOn = TRUE /\ masked = {}
    /\ switching = FALSE /\ section = FALSE
    /\ curr \in Task
    /\ heldHead = NIL /\ heldTail = NIL
    /\ nextHeld = [t \in Device |-> NIL] /\ intHeld = [t \in Device |-> FALSE]
    /\ taken = 0

(* A task that is made ready takes the CPU of anything but a task.         *)
MakeReady(t) == curr' = IF curr \in Task THEN curr ELSE t

(* The way out of the kernel, whatever brought the CPU in.                 *)
Leave == Goto(Activity("kernel", "restart", NIL)) /\ intsOn' = FALSE

-----------------------------------------------------------------------------
(* Mutant of hwint: the line is not masked while its handler runs.         *)
hwintUnmasked(t) ==
    /\ intsOn /\ t \notin masked /\ taken < MaxInterrupts
    /\ taken' = taken + 1
    /\ stack' = Append(stack, Activity(t, "handler", t))
    /\ UNCHANGED <<intsOn, masked, switching, section, curr, heldVars>>

(* hwint_master and hwint_slave: save, mask the line, EOI, sti, call the   *)
(* handler.  Nothing can come between these steps.                         *)
hwint(t) ==
    /\ intsOn /\ t \notin masked /\ taken < MaxInterrupts
    /\ taken' = taken + 1
    /\ masked' = masked \cup {t}
    /\ stack' = Append(stack, Activity(t, "handler", t))
    /\ UNCHANGED <<intsOn, switching, section, curr, heldVars>>

(* The keyboard's handler stores the key and leaves tty_wake_time for the   *)
(* next clock tick to see: it makes no kernel call.                        *)
keyboard_handler ==
    /\ At("handler") /\ Top.of = TTY
    /\ Continue("handled")
    /\ UNCHANGED <<intsOn, masked, switching, section, curr, heldVars, taken>>

(* The disk's handler, as any handler of a device with one task.           *)
wini_handler ==
    /\ At("handler") /\ Top.of \notin {CLOCK, TTY}
    /\ Continue("interrupt")
    /\ UNCHANGED <<intsOn, masked, switching, section, curr, heldVars, taken>>

(* clock_handler: tty_wakeup when a terminal's time has come, then the     *)
(* clock task's alarm, which ends the handler, or else the quantum.        *)
clock_handler ==
    /\ \/ /\ At("handler") /\ Top.of = CLOCK
          /\ Goto([Top EXCEPT !.at = "interrupt", !.who = TTY]) \/ Continue("alarm")
       \/ /\ At("alarm")
          /\ Goto([Top EXCEPT !.at = "interrupt", !.who = CLOCK]) \/ Continue("tick")
    /\ UNCHANGED <<intsOn, masked, switching, section, curr, heldVars, taken>>

(* The quantum may or may not be over; lock_schedule when it is.           *)
clock_tick ==
    /\ At("tick")
    /\ \/ switching' = TRUE /\ Continue("schedule")
       \/ UNCHANGED switching /\ Continue("handled")
    /\ UNCHANGED <<intsOn, masked, section, curr, heldVars, taken>>

(* The hunt that ends schedule() finds the task that is running, and if     *)
(* none is, any process of the lower classes or IDLE.                      *)
lock_schedule ==
    /\ At("schedule")
    /\ curr' \in IF curr \in Task THEN {curr} ELSE User \cup {IDLE}
    /\ switching' = FALSE
    /\ Continue("handled")
    /\ UNCHANGED <<intsOn, masked, section, heldVars, taken>>

-----------------------------------------------------------------------------
AfterInterrupt == IF Top.of = CLOCK /\ Top.who = TTY THEN "alarm" ELSE "handled"

(* Mutant of MustHold: nested interrupts are delivered at once.            *)
MustHoldSwitching == switching

MustHold == kernel_reenter # 0 \/ switching

(* Mutant of Hold: next_held of the new last element is not reset.         *)
HoldStaleLink(t) ==
    IF intHeld[t] THEN UNCHANGED heldVars
    ELSE /\ intHeld' = [intHeld EXCEPT ![t] = TRUE]
         /\ heldHead' = IF heldHead = NIL THEN t ELSE heldHead
         /\ nextHeld' = IF heldHead # NIL /\ heldTail # NIL
                        THEN [nextHeld EXCEPT ![heldTail] = t] ELSE nextHeld
         /\ heldTail' = t

(* The list insertion of interrupt().  A NIL tail under a non-NIL head is  *)
(* dereferenced: the store goes to the bottom of memory.                   *)
Hold(t) ==
    IF intHeld[t] THEN UNCHANGED heldVars
    ELSE /\ intHeld' = [intHeld EXCEPT ![t] = TRUE]
         /\ heldHead' = IF heldHead = NIL THEN t ELSE heldHead
         /\ nextHeld' = [d \in Device |-> CASE d = t -> NIL
                                            [] d # t /\ d = heldTail /\ heldHead # NIL -> t
                                            [] OTHER -> nextHeld[d]]
         /\ heldTail' = t

interrupt_hold ==
    /\ At("interrupt") /\ MustHold
    /\ Hold(Top.who)
    /\ Continue(AfterInterrupt)
    /\ UNCHANGED <<intsOn, masked, switching, section, curr, taken>>

interrupt_check ==
    /\ At("interrupt") /\ ~ MustHold
    /\ Continue("deliver")
    /\ UNCHANGED <<intsOn, masked, switching, section, curr, heldVars, taken>>

(* The message and the inline ready(), or int_blocked for a task that does *)
(* not wait for an interrupt.                                              *)
Deliver(t) == UNCHANGED curr \/ MakeReady(t)

interrupt_deliver ==
    /\ At("deliver")
    /\ Deliver(Top.who)
    /\ Continue(AfterInterrupt)
    /\ UNCHANGED <<intsOn, masked, switching, section, heldVars, taken>>

(* The rest of hwint: cli, unmask, and back to what was interrupted, or to *)
(* restart when that was a process.  hlt ends with the interrupt it waited *)
(* for.                                                                    *)
handler_return ==
    /\ At("handled")
    /\ masked' = masked \ {Top.of}
    /\ IF kernel_reenter = 0
       THEN Leave
       ELSE LET below == Len(stack) - 1
            IN  /\ stack' = [SubSeq(stack, 1, below) EXCEPT
                                ![below].at = IF @ = "halt" THEN "woken" ELSE @]
                /\ UNCHANGED intsOn
    /\ UNCHANGED <<switching, section, curr, heldVars, taken>>

-----------------------------------------------------------------------------
(* flyanx_386_syscall: save and sti; sys_call then reads curr_proc.        *)
trap ==
    /\ InProcess /\ curr # IDLE /\ ~ section
    /\ stack' = <<Activity("syscall", "entry", curr)>>
    /\ UNCHANGED <<intsOn, masked, switching, section, curr, heldVars, taken>>

sys_call_caller ==
    /\ At("entry")
    /\ Goto([Top EXCEPT !.at = "body", !.reg = curr])
    /\ UNCHANGED <<intsOn, masked, switching, section, curr, heldVars, taken>>

(* flyanx_send and flyanx_receive: the caller may block, another process   *)
(* may become ready, and any process may have the CPU afterwards.          *)
sys_call_body ==
    /\ At("body")
    /\ curr' \in Proc \cup {IDLE}
    /\ Continue("exit")
    /\ UNCHANGED <<intsOn, masked, switching, section, heldVars, taken>>

sys_call_return ==
    /\ At("exit")
    /\ Leave
    /\ UNCHANGED <<masked, switching, section, curr, heldVars, taken>>

(* idle_task halts at level 0; the interrupts that wake it are nested.     *)
idle_task ==
    /\ \/ InProcess /\ curr = IDLE /\ stack' = <<Activity("idle", "halt", NIL)>> /\ UNCHANGED intsOn
       \/ At("woken") /\ Leave
    /\ UNCHANGED <<masked, switching, section, curr, heldVars, taken>>

(* The system task in lock_ready or lock_unready of another process.       *)
lock_enter ==
    /\ InProcess /\ curr = SYS /\ ~ section
    /\ section' = TRUE /\ switching' = TRUE
    /\ UNCHANGED <<stack, intsOn, masked, curr, heldVars, taken>>

lock_leave ==
    /\ InProcess /\ curr = SYS /\ section
    /\ section' = FALSE /\ switching' = FALSE
    /\ UNCHANGED <<stack, intsOn, masked, curr, heldVars, taken>>

-----------------------------------------------------------------------------
(* restart, with interrupts off: unhold() unless nothing is held or a      *)
(* switch is in progress, then on to the process.                          *)
restart ==
    /\ At("restart")
    /\ IF heldHead = NIL \/ switching
       THEN Continue("switch")
       ELSE Goto([Top EXCEPT !.at = "load", !.who = heldHead])
    /\ UNCHANGED <<intsOn, masked, switching, section, curr, heldVars, taken>>

(* Mutant of unhold_next: int_held is cleared before the task is off the   *)
(* list.                                                                   *)
unhold_nextClearsFirst ==
    /\ \/ At("load") /\ Goto([Top EXCEPT !.at = "store", !.reg = nextHeld[Top.who]])
          /\ intHeld' = [intHeld EXCEPT ![Top.who] = FALSE]
          /\ UNCHANGED heldHead
       \/ At("store") /\ heldHead' = Top.reg /\ Goto([Top EXCEPT !.at = "tail", !.reg = NIL])
          /\ UNCHANGED intHeld
    /\ UNCHANGED <<intsOn, masked, switching, section, curr, heldTail, nextHeld, taken>>

(* unhold(), from the load of proc->next_held to the test of the loop.     *)
(* interrupt_lock is called before interrupt() and interrupt_unlock after  *)
(* it, so from the second round on the rest of the loop is interruptible.  *)
unhold_next ==
    /\ \/ At("load") /\ Goto([Top EXCEPT !.at = "store", !.reg = nextHeld[Top.who]])
          /\ UNCHANGED heldHead
       \/ At("store") /\ heldHead' = Top.reg /\ Goto([Top EXCEPT !.at = "tail", !.reg = NIL])
    /\ UNCHANGED <<intsOn, masked, switching, section, curr, heldTail, nextHeld, intHeld, taken>>

unhold_tail ==
    /\ \/ At("tail") /\ Continue(IF heldHead = NIL THEN "cleartail" ELSE "clear")
          /\ UNCHANGED heldTail
       \/ At("cleartail") /\ heldTail' = NIL /\ Continue("clear")
    /\ UNCHANGED <<intsOn, masked, switching, section, curr, heldHead, nextHeld, intHeld, taken>>

unhold_clear ==
    /\ At("clear")
    /\ intHeld' = [intHeld EXCEPT ![Top.who] = FALSE]
    /\ Continue("convert")
    /\ UNCHANGED <<intsOn, masked, switching, section, curr, heldHead, heldTail, nextHeld, taken>>

unhold_convert ==
    /\ At("convert")
    /\ IF MustHold THEN Hold(Top.who) /\ UNCHANGED curr
                   ELSE Deliver(Top.who) /\ UNCHANGED heldVars
    /\ intsOn' = TRUE
    /\ Continue("while")
    /\ UNCHANGED <<masked, switching, section, taken>>

unhold_while ==
    /\ At("while")
    /\ IF heldHead = NIL THEN Goto(Activity("kernel", "switch", NIL))
       ELSE Goto([Top EXCEPT !.at = "load", !.who = heldHead])
    /\ UNCHANGED <<intsOn, masked, switching, section, curr, heldVars, taken>>

(* over_unhold: the stack pointer moves into the process table; iretd.     *)
switch_to_process ==
    /\ At("switch")
    /\ stack' = <<>> /\ intsOn' = TRUE
    /\ UNCHANGED <<masked, switching, section, curr, heldVars, taken>>

-----------------------------------------------------------------------------
InKernel ==
    \/ keyboard_handler \/ wini_handler \/ clock_handler \/ clock_tick \/ lock_schedule
    \/ interrupt_hold \/ interrupt_check \/ interrupt_deliver \/ handler_return
    \/ sys_call_caller \/ sys_call_body \/ sys_call_return \/ idle_task
    \/ restart \/ unhold_next \/ unhold_tail \/ unhold_clear \/ unhold_convert
    \/ unhold_while \/ switch_to_process

Next ==
    \/ \E t \in Device : hwint(t)
    \/ trap \/ lock_enter \/ lock_leave
    \/ InKernel

(* The CPU executes instructions: kernel code that can go on does.         *)
Spec == Init /\ [][Next]_vars /\ WF_vars(InKernel)

-----------------------------------------------------------------------------
(* Every register and list field holds a value of its kind, and the stack  *)
(* is no deeper than one activity and one handler per line.                *)
TypeOK ==
    /\ \A i \in DOMAIN stack :
          stack[i] \in [of : Device \cup {"syscall", "idle", "kernel"}, at : Steps,
                        who : Proc \cup {NIL}, reg : Proc \cup {NIL, IDLE}]
    /\ kernel_reenter \in -1..Cardinality(Device)
    /\ intsOn \in BOOLEAN /\ switching \in BOOLEAN /\ section \in BOOLEAN
    /\ masked \subseteq Device /\ curr \in Proc \cup {IDLE}
    /\ heldHead \in Device \cup {NIL} /\ heldTail \in Device \cup {NIL}
    /\ nextHeld \in [Device -> Device \cup {NIL}] /\ intHeld \in [Device -> BOOLEAN]
    /\ taken \in 0..MaxInterrupts

(***************************************************************************)
(* The handler of a line is never entered while it is still running, at    *)
(* whatever depth: the controller's mask outlives the EOI and the sti      *)
(* (hwint_master, hwint_slave).                                            *)
(***************************************************************************)
InHandler(f) == f.of \in Device /\ f.at \in {"handler", "alarm", "tick", "interrupt",
                                             "deliver", "schedule", "handled"}

OneHandlerPerLine ==
    \A i, j \in DOMAIN stack :
        InHandler(stack[i]) /\ InHandler(stack[j]) /\ stack[i].of = stack[j].of => i = j

(***************************************************************************)
(* A device interrupt is made a message, and its task readied, only while  *)
(* no system call and no other such delivery is half done: the test of     *)
(* kernel_reenter keeps the process table in one hand (interrupt).         *)
(***************************************************************************)
DeliveryAlone ==
    Cardinality({i \in DOMAIN stack : stack[i].at \in {"body", "deliver", "convert"}}) <= 1

(***************************************************************************)
(* No two activities overlap that must not: one handler with itself, one   *)
(* edit of the process table with another.                                 *)
(***************************************************************************)
NoOverlap == OneHandlerPerLine /\ DeliveryAlone

(* The held interrupts reached from a task through next_held.              *)
ReachedFrom(h) ==
    {t \in Device : \A R \in SUBSET Device :
        (h \in R /\ \A d \in R : nextHeld[d] # NIL => nextHeld[d] \in R) => t \in R}

Reached(h) == IF h = NIL THEN {} ELSE ReachedFrom(h)

(***************************************************************************)
(* A task on the list of held interrupts has int_held set, whatever        *)
(* unhold() has done to the list: no task is put on it twice, and the      *)
(* round that clears the flag has taken the task off (interrupt, unhold).  *)
(***************************************************************************)
ListedIsHeld == \A t \in Reached(heldHead) : intHeld[t]

(***************************************************************************)
(* Whatever interrupts come in, and even after unhold() has damaged its    *)
(* own list, the kernel gets back to a process, or halts with nothing to   *)
(* run (restart, unhold).                                                  *)
(***************************************************************************)
KernelLeft == InProcess \/ At("halt")
KernelReturns == []<>KernelLeft

(* process.c:57 says that an interrupt that is put on the list is dealt    *)
(* with when unhold is called later: a held interrupt is on the list, or   *)
(* is the one that unhold is about.                                        *)
HeldIsKept ==
    \A t \in Device : intHeld[t] =>
        t \in Reached(heldHead) \/ (stack # <<>> /\ stack[1].at \in {"store", "tail", "cleartail", "clear"}
                                     /\ stack[1].who = t)

(* kernel.asm:419 says that interrupts are off to protect the stack frame  *)
(* of the process that restart is about to start.                          *)
FrameProtected == At("switch") => ~ intsOn

(* message.c:272 says that the running process is the one that made the    *)
(* system call.                                                            *)
CallerIsTrapper ==
    \A i \in DOMAIN stack : stack[i].at = "body" => stack[i].reg = stack[i].who

(* process.c:31 says that no hardware interrupt may happen while a switch  *)
(* is in progress: while the system task is in a lock_ routine no device   *)
(* interrupt is delivered.                                                 *)
SwitchUndisturbed == section => ~ At("deliver")
=============================================================================
