------------------------- MODULE Interrupts_proofs -------------------------
(***************************************************************************)
(* For any number of lines and processes: the handler of a line never runs *)
(* twice at once, device interrupts become messages one at a time, and the *)
(* list of held interrupts, which unhold takes apart with interrupts on,   *)
(* names only tasks whose int_held is set.                                 *)
(*                                                                         *)
(* Two things carry the induction.  Only handlers nest, and a nested one   *)
(* only ever puts its interrupt on the list: whatever else the kernel does *)
(* it does at the bottom of the stack.  And the list that unhold holds in  *)
(* its hands may lose members while handlers append to it, but never gets  *)
(* a cycle, and never gets back the task that unhold has taken off.        *)
(***************************************************************************)
EXTENDS Interrupts, FiniteSetTheorems, TLAPS

HandlerSteps == {"handler", "alarm", "tick", "interrupt", "deliver", "schedule", "handled"}
UnholdSteps  == {"load", "store", "tail", "cleartail", "clear", "convert", "while"}

Frame == [of : Device \cup {"syscall", "idle", "kernel"}, at : Steps,
          who : Proc \cup {NIL}, reg : Proc \cup {NIL, IDLE}]

(* What holds of the activity f at depth i: who it is about, and that only *)
(* handlers, and only such as deliver nothing, are above the first.        *)
FrameOK(i, f) ==
    /\ i > 1 => f.at \in HandlerSteps /\ f.at # "deliver"
    /\ f.at \in HandlerSteps => f.of \in Device /\ f.who \in Device
    /\ f.at \in UnholdSteps => f.who \in Device
    /\ f.at = "store" => f.reg \in Device \cup {NIL}
    /\ f.at = "entry" => f.who \in Proc

StackInv ==
    /\ stack \in Seq(Frame)
    /\ \A i \in DOMAIN stack : FrameOK(i, stack[i])
    /\ \A i \in DOMAIN stack : stack[i].at \in HandlerSteps => stack[i].of \in masked
    /\ \A i, j \in DOMAIN stack :
          stack[i].at \in HandlerSteps /\ stack[j].at \in HandlerSteps /\ stack[i].of = stack[j].of => i = j

RestOK ==
    /\ intsOn \in BOOLEAN /\ switching \in BOOLEAN /\ section \in BOOLEAN
    /\ masked \subseteq Device /\ curr \in Proc \cup {IDLE}
    /\ heldHead \in Device \cup {NIL} /\ heldTail \in Device \cup {NIL}
    /\ nextHeld \in [Device -> Device \cup {NIL}] /\ intHeld \in [Device -> BOOLEAN]
    /\ taken \in 0 .. MaxInterrupts

(* What a list of held interrupts reaches from h through next.             *)
Reach(next, h) ==
    {t \in Device : \A R \in SUBSET Device :
        (h \in R /\ \A d \in R : next[d] # NIL => next[d] \in R) => t \in R}

Chain(next, h) == IF h = NIL THEN {} ELSE Reach(next, h)

ListedInv == \A t \in Chain(nextHeld, heldHead) : intHeld[t]

NoCycle == \A d \in Chain(nextHeld, heldHead) : d \notin Chain(nextHeld, nextHeld[d])

TailEnds == heldTail # NIL => nextHeld[heldTail] = NIL

(* Where unhold is with the task that it takes off the list.               *)
UnholdInv ==
    stack # << >> =>
        /\ stack[1].at \in {"load", "store"} => heldHead = stack[1].who
        /\ stack[1].at = "store" /\ stack[1].reg # NIL => nextHeld[stack[1].who] = stack[1].reg
        /\ stack[1].at \in {"tail", "cleartail", "clear"} =>
              stack[1].who \notin Chain(nextHeld, heldHead) /\ intHeld[stack[1].who]

IInv == /\ RestOK /\ StackInv
        /\ ListedInv /\ NoCycle /\ TailEnds /\ UnholdInv

-----------------------------------------------------------------------------
(* The names of the parameters are different ones.                         *)
LEMMA Names ==
    /\ IsFiniteSet(Device) /\ CLOCK \in Device /\ TTY \in Device /\ NIL \notin Device /\ NIL \notin Proc
    /\ IDLE \notin Proc /\ Device \subseteq Task /\ Task \subseteq Proc /\ SYS \in Task /\ MaxInterrupts \in Nat
BY InterruptAssumption DEF Task, Proc

(* A set that contains h and all its members' successors contains the list.*)
LEMMA ReachBy ==
    ASSUME NEW next, NEW h, NEW R \in SUBSET Device, h \in R,
           \A d \in R : next[d] # NIL => next[d] \in R
    PROVE  Reach(next, h) \subseteq R
BY DEF Reach

(* The list contains its head and the successor of every member.           *)
LEMMA ReachClosed ==
    ASSUME NEW next \in [Device -> Device \cup {NIL}], NEW h \in Device
    PROVE  /\ h \in Reach(next, h)
           /\ \A d \in Reach(next, h) : next[d] # NIL => next[d] \in Reach(next, h)
<1>1. h \in Reach(next, h)
  BY DEF Reach
<1>2. ASSUME NEW d \in Reach(next, h), next[d] # NIL PROVE next[d] \in Reach(next, h)
  <2>1. d \in Device /\ next[d] \in Device
    BY <1>2 DEF Reach
  <2>2. ASSUME NEW R \in SUBSET Device, h \in R, \A e \in R : next[e] # NIL => next[e] \in R
        PROVE  next[d] \in R
    <3>1. d \in R
      BY <2>2, ReachBy
    <3> QED
      BY <1>2, <2>2, <3>1
  <2> QED
    BY <2>1, <2>2 DEF Reach
<1> QED
  BY <1>1, <1>2

(* The rest of the list from a member of it is part of it.                 *)
LEMMA ChainRest ==
    ASSUME NEW next \in [Device -> Device \cup {NIL}], NEW h \in Device \cup {NIL},
           NEW d \in Chain(next, h)
    PROVE  d \in Device /\ Chain(next, next[d]) \subseteq Chain(next, h)
<1>1. h \in Device /\ d \in Reach(next, h) /\ d \in Device /\ Chain(next, h) = Reach(next, h)
  BY DEF Chain, Reach
<1>2. CASE next[d] = NIL
  BY <1>1, <1>2 DEF Chain
<1>3. CASE next[d] # NIL
  <2>1. next[d] \in Reach(next, h) /\ Reach(next, h) \in SUBSET Device
    BY <1>1, <1>3, ReachClosed DEF Reach
  <2>2. \A e \in Reach(next, h) : next[e] # NIL => next[e] \in Reach(next, h)
    BY <1>1, ReachClosed
  <2>3. Reach(next, next[d]) \subseteq Reach(next, h)
    BY <2>1, <2>2, ReachBy
  <2> QED
    BY <1>1, <1>3, <2>3 DEF Chain
<1> QED
  BY <1>2, <1>3

(* What interrupt() does to the links of the list when it puts t on it.    *)
Linked(next, head, tail, t) ==
    [d \in Device |-> CASE d = t -> NIL [] d # t /\ d = tail /\ head # NIL -> t [] OTHER -> next[d]]

(* From anywhere on, the list has grown by t at most.                      *)
LEMMA LinkReach ==
    ASSUME NEW next \in [Device -> Device \cup {NIL}], NEW head, NEW tail, NEW t \in Device,
           NEW next2, next2 = Linked(next, head, tail, t), NEW h \in Device
    PROVE  Reach(next2, h) \subseteq Reach(next, h) \cup {t}
<1>1. next2[t] = NIL /\ \A d \in Device : next2[d] \in {NIL, t, next[d]}
  BY DEF Linked
<1>2. h \in Reach(next, h) /\ \A d \in Reach(next, h) : next[d] # NIL => next[d] \in Reach(next, h)
  BY ReachClosed
<1>3. Reach(next, h) \cup {t} \in SUBSET Device
  BY DEF Reach
<1>4. \A d \in Reach(next, h) \cup {t} : next2[d] # NIL => next2[d] \in Reach(next, h) \cup {t}
  BY <1>1, <1>2, <1>3
<1> QED
  BY <1>2, <1>3, <1>4, ReachBy

(* The list after t was put on it: one member more, no cycle, and a tail.  *)
LEMMA LinkList ==
    ASSUME NEW next \in [Device -> Device \cup {NIL}], NEW head \in Device \cup {NIL}, NEW tail,
           NEW t \in Device, t \notin Chain(next, head),
           NEW next2, next2 = Linked(next, head, tail, t),
           NEW head2, head2 = IF head = NIL THEN t ELSE head,
           \A d \in Chain(next, head) : d \notin Chain(next, next[d])
    PROVE  /\ next2 \in [Device -> Device \cup {NIL}] /\ next2[t] = NIL /\ head2 \in Device
           /\ Chain(next2, head2) \subseteq Chain(next, head) \cup {t}
           /\ \A d \in Chain(next2, head2) : d \notin Chain(next2, next2[d])
<1>1. /\ next2 \in [Device -> Device \cup {NIL}] /\ next2[t] = NIL
      /\ \A d \in Device : next2[d] \in {NIL, t, next[d]}
  BY DEF Linked
<1>2. t # NIL
  BY Names
<1>3. Reach(next2, t) \subseteq {t}
  <2>1. {t} \in SUBSET Device /\ t \in {t} /\ \A d \in {t} : next2[d] # NIL => next2[d] \in {t}
    BY <1>1
  <2> QED
    BY ONLY <2>1, ReachBy
<1>4. Chain(next2, head2) \subseteq Chain(next, head) \cup {t}
  <2>1. CASE head = NIL
    BY <1>2, <1>3, <2>1 DEF Chain
  <2>2. CASE head # NIL
    BY <2>2, LinkReach DEF Chain
  <2> QED
    BY <2>1, <2>2
<1>5. ASSUME NEW d \in Chain(next2, head2) PROVE d \notin Chain(next2, next2[d])
  <2>1. CASE d = t
    BY <1>1, <2>1 DEF Chain
  <2>2. CASE d # t
    <3>1. d \in Chain(next, head) /\ d \in Device /\ d \notin Chain(next, next[d])
      BY <1>4, <2>2 DEF Chain, Reach
    <3>2. CASE next2[d] = NIL
      BY <3>2 DEF Chain
    <3>3. CASE next2[d] = t
      BY <1>2, <1>3, <2>2, <3>3 DEF Chain
    <3>4. CASE next2[d] = next[d] /\ next[d] # NIL
      <4>1. Reach(next2, next[d]) \subseteq Reach(next, next[d]) \cup {t}
        BY <3>1, <3>4, LinkReach
      <4> QED
        BY <2>2, <3>1, <3>4, <4>1 DEF Chain
    <3> QED
      BY <1>1, <3>1, <3>2, <3>3, <3>4
  <2> QED
    BY <2>1, <2>2
<1> QED
  BY <1>1, <1>4, <1>5

-----------------------------------------------------------------------------
(* The stack: the running activity is replaced, a handler comes on top, or *)
(* the running handler ends.                                               *)

(* The running activity is one of the stack's, and anything but a handler  *)
(* that delivers nothing runs at its bottom.                               *)
LEMMA TopIs ==
    ASSUME StackInv, stack # << >>
    PROVE  /\ Len(stack) \in Nat \ {0} /\ Len(stack) \in DOMAIN stack /\ 1 \in DOMAIN stack
           /\ Top \in Frame /\ FrameOK(Len(stack), Top) /\ Top = stack[Len(stack)]
           /\ DOMAIN stack = 1 .. Len(stack)
           /\ \A i \in DOMAIN stack : stack[i] \in Frame /\ FrameOK(i, stack[i])
           /\ Top.at \in HandlerSteps => Top.of \in masked
           /\ Top.at \notin HandlerSteps \/ Top.at = "deliver" => Len(stack) = 1 /\ stack[1] = Top
<1>1. /\ Len(stack) \in Nat \ {0} /\ Len(stack) \in DOMAIN stack /\ 1 \in DOMAIN stack
      /\ DOMAIN stack = 1 .. Len(stack)
  BY DEF StackInv
<1>2. /\ Top \in Frame /\ FrameOK(Len(stack), Top) /\ Top = stack[Len(stack)]
      /\ \A i \in DOMAIN stack : stack[i] \in Frame /\ FrameOK(i, stack[i])
      /\ Top.at \in HandlerSteps => Top.of \in masked
  BY <1>1 DEF StackInv, Top
<1>3. ASSUME Top.at \notin HandlerSteps \/ Top.at = "deliver" PROVE Len(stack) = 1
  BY <1>1, <1>2, <1>3 DEF FrameOK
<1> QED
  BY <1>1, <1>2, <1>3

(* The running activity goes on as f.                                      *)
LEMMA GotoKeeps ==
    ASSUME StackInv, stack # << >>, NEW f \in Frame, Goto(f), FrameOK(Len(stack), f), UNCHANGED masked,
           f.at \in HandlerSteps => Top.at \in HandlerSteps /\ f.of = Top.of
    PROVE  /\ StackInv' /\ stack' # << >> /\ Len(stack') = Len(stack)
           /\ stack'[Len(stack)] = f /\ \A i \in DOMAIN stack : i # Len(stack) => stack'[i] = stack[i]
<1>1. /\ Len(stack) \in Nat \ {0} /\ Len(stack) \in DOMAIN stack /\ stack \in Seq(Frame)
      /\ Top = stack[Len(stack)] /\ DOMAIN stack = 1 .. Len(stack)
  BY TopIs DEF StackInv
<1>2. /\ stack' \in Seq(Frame) /\ Len(stack') = Len(stack) /\ DOMAIN stack' = DOMAIN stack
      /\ \A i \in DOMAIN stack : stack'[i] = IF i = Len(stack) THEN f ELSE stack[i]
  BY <1>1 DEF Goto
<1>3. \A i \in DOMAIN stack' : FrameOK(i, stack'[i])
  BY <1>1, <1>2 DEF StackInv
<1>4. \A i \in DOMAIN stack' : stack'[i].at \in HandlerSteps =>
         /\ stack[i].at \in HandlerSteps /\ stack'[i].of = stack[i].of
  BY <1>1, <1>2
<1>5. \A i \in DOMAIN stack' : stack'[i].at \in HandlerSteps => stack'[i].of \in masked'
  BY <1>2, <1>4 DEF StackInv
<1>6. \A i, j \in DOMAIN stack' :
         stack'[i].at \in HandlerSteps /\ stack'[j].at \in HandlerSteps /\ stack'[i].of = stack'[j].of => i = j
  BY <1>2, <1>4 DEF StackInv
<1> QED
  BY <1>1, <1>2, <1>3, <1>5, <1>6 DEF StackInv

(* The same in the words of Continue: only the step changes.               *)
LEMMA ContinueKeeps ==
    ASSUME StackInv, stack # << >>, NEW step \in Steps, Continue(step), UNCHANGED masked,
           FrameOK(Len(stack), [Top EXCEPT !.at = step]),
           step \in HandlerSteps => Top.at \in HandlerSteps
    PROVE  /\ StackInv' /\ stack' # << >> /\ Len(stack') = Len(stack)
           /\ stack'[Len(stack)] = [Top EXCEPT !.at = step]
           /\ \A i \in DOMAIN stack : i # Len(stack) => stack'[i] = stack[i]
<1>1. Top \in Frame
  BY TopIs
<1>2. PICK f : f = [Top EXCEPT !.at = step] /\ f \in Frame /\ f.at = step /\ f.of = Top.of
  BY <1>1 DEF Frame
<1>3. FrameOK(Len(stack), f) /\ Goto(f)
  BY <1>2 DEF Continue
<1> QED
  BY <1>2, <1>3, GotoKeeps

-----------------------------------------------------------------------------
(* Where unhold has a task in its hands.                                   *)
InHand == {"load", "store", "tail", "cleartail", "clear"}

(* A step that leaves the list alone, and does not take unhold to a place  *)
(* where it has a task in hand, keeps all that is said of the list.        *)
LEMMA ListSame ==
    ASSUME IInv, UNCHANGED heldVars,
           stack' # << >> => \/ stack'[1].at \notin InHand
                             \/ stack # << >> /\ stack'[1] = stack[1]
    PROVE  ListedInv' /\ NoCycle' /\ TailEnds' /\ UnholdInv'
<1>1. UNCHANGED <<heldHead, heldTail, nextHeld, intHeld>>
  BY DEF heldVars
<1>2. ListedInv' /\ NoCycle' /\ TailEnds'
  BY <1>1 DEF IInv, ListedInv, NoCycle, TailEnds
<1>3. UnholdInv'
  BY <1>1 DEF IInv, UnholdInv, InHand
<1> QED
  BY <1>2, <1>3

(* interrupt() puts a task on the list, and unhold is where it was.        *)
LEMMA HoldKeeps ==
    ASSUME IInv, NEW t \in Device, Hold(t),
           stack' # << >> => \/ stack'[1].at \notin InHand
                             \/ stack # << >> /\ stack'[1] = stack[1] /\ stack[1].who \in Device
    PROVE  /\ ListedInv' /\ NoCycle' /\ TailEnds' /\ UnholdInv'
           /\ heldHead' \in Device \cup {NIL} /\ heldTail' \in Device \cup {NIL}
           /\ nextHeld' \in [Device -> Device \cup {NIL}] /\ intHeld' \in [Device -> BOOLEAN]
<1>0. /\ heldHead \in Device \cup {NIL} /\ heldTail \in Device \cup {NIL}
      /\ nextHeld \in [Device -> Device \cup {NIL}] /\ intHeld \in [Device -> BOOLEAN]
  BY DEF IInv, RestOK
<1>1. CASE intHeld[t]
  <2>1. UNCHANGED heldVars
    BY <1>1 DEF Hold
  <2> QED
    BY <1>0, <2>1, ListSame DEF heldVars
<1>2. CASE ~ intHeld[t]
  <2>1. /\ intHeld' = [intHeld EXCEPT ![t] = TRUE]
        /\ heldHead' = IF heldHead = NIL THEN t ELSE heldHead
        /\ nextHeld' = Linked(nextHeld, heldHead, heldTail, t)
        /\ heldTail' = t
    BY <1>2 DEF Hold, Linked
  <2>2. t \notin Chain(nextHeld, heldHead)
    BY <1>2 DEF IInv, ListedInv
  <2>3. \A d \in Chain(nextHeld, heldHead) : d \notin Chain(nextHeld, nextHeld[d])
    BY DEF IInv, NoCycle
  <2>4. /\ nextHeld' \in [Device -> Device \cup {NIL}] /\ nextHeld'[t] = NIL /\ heldHead' \in Device
        /\ Chain(nextHeld', heldHead') \subseteq Chain(nextHeld, heldHead) \cup {t}
        /\ \A d \in Chain(nextHeld', heldHead') : d \notin Chain(nextHeld', nextHeld'[d])
    BY ONLY <1>0, <2>1, <2>2, <2>3, LinkList, t \in Device
  <2>5. intHeld' \in [Device -> BOOLEAN] /\ intHeld'[t] /\ \A d \in Device : intHeld[d] => intHeld'[d]
    BY <1>0, <2>1
  <2>6. ListedInv'
    <3>1. \A d \in Chain(nextHeld, heldHead) : d \in Device /\ intHeld[d]
      BY DEF IInv, ListedInv, Chain, Reach
    <3> QED
      BY <2>4, <2>5, <3>1 DEF ListedInv
  <2>7. NoCycle' /\ TailEnds'
    BY <2>1, <2>4 DEF NoCycle, TailEnds
  <2>8. UnholdInv'
    <3> SUFFICES ASSUME stack' # << >>, stack'[1].at \in InHand,
                        stack # << >>, stack'[1] = stack[1], stack[1].who \in Device
                 PROVE  UnholdInv'
      BY DEF UnholdInv, InHand
    <3>1. PICK w \in Device : w = stack[1].who
      OBVIOUS
    <3>2. CASE stack[1].at \in {"load", "store"}
      <4>1. heldHead = w /\ w # NIL /\ heldHead' = w
        BY <2>1, <3>1, <3>2, Names DEF IInv, UnholdInv
      <4>2. w \in Chain(nextHeld, heldHead) /\ w # t
        BY <1>0, <2>2, <4>1, ReachClosed DEF Chain
      <4>3. ASSUME stack[1].at = "store", stack[1].reg # NIL PROVE nextHeld'[w] = stack[1].reg
        <5>1. nextHeld[w] = stack[1].reg
          BY <3>1, <4>3 DEF IInv, UnholdInv
        <5>2. w # heldTail
          BY <4>1, <4>3, <5>1 DEF IInv, TailEnds
        <5> QED
          BY <2>1, <4>2, <5>1, <5>2 DEF Linked
      <4> QED
        BY <3>1, <3>2, <4>1, <4>3 DEF UnholdInv
    <3>3. CASE stack[1].at \in {"tail", "cleartail", "clear"}
      <4>1. w \notin Chain(nextHeld, heldHead) /\ intHeld[w]
        BY <3>1, <3>3 DEF IInv, UnholdInv
      <4>2. w # t /\ w \notin Chain(nextHeld', heldHead') /\ intHeld'[w]
        BY <1>2, <2>4, <2>5, <4>1
      <4> QED
        BY <3>1, <3>3, <4>2 DEF UnholdInv
    <3> QED
      BY <3>2, <3>3 DEF InHand
  <2>9. heldTail' \in Device \cup {NIL}
    BY <2>1
  <2> QED
    BY <2>4, <2>5, <2>6, <2>7, <2>8, <2>9
<1> QED
  BY <1>0, <1>1, <1>2

(* A step that only moves the running activity on, and not into unhold.    *)
LEMMA Plain ==
    ASSUME IInv, stack # << >>, NEW f \in Frame, Goto(f), FrameOK(Len(stack), f),
           f.at \in HandlerSteps => Top.at \in HandlerSteps /\ f.of = Top.of,
           f.at \notin InHand, UNCHANGED <<masked, heldVars>>, RestOK'
    PROVE  IInv'
<1>1. StackInv
  BY DEF IInv
<1>2. /\ StackInv' /\ stack' # << >> /\ stack'[Len(stack)] = f
      /\ \A i \in DOMAIN stack : i # Len(stack) => stack'[i] = stack[i]
  BY <1>1, GotoKeeps
<1>3. \/ stack'[1].at \notin InHand
      \/ stack'[1] = stack[1]
  <2>1. 1 \in DOMAIN stack
    BY <1>1, TopIs
  <2> QED
    BY <1>2, <2>1
<1> QED
  BY <1>2, <1>3, ListSame DEF IInv

(* The same when only the step changes.                                    *)
LEMMA PlainStep ==
    ASSUME IInv, stack # << >>, NEW step \in Steps, Continue(step),
           FrameOK(Len(stack), [Top EXCEPT !.at = step]),
           step \in HandlerSteps => Top.at \in HandlerSteps,
           step \notin InHand, UNCHANGED <<masked, heldVars>>, RestOK'
    PROVE  IInv'
<1>1. Top \in Frame
  BY TopIs DEF IInv
<1>2. PICK f : f = [Top EXCEPT !.at = step] /\ f \in Frame /\ f.at = step /\ f.of = Top.of
  BY <1>1 DEF Frame
<1>3. FrameOK(Len(stack), f) /\ Goto(f)
  BY <1>2 DEF Continue
<1> QED
  BY <1>2, <1>3, Plain

-----------------------------------------------------------------------------
(* The steps, a device interrupt first: its line was not masked, so no     *)
(* handler of it is on the stack.                                          *)
LEMMA EnterHandler == ASSUME NEW t \in Device PROVE IInv /\ hwint(t) => IInv'
<1> SUFFICES ASSUME IInv, hwint(t) PROVE IInv'
  OBVIOUS
<1> USE DEF hwint
<1>1. PICK f : /\ f = Activity(t, "handler", t) /\ f \in Frame
               /\ f.of = t /\ f.at = "handler" /\ f.who = t
  BY Names DEF Activity, Frame, Steps
<1>2. stack \in Seq(Frame) /\ stack' = Append(stack, f) /\ Len(stack) \in Nat
  BY <1>1 DEF IInv, StackInv
<1>3. /\ stack' \in Seq(Frame) /\ stack' # << >> /\ DOMAIN stack' = 1 .. Len(stack) + 1
      /\ DOMAIN stack = 1 .. Len(stack)
      /\ \A i \in DOMAIN stack' : stack'[i] = IF i = Len(stack) + 1 THEN f ELSE stack[i]
  BY <1>1, <1>2
<1>4. FrameOK(Len(stack) + 1, f)
  BY <1>1 DEF FrameOK, HandlerSteps, UnholdSteps
<1>5. \A i \in DOMAIN stack' : FrameOK(i, stack'[i])
  <2>1. \A i \in DOMAIN stack : FrameOK(i, stack[i])
    BY DEF IInv, StackInv
  <2>2. \A i \in DOMAIN stack' : i = Len(stack) + 1 \/ i \in DOMAIN stack
    BY <1>2, <1>3
  <2> QED
    BY ONLY <1>3, <1>4, <2>1, <2>2
<1>6. /\ \A i \in DOMAIN stack' : i # Len(stack) + 1 => i \in DOMAIN stack
      /\ \A i \in DOMAIN stack : stack[i].at \in HandlerSteps => stack[i].of \in masked /\ stack[i].of # t
  BY <1>2, <1>3 DEF IInv, StackInv
<1>7. \A i \in DOMAIN stack' : stack'[i].at \in HandlerSteps => stack'[i].of \in masked'
  BY <1>1, <1>3, <1>6
<1>8. \A i, j \in DOMAIN stack' :
         stack'[i].at \in HandlerSteps /\ stack'[j].at \in HandlerSteps /\ stack'[i].of = stack'[j].of => i = j
  BY <1>1, <1>3, <1>6 DEF IInv, StackInv
<1>9. stack'[1].at \notin InHand \/ (stack # << >> /\ stack'[1] = stack[1])
  BY <1>1, <1>2, <1>3 DEF InHand
<1>10. RestOK'
  <2>1. taken' \in 0 .. MaxInterrupts
    BY Names DEF IInv, RestOK
  <2> QED
    BY <2>1 DEF IInv, RestOK, heldVars
<1> QED
  BY <1>3, <1>5, <1>7, <1>8, <1>9, <1>10, ListSame DEF IInv, StackInv

(* The handlers up to interrupt().                                         *)
LEMMA HandlersKeep ==
    IInv /\ (keyboard_handler \/ wini_handler \/ clock_handler \/ clock_tick \/ lock_schedule) => IInv'
<1> SUFFICES ASSUME IInv, keyboard_handler \/ wini_handler \/ clock_handler \/ clock_tick \/ lock_schedule
             PROVE  IInv'
  OBVIOUS
<1>1. /\ stack # << >> /\ Top \in Frame /\ FrameOK(Len(stack), Top)
      /\ Top.at \in {"handler", "alarm", "tick", "schedule"} /\ Top.of \in Device /\ Top.who \in Device
  <2>1. stack # << >> /\ Top.at \in {"handler", "alarm", "tick", "schedule"}
    BY DEF keyboard_handler, wini_handler, clock_handler, clock_tick, lock_schedule, At
  <2> QED
    BY <2>1, TopIs DEF IInv, FrameOK, HandlerSteps
<1>2. \A step \in {"handled", "interrupt", "alarm", "tick", "schedule"} :
         /\ step \in Steps /\ step \in HandlerSteps /\ Top.at \in HandlerSteps /\ step \notin InHand
         /\ FrameOK(Len(stack), [Top EXCEPT !.at = step])
  BY <1>1 DEF FrameOK, Frame, HandlerSteps, UnholdSteps, Steps, InHand
<1>3. ASSUME NEW step \in {"handled", "interrupt", "alarm", "tick", "schedule"}, Continue(step),
             UNCHANGED <<masked, heldVars>>, RestOK'
      PROVE  IInv'
  BY <1>1, <1>2, <1>3, PlainStep
<1>4. ASSUME NEW t \in {CLOCK, TTY}, Goto([Top EXCEPT !.at = "interrupt", !.who = t]),
             UNCHANGED <<masked, heldVars>>, RestOK'
      PROVE  IInv'
  <2>1. PICK f : f = [Top EXCEPT !.at = "interrupt", !.who = t]
    OBVIOUS
  <2>2. f \in Frame /\ f.at = "interrupt" /\ f.who = t /\ f.of = Top.of
    BY <1>1, <2>1, Names DEF Frame, Steps
  <2>3. FrameOK(Len(stack), f)
    BY <1>1, <2>2, Names DEF FrameOK, HandlerSteps, UnholdSteps
  <2>4. f.at \in HandlerSteps /\ Top.at \in HandlerSteps /\ f.at \notin InHand
    BY <1>1, <2>2 DEF HandlerSteps, InHand
  <2> QED
    BY <1>1, <1>4, <2>1, <2>2, <2>3, <2>4, Plain
<1>5. CASE keyboard_handler \/ wini_handler
  <2>1. RestOK'
    BY <1>5 DEF IInv, RestOK, keyboard_handler, wini_handler, heldVars
  <2> QED
    BY <1>3, <1>5, <2>1 DEF keyboard_handler, wini_handler
<1>6. CASE clock_handler
  <2>1. RestOK' /\ UNCHANGED <<masked, heldVars>>
    BY <1>6 DEF IInv, RestOK, clock_handler, heldVars
  <2> QED
    BY <1>3, <1>4, <1>6, <2>1 DEF clock_handler
<1>7. CASE clock_tick
  <2>1. RestOK' /\ UNCHANGED <<masked, heldVars>>
    BY <1>7 DEF IInv, RestOK, clock_tick, heldVars
  <2> QED
    BY <1>3, <1>7, <2>1 DEF clock_tick
<1>8. CASE lock_schedule
  <2>1. curr' \in Proc \cup {IDLE}
    BY <1>8 DEF IInv, RestOK, lock_schedule, Proc
  <2>2. RestOK' /\ UNCHANGED <<masked, heldVars>>
    BY <1>8, <2>1 DEF IInv, RestOK, lock_schedule, heldVars
  <2> QED
    BY <1>3, <1>8, <2>2 DEF lock_schedule
<1> QED
  BY <1>5, <1>6, <1>7, <1>8

(* interrupt(): the task is put on the list, or gets its message at once,  *)
(* which only the handler at the bottom of the stack does.                 *)
LEMMA InterruptKeeps ==
    IInv /\ (interrupt_hold \/ interrupt_check \/ interrupt_deliver) => IInv'
<1> SUFFICES ASSUME IInv, interrupt_hold \/ interrupt_check \/ interrupt_deliver PROVE IInv'
  OBVIOUS
<1>1. /\ stack # << >> /\ Top \in Frame /\ FrameOK(Len(stack), Top) /\ Len(stack) \in Nat \ {0}
      /\ Top.at \in {"interrupt", "deliver"} /\ Top.of \in Device /\ Top.who \in Device
  <2>1. stack # << >> /\ Top.at \in {"interrupt", "deliver"}
    BY DEF interrupt_hold, interrupt_check, interrupt_deliver, At
  <2> QED
    BY <2>1, TopIs DEF IInv, FrameOK, HandlerSteps
<1>2. \A step \in {"alarm", "handled"} :
         /\ step \in Steps /\ step \in HandlerSteps /\ Top.at \in HandlerSteps /\ step \notin InHand
         /\ FrameOK(Len(stack), [Top EXCEPT !.at = step])
  BY <1>1 DEF FrameOK, Frame, HandlerSteps, UnholdSteps, Steps, InHand
<1>3. AfterInterrupt \in {"alarm", "handled"}
  BY DEF AfterInterrupt
<1>4. CASE interrupt_hold
  <2>1. /\ Hold(Top.who) /\ Continue(AfterInterrupt)
        /\ UNCHANGED <<intsOn, masked, switching, section, curr, taken>>
    BY <1>4 DEF interrupt_hold
  <2>2. /\ StackInv' /\ stack' # << >> /\ stack'[Len(stack)] = [Top EXCEPT !.at = AfterInterrupt]
        /\ \A i \in DOMAIN stack : i # Len(stack) => stack'[i] = stack[i]
    BY <1>1, <1>2, <1>3, <2>1, ContinueKeeps DEF IInv
  <2>3. \/ stack'[1].at \notin InHand
        \/ stack # << >> /\ stack'[1] = stack[1] /\ stack[1].who \in Device
    <3>1. CASE Len(stack) = 1
      BY <1>1, <1>2, <1>3, <2>2, <3>1 DEF Frame
    <3>2. CASE Len(stack) # 1
      <4>1. 1 \in DOMAIN stack /\ FrameOK(1, stack[1])
        BY <1>1, TopIs DEF IInv
      <4>2. stack'[1] = stack[1]
        BY <2>2, <3>2, <4>1
      <4> QED
        BY <1>1, <4>1, <4>2 DEF FrameOK, InHand, UnholdSteps
    <3> QED
      BY <3>1, <3>2
  <2>4. /\ ListedInv' /\ NoCycle' /\ TailEnds' /\ UnholdInv'
        /\ heldHead' \in Device \cup {NIL} /\ heldTail' \in Device \cup {NIL}
        /\ nextHeld' \in [Device -> Device \cup {NIL}] /\ intHeld' \in [Device -> BOOLEAN]
    BY <1>1, <2>1, <2>3, HoldKeeps
  <2>5. RestOK'
    BY <2>1, <2>4 DEF IInv, RestOK
  <2> QED
    BY <2>2, <2>4, <2>5 DEF IInv
<1>5. CASE interrupt_check
  <2>1. Len(stack) = 1
    BY <1>1, <1>5 DEF interrupt_check, MustHold, kernel_reenter
  <2>2. "deliver" \in Steps /\ "deliver" \in HandlerSteps /\ Top.at \in HandlerSteps /\ "deliver" \notin InHand
        /\ FrameOK(Len(stack), [Top EXCEPT !.at = "deliver"])
    BY <1>1, <2>1 DEF FrameOK, Frame, HandlerSteps, UnholdSteps, Steps, InHand
  <2>3. RestOK' /\ UNCHANGED <<masked, heldVars>> /\ Continue("deliver")
    BY <1>5 DEF IInv, RestOK, interrupt_check, heldVars
  <2> QED
    BY <1>1, <2>2, <2>3, PlainStep
<1>6. CASE interrupt_deliver
  <2>1. curr' \in Proc \cup {IDLE}
    BY <1>1, <1>6, Names DEF IInv, RestOK, interrupt_deliver, Deliver, MakeReady
  <2>2. RestOK' /\ UNCHANGED <<masked, heldVars>> /\ Continue(AfterInterrupt)
    BY <1>6, <2>1 DEF IInv, RestOK, interrupt_deliver, heldVars
  <2> QED
    BY <1>1, <1>2, <1>3, <2>2, PlainStep
<1> QED
  BY <1>4, <1>5, <1>6

(* What takes the CPU out of the kernel is at the bottom of the stack.     *)
LEMMA LeaveKeeps ==
    ASSUME IInv, stack # << >>, Len(stack) = 1, Leave, masked' \subseteq masked,
           UNCHANGED <<switching, section, heldVars, taken>>, curr' \in Proc \cup {IDLE}
    PROVE  IInv'
<1>0. PICK f : f = Activity("kernel", "restart", NIL)
  OBVIOUS
<1>1. /\ f = Activity("kernel", "restart", NIL) /\ f \in Frame
      /\ f.of = "kernel" /\ f.at = "restart" /\ f.who = NIL
  BY ONLY <1>0 DEF Activity, Frame, Steps
<1>2. stack' = [stack EXCEPT ![1] = f] /\ intsOn' = FALSE
  BY <1>1 DEF Leave, Goto
<1>3. stack' \in Seq(Frame) /\ Len(stack') = 1 /\ DOMAIN stack' = {1} /\ stack'[1] = f
  BY <1>1, <1>2 DEF IInv, StackInv
<1>4. FrameOK(1, f) /\ f.at \notin HandlerSteps /\ f.at \notin InHand
  BY <1>1 DEF FrameOK, HandlerSteps, UnholdSteps, InHand
<1>5. StackInv'
  BY <1>3, <1>4 DEF StackInv
<1>6. RestOK'
  BY <1>2 DEF IInv, RestOK, heldVars
<1> QED
  BY <1>3, <1>4, <1>5, <1>6, ListSame DEF IInv

(* A handler ends: its line is unmasked, and what it had interrupted goes  *)
(* on, or the kernel is left.                                              *)
LEMMA ReturnKeeps == IInv /\ handler_return => IInv'
<1> SUFFICES ASSUME IInv, handler_return PROVE IInv'
  OBVIOUS
<1>1. /\ stack # << >> /\ Top \in Frame /\ Len(stack) \in Nat \ {0} /\ Top = stack[Len(stack)]
      /\ Top.at \in HandlerSteps /\ Len(stack) \in DOMAIN stack /\ DOMAIN stack = 1 .. Len(stack)
  <2>1. stack # << >> /\ Top.at = "handled"
    BY DEF handler_return, At
  <2> QED
    BY <2>1, TopIs DEF IInv, HandlerSteps
<1>2. masked' = masked \ {Top.of} /\ UNCHANGED <<switching, section, curr, heldVars, taken>>
  BY DEF handler_return
<1>3. CASE kernel_reenter = 0
  <2>1. Len(stack) = 1 /\ Leave
    <3>1. Len(stack) \in Nat /\ Len(stack) - 1 = 0
      BY <1>1, <1>3 DEF kernel_reenter
    <3>2. Leave
      BY <1>3 DEF handler_return
    <3> QED
      BY <3>1, <3>2, SMT
  <2>2. curr' \in Proc \cup {IDLE} /\ masked' \subseteq masked
    BY <1>2 DEF IInv, RestOK
  <2> QED
    BY <1>1, <1>2, <2>1, <2>2, LeaveKeeps
<1>4. CASE kernel_reenter # 0
  <2> DEFINE n == Len(stack) - 1
             rest == SubSeq(stack, 1, n)
             g == [rest[n] EXCEPT !.at = IF @ = "halt" THEN "woken" ELSE @]
  <2>1. n \in Nat \ {0} /\ stack \in Seq(Frame) /\ intsOn' = intsOn
        /\ stack' = [rest EXCEPT ![n].at = IF @ = "halt" THEN "woken" ELSE @]
    BY <1>1, <1>4 DEF handler_return, kernel_reenter, IInv, StackInv
  <2>2. /\ rest \in Seq(Frame) /\ Len(rest) = n
        /\ \A i \in 1 .. n : rest[i] = stack[i] /\ rest[i] \in Frame /\ stack[i] \in Frame
    <3>1. PICK m : m = n
      OBVIOUS
    <3>2. stack \in Seq(Frame) /\ m \in Nat \ {0} /\ m <= Len(stack)
      BY <1>1, <2>1, <3>1
    <3>3. /\ SubSeq(stack, 1, m) \in Seq(Frame) /\ Len(SubSeq(stack, 1, m)) = m
          /\ \A i \in 1 .. m : SubSeq(stack, 1, m)[i] = stack[i] /\ stack[i] \in Frame
      BY ONLY <3>2
    <3> QED
      BY <3>1, <3>3
  <2>3. g \in Frame /\ g.of = stack[n].of /\ g.who = stack[n].who /\ g.reg = stack[n].reg
        /\ (g.at = stack[n].at \/ (stack[n].at = "halt" /\ g.at = "woken"))
    BY <2>1, <2>2 DEF Frame, Steps
  <2>4. stack' = [rest EXCEPT ![n] = g]
    BY <2>1, <2>2
  <2> HIDE DEF g, rest, n
  <2>5. /\ stack' \in Seq(Frame) /\ stack' # << >> /\ DOMAIN stack' = 1 .. n
        /\ \A i \in DOMAIN stack' : stack'[i] = IF i = n THEN g ELSE stack[i]
    BY <2>1, <2>2, <2>3, <2>4
  <2>6. \A i \in DOMAIN stack' : i \in DOMAIN stack /\ i # Len(stack)
    BY <1>1, <2>1, <2>5 DEF n
  <2>7. \A i \in DOMAIN stack' :
           /\ stack'[i] \in Frame /\ stack'[i].of = stack[i].of
           /\ stack'[i].who = stack[i].who /\ stack'[i].reg = stack[i].reg
           /\ \/ stack'[i].at = stack[i].at
              \/ stack[i].at = "halt" /\ stack'[i].at = "woken"
    BY <2>2, <2>3, <2>5
  <2>8. \A i \in DOMAIN stack' :
           stack'[i].at \in HandlerSteps => stack[i].at \in HandlerSteps /\ stack[i].of # Top.of
    BY <1>1, <2>6, <2>7 DEF IInv, StackInv, HandlerSteps
  <2>9. \A i \in DOMAIN stack' : FrameOK(i, stack'[i])
    <3>1. \A i \in DOMAIN stack' : FrameOK(i, stack[i])
      BY <2>6 DEF IInv, StackInv
    <3> QED
      BY <2>7, <3>1 DEF FrameOK, HandlerSteps, UnholdSteps
  <2>10. StackInv'
    <3>1. \A i \in DOMAIN stack' : stack'[i].at \in HandlerSteps => stack'[i].of \in masked'
      BY <1>2, <2>6, <2>7, <2>8 DEF IInv, StackInv
    <3>2. \A i, j \in DOMAIN stack' :
         stack'[i].at \in HandlerSteps /\ stack'[j].at \in HandlerSteps /\ stack'[i].of = stack'[j].of => i = j
      BY <2>6, <2>7, <2>8 DEF IInv, StackInv
    <3> QED
      BY <2>5, <2>9, <3>1, <3>2 DEF StackInv
  <2>11. stack'[1].at \notin InHand \/ stack'[1] = stack[1]
    <3>1. 1 \in DOMAIN stack'
      BY <2>1, <2>5
    <3>2. CASE stack'[1].at = stack[1].at
      <4>1. stack[1] \in Frame /\ stack'[1] \in Frame
        BY <2>6, <2>7, <3>1 DEF IInv, StackInv
      <4>2. stack'[1].of = stack[1].of /\ stack'[1].who = stack[1].who /\ stack'[1].reg = stack[1].reg
        BY <2>7, <3>1
      <4> QED
        BY ONLY <3>2, <4>1, <4>2 DEF Frame
    <3> QED
      BY <2>7, <3>1, <3>2 DEF InHand
  <2>12. RestOK'
    BY <1>2, <2>1 DEF IInv, RestOK, heldVars
  <2> QED
    BY <1>1, <1>2, <2>10, <2>11, <2>12, ListSame DEF IInv
<1> QED
  BY <1>3, <1>4

(* A system call, the halt of the idle task, and the lock_ routines.       *)
LEMMA CallsKeep ==
    IInv /\ (trap \/ sys_call_caller \/ sys_call_body \/ sys_call_return \/ idle_task
             \/ lock_enter \/ lock_leave) => IInv'
<1> SUFFICES ASSUME IInv, \/ trap \/ sys_call_caller \/ sys_call_body \/ sys_call_return \/ idle_task
                          \/ lock_enter \/ lock_leave
             PROVE  IInv'
  OBVIOUS
<1>0. curr \in Proc \cup {IDLE}
  BY DEF IInv, RestOK
<1>1. ASSUME NEW f \in Frame, stack' = << f >>, FrameOK(1, f), f.at \notin HandlerSteps, f.at \notin InHand,
             UNCHANGED <<masked, heldVars>>, RestOK'
      PROVE  IInv'
  <2>1. stack' \in Seq(Frame) /\ DOMAIN stack' = {1} /\ stack'[1] = f
    BY <1>1
  <2>2. StackInv'
    BY <1>1, <2>1 DEF StackInv
  <2> QED
    BY <1>1, <2>1, <2>2, ListSame DEF IInv
<1>2. CASE trap
  <2>1. PICK f : f = Activity("syscall", "entry", curr)
    OBVIOUS
  <2>2. curr \in Proc
    BY <1>0, <1>2 DEF trap
  <2>3. f \in Frame /\ f.at = "entry" /\ f.who = curr
    BY ONLY <2>1, <2>2 DEF Activity, Frame, Steps
  <2>4. FrameOK(1, f) /\ f.at \notin HandlerSteps /\ f.at \notin InHand
    BY <2>2, <2>3 DEF FrameOK, HandlerSteps, UnholdSteps, InHand
  <2>5. RestOK' /\ UNCHANGED <<masked, heldVars>> /\ stack' = << f >>
    BY <1>2, <2>1 DEF IInv, RestOK, trap, heldVars
  <2> QED
    BY <1>1, <2>3, <2>4, <2>5
<1>3. CASE sys_call_caller
  <2>1. stack # << >> /\ Top.at = "entry" /\ Top \in Frame /\ Len(stack) = 1
    BY <1>3, TopIs DEF IInv, sys_call_caller, At, HandlerSteps
  <2>2. PICK f : f = [Top EXCEPT !.at = "body", !.reg = curr]
    OBVIOUS
  <2>3. f \in Frame /\ f.at = "body"
    BY <1>0, <2>1, <2>2 DEF Frame, Steps
  <2>4. FrameOK(Len(stack), f) /\ f.at \notin HandlerSteps /\ f.at \notin InHand
    BY <2>1, <2>3 DEF FrameOK, HandlerSteps, UnholdSteps, InHand
  <2>5. RestOK' /\ UNCHANGED <<masked, heldVars>> /\ Goto(f)
    BY <1>3, <2>2 DEF IInv, RestOK, sys_call_caller, heldVars
  <2> QED
    BY <2>1, <2>3, <2>4, <2>5, Plain
<1>4. CASE sys_call_body
  <2>1. stack # << >> /\ Top.at = "body" /\ Top \in Frame /\ Len(stack) = 1
    BY <1>4, TopIs DEF IInv, sys_call_body, At, HandlerSteps
  <2>2. "exit" \in Steps /\ "exit" \notin HandlerSteps /\ "exit" \notin InHand
        /\ FrameOK(Len(stack), [Top EXCEPT !.at = "exit"])
    BY <2>1 DEF FrameOK, Frame, HandlerSteps, UnholdSteps, Steps, InHand
  <2>3. RestOK' /\ UNCHANGED <<masked, heldVars>> /\ Continue("exit")
    BY <1>4 DEF IInv, RestOK, sys_call_body, heldVars
  <2> QED
    BY <2>1, <2>2, <2>3, PlainStep
<1>5. CASE sys_call_return
  <2>1. stack # << >> /\ Len(stack) = 1 /\ Leave
    BY <1>5, TopIs DEF IInv, sys_call_return, At, HandlerSteps
  <2> QED
    BY <1>0, <1>5, <2>1, LeaveKeeps DEF sys_call_return
<1>6. CASE idle_task
  <2>1. CASE InProcess /\ stack' = <<Activity("idle", "halt", NIL)>> /\ UNCHANGED intsOn
    <3>1. PICK f : f = Activity("idle", "halt", NIL)
      OBVIOUS
    <3>2. f \in Frame /\ f.at = "halt"
      BY ONLY <3>1 DEF Activity, Frame, Steps
    <3>3. FrameOK(1, f) /\ f.at \notin HandlerSteps /\ f.at \notin InHand
      BY <3>2 DEF FrameOK, HandlerSteps, UnholdSteps, InHand
    <3>4. RestOK' /\ UNCHANGED <<masked, heldVars>> /\ stack' = << f >>
      BY <1>6, <2>1, <3>1 DEF IInv, RestOK, idle_task, heldVars
    <3> QED
      BY <1>1, <3>2, <3>3, <3>4
  <2>2. CASE At("woken") /\ Leave
    <3>1. stack # << >> /\ Len(stack) = 1
      BY <2>2, TopIs DEF IInv, At, HandlerSteps
    <3> QED
      BY <1>0, <1>6, <2>2, <3>1, LeaveKeeps DEF idle_task
  <2> QED
    BY <1>6, <2>1, <2>2 DEF idle_task
<1>7. CASE lock_enter \/ lock_leave
  <2>1. UNCHANGED <<stack, intsOn, masked, curr, heldVars, taken>>
        /\ switching' \in BOOLEAN /\ section' \in BOOLEAN
    BY <1>7 DEF lock_enter, lock_leave
  <2>2. RestOK'
    BY <2>1 DEF IInv, RestOK, heldVars
  <2>3. StackInv'
    BY <2>1 DEF IInv, StackInv
  <2> QED
    BY <2>1, <2>2, <2>3, ListSame DEF IInv
<1> QED
  BY <1>2, <1>3, <1>4, <1>5, <1>6, <1>7

-----------------------------------------------------------------------------
(* restart and unhold run at the bottom of the stack.  A step of theirs    *)
(* keeps the invariant when it leaves a good list and f is where unhold is.*)
LEMMA UnholdStep ==
    ASSUME IInv, stack # << >>, Top.at \notin HandlerSteps, NEW f \in Frame, Goto(f),
           FrameOK(1, f), f.at \notin HandlerSteps, UNCHANGED masked, RestOK',
           ListedInv', NoCycle', TailEnds',
           f.at \in {"load", "store"} => heldHead' = f.who,
           f.at = "store" /\ f.reg # NIL => nextHeld'[f.who] = f.reg,
           f.at \in {"tail", "cleartail", "clear"} =>
              f.who \notin Chain(nextHeld', heldHead') /\ intHeld'[f.who]
    PROVE  IInv'
<1>1. Len(stack) = 1 /\ StackInv
  BY TopIs DEF IInv
<1>2. StackInv' /\ stack'[1] = f
  BY <1>1, GotoKeeps
<1>3. UnholdInv'
  BY <1>2 DEF UnholdInv
<1> QED
  BY <1>2, <1>3 DEF IInv

(* restart: unhold begins with the head of the list, or the process is     *)
(* started at once.                                                        *)
LEMMA RestartKeeps == IInv /\ restart => IInv'
<1> SUFFICES ASSUME IInv, restart PROVE IInv'
  OBVIOUS
<1>1. /\ stack # << >> /\ Top \in Frame /\ Top.at = "restart" /\ Len(stack) = 1
      /\ Top.at \notin HandlerSteps
  BY TopIs DEF IInv, restart, At, HandlerSteps
<1>2. UNCHANGED <<masked, heldVars>> /\ RestOK'
  BY DEF IInv, RestOK, restart, heldVars
<1>3. CASE heldHead = NIL \/ switching
  <2>1. "switch" \in Steps /\ "switch" \notin HandlerSteps /\ "switch" \notin InHand
        /\ FrameOK(Len(stack), [Top EXCEPT !.at = "switch"])
    BY <1>1 DEF FrameOK, Frame, HandlerSteps, UnholdSteps, Steps, InHand
  <2>2. Continue("switch")
    BY <1>3 DEF restart
  <2> QED
    BY <1>1, <1>2, <2>1, <2>2, PlainStep
<1>4. CASE ~ (heldHead = NIL \/ switching)
  <2>1. PICK f : f = [Top EXCEPT !.at = "load", !.who = heldHead]
    OBVIOUS
  <2>2. heldHead \in Device
    BY <1>4 DEF IInv, RestOK
  <2>3. f \in Frame /\ f.at = "load" /\ f.who = heldHead
    BY <1>1, <2>1, <2>2, Names DEF Frame, Steps
  <2>4. FrameOK(1, f) /\ f.at \notin HandlerSteps
    BY <2>2, <2>3 DEF FrameOK, HandlerSteps
  <2>5. Goto(f)
    BY <1>4, <2>1 DEF restart
  <2>6. ListedInv' /\ NoCycle' /\ TailEnds' /\ heldHead' = heldHead
    BY <1>2 DEF IInv, ListedInv, NoCycle, TailEnds, heldVars
  <2> QED
    BY <1>1, <1>2, <2>3, <2>4, <2>5, <2>6, UnholdStep
<1> QED
  BY <1>3, <1>4

(* The load of next_held and the store to held_head: the task is off the   *)
(* list, and because there is no cycle, off what is left of it.            *)
LEMMA UnholdNextKeeps == IInv /\ unhold_next => IInv'
<1> SUFFICES ASSUME IInv, unhold_next PROVE IInv'
  OBVIOUS
<1>1. /\ stack # << >> /\ Top \in Frame /\ Top.at \in {"load", "store"} /\ Len(stack) = 1
      /\ Top.at \notin HandlerSteps /\ stack[1] = Top /\ FrameOK(1, Top)
  BY TopIs DEF IInv, unhold_next, At, HandlerSteps
<1>2. PICK w \in Device : w = Top.who
  BY <1>1 DEF FrameOK, UnholdSteps
<1>3. /\ nextHeld \in [Device -> Device \cup {NIL}] /\ heldHead = w /\ w # NIL
      /\ UNCHANGED <<masked, heldTail, nextHeld, intHeld>>
  BY <1>1, <1>2, Names DEF IInv, RestOK, UnholdInv, unhold_next
<1>4. CASE Top.at = "load"
  <2>1. PICK f : f = [Top EXCEPT !.at = "store", !.reg = nextHeld[Top.who]]
    OBVIOUS
  <2>2. nextHeld[w] \in Device \cup {NIL}
    BY <1>3
  <2>3. f \in Frame /\ f.at = "store" /\ f.who = w /\ f.reg = nextHeld[w]
    BY <1>1, <1>2, <2>1, <2>2, Names DEF Frame, Steps
  <2>4. FrameOK(1, f) /\ f.at \notin HandlerSteps
    BY <1>2, <2>2, <2>3 DEF FrameOK, HandlerSteps
  <2>5. Goto(f) /\ UNCHANGED <<heldHead, intsOn, switching, section, curr, taken>>
    BY <1>4, <2>1 DEF unhold_next, At
  <2>6. ListedInv' /\ NoCycle' /\ TailEnds' /\ RestOK'
    BY <1>3, <2>5 DEF IInv, ListedInv, NoCycle, TailEnds, RestOK
  <2> QED
    BY <1>1, <1>3, <2>3, <2>4, <2>5, <2>6, UnholdStep
<1>5. CASE Top.at = "store"
  <2>1. PICK f : f = [Top EXCEPT !.at = "tail", !.reg = NIL]
    OBVIOUS
  <2>2. f \in Frame /\ f.at = "tail" /\ f.who = w /\ f.reg = NIL
    BY <1>1, <1>2, <2>1 DEF Frame, Steps
  <2>3. FrameOK(1, f) /\ f.at \notin HandlerSteps
    BY <1>2, <2>2 DEF FrameOK, HandlerSteps
  <2>4. Goto(f) /\ heldHead' = Top.reg /\ UNCHANGED <<intsOn, switching, section, curr, taken>>
    BY <1>5, <2>1 DEF unhold_next, At
  <2>5. heldHead' \in Device \cup {NIL} /\ (heldHead' # NIL => nextHeld[w] = heldHead')
    BY <1>1, <1>2, <1>5, <2>4 DEF IInv, UnholdInv, FrameOK
  <2>6. w \in Chain(nextHeld, heldHead)
    BY <1>3, ReachClosed DEF Chain
  <2>7. intHeld[w] /\ w \notin Chain(nextHeld, nextHeld[w])
    BY <2>6 DEF IInv, ListedInv, NoCycle
  <2>8. Chain(nextHeld, heldHead') \subseteq Chain(nextHeld, heldHead) /\ w \notin Chain(nextHeld, heldHead')
    <3>1. CASE heldHead' = NIL
      BY <3>1 DEF Chain
    <3>2. CASE heldHead' # NIL
      <4>1. Chain(nextHeld, nextHeld[w]) \subseteq Chain(nextHeld, heldHead)
        BY <1>3, <2>6, ChainRest
      <4> QED
        BY <2>5, <2>7, <3>2, <4>1
    <3> QED
      BY <3>1, <3>2
  <2>9. ListedInv' /\ NoCycle' /\ TailEnds'
    BY <1>3, <2>8 DEF IInv, ListedInv, NoCycle, TailEnds
  <2>10. RestOK'
    BY <1>3, <2>4, <2>5 DEF IInv, RestOK
  <2> QED
    BY <1>1, <1>3, <2>2, <2>3, <2>4, <2>7, <2>8, <2>9, <2>10, UnholdStep
<1> QED
  BY <1>1, <1>4, <1>5

(* The test of the new head and the reset of held_tail.                    *)
LEMMA UnholdTailKeeps == IInv /\ unhold_tail => IInv'
<1> SUFFICES ASSUME IInv, unhold_tail PROVE IInv'
  OBVIOUS
<1>1. /\ stack # << >> /\ Top \in Frame /\ Top.at \in {"tail", "cleartail"} /\ Len(stack) = 1
      /\ Top.at \notin HandlerSteps /\ stack[1] = Top /\ FrameOK(1, Top)
  BY TopIs DEF IInv, unhold_tail, At, HandlerSteps
<1>2. PICK step : /\ step \in {"cleartail", "clear"} /\ Continue(step)
  BY DEF unhold_tail
<1>3. PICK f : f = [Top EXCEPT !.at = step]
  OBVIOUS
<1>4. f \in Frame /\ f.at \in {"cleartail", "clear"} /\ f.who = Top.who /\ Goto(f)
  BY <1>1, <1>2, <1>3 DEF Frame, Steps, Continue
<1>5. FrameOK(1, f) /\ f.at \notin HandlerSteps
  BY <1>1, <1>4 DEF FrameOK, HandlerSteps, UnholdSteps
<1>6. /\ heldTail' \in {heldTail, NIL}
      /\ UNCHANGED <<intsOn, masked, switching, section, curr, heldHead, nextHeld, intHeld, taken>>
  BY DEF unhold_tail
<1>7. RestOK'
  BY <1>6 DEF IInv, RestOK
<1>8. ListedInv' /\ NoCycle' /\ TailEnds'
  BY <1>6 DEF IInv, ListedInv, NoCycle, TailEnds
<1>9. f.who \notin Chain(nextHeld', heldHead') /\ intHeld'[f.who]
  BY <1>1, <1>4, <1>6 DEF IInv, UnholdInv
<1> QED
  BY <1>1, <1>4, <1>5, <1>6, <1>7, <1>8, <1>9, UnholdStep

(* The reset of int_held, of a task that is off the list.                  *)
LEMMA UnholdClearKeeps == IInv /\ unhold_clear => IInv'
<1> SUFFICES ASSUME IInv, unhold_clear PROVE IInv'
  OBVIOUS
<1>1. /\ stack # << >> /\ Top \in Frame /\ Top.at = "clear" /\ Len(stack) = 1
      /\ Top.at \notin HandlerSteps /\ stack[1] = Top /\ FrameOK(1, Top)
  BY TopIs DEF IInv, unhold_clear, At, HandlerSteps
<1>2. PICK f : f = [Top EXCEPT !.at = "convert"]
  OBVIOUS
<1>3. f \in Frame /\ f.at = "convert" /\ f.who = Top.who /\ Goto(f)
  BY <1>1, <1>2 DEF Frame, Steps, Continue, unhold_clear
<1>4. FrameOK(1, f) /\ f.at \notin HandlerSteps
  BY <1>1, <1>3 DEF FrameOK, HandlerSteps, UnholdSteps
<1>5. /\ intHeld' = [intHeld EXCEPT ![Top.who] = FALSE]
      /\ UNCHANGED <<intsOn, masked, switching, section, curr, heldHead, heldTail, nextHeld, taken>>
  BY DEF unhold_clear
<1>6. intHeld' \in [Device -> BOOLEAN] /\ \A t \in Device : t # Top.who => intHeld'[t] = intHeld[t]
  BY <1>5 DEF IInv, RestOK
<1>7. RestOK'
  BY <1>5, <1>6 DEF IInv, RestOK
<1>8. ListedInv'
  <2>1. Top.who \notin Chain(nextHeld, heldHead) /\ Chain(nextHeld, heldHead) \subseteq Device
    BY <1>1 DEF IInv, UnholdInv, Chain, Reach
  <2> QED
    BY <1>5, <1>6, <2>1 DEF IInv, ListedInv
<1>9. NoCycle' /\ TailEnds'
  BY <1>5 DEF IInv, NoCycle, TailEnds
<1> QED
  BY <1>1, <1>3, <1>4, <1>5, <1>7, <1>8, <1>9, UnholdStep

(* interrupt() out of unhold(): back on the list, or the message at last.  *)
LEMMA UnholdConvertKeeps == IInv /\ unhold_convert => IInv'
<1> SUFFICES ASSUME IInv, unhold_convert PROVE IInv'
  OBVIOUS
<1>1. /\ stack # << >> /\ Top \in Frame /\ Top.at = "convert" /\ Len(stack) = 1
      /\ Top.at \notin HandlerSteps /\ FrameOK(1, Top) /\ Top.who \in Device
  <2>1. stack # << >> /\ Top.at = "convert"
    BY DEF unhold_convert, At
  <2> QED
    BY <2>1, TopIs DEF IInv, HandlerSteps, FrameOK, UnholdSteps
<1>2. PICK f : f = [Top EXCEPT !.at = "while"]
  OBVIOUS
<1>3. f \in Frame /\ f.at = "while" /\ f.who = Top.who /\ Goto(f)
  BY <1>1, <1>2 DEF Frame, Steps, Continue, unhold_convert
<1>4. FrameOK(1, f) /\ f.at \notin HandlerSteps /\ f.at \notin InHand
  BY <1>1, <1>3 DEF FrameOK, HandlerSteps, UnholdSteps, InHand
<1>5. UNCHANGED <<masked, switching, section, taken>> /\ intsOn' = TRUE
  BY DEF unhold_convert
<1>6. StackInv' /\ stack'[1].at \notin InHand
  BY <1>1, <1>3, <1>4, <1>5, GotoKeeps DEF IInv
<1>7. CASE MustHold
  <2>1. Hold(Top.who) /\ UNCHANGED curr
    BY <1>7 DEF unhold_convert
  <2>2. /\ ListedInv' /\ NoCycle' /\ TailEnds' /\ UnholdInv'
        /\ heldHead' \in Device \cup {NIL} /\ heldTail' \in Device \cup {NIL}
        /\ nextHeld' \in [Device -> Device \cup {NIL}] /\ intHeld' \in [Device -> BOOLEAN]
    BY <1>1, <1>6, <2>1, HoldKeeps
  <2>3. RestOK'
    BY <1>5, <2>1, <2>2 DEF IInv, RestOK
  <2> QED
    BY <1>6, <2>2, <2>3 DEF IInv
<1>8. CASE ~ MustHold
  <2>1. Deliver(Top.who) /\ UNCHANGED heldVars
    BY <1>8 DEF unhold_convert
  <2>2. curr' \in Proc \cup {IDLE}
    BY <1>1, <2>1, Names DEF IInv, RestOK, Deliver, MakeReady
  <2>3. RestOK'
    BY <1>5, <2>1, <2>2 DEF IInv, RestOK, heldVars
  <2> QED
    BY <1>6, <2>1, <2>3, ListSame DEF IInv
<1> QED
  BY <1>7, <1>8

(* The test of the loop, with the head that it finds by then.              *)
LEMMA UnholdWhileKeeps == IInv /\ unhold_while => IInv'
<1> SUFFICES ASSUME IInv, unhold_while PROVE IInv'
  OBVIOUS
<1>1. /\ stack # << >> /\ Top \in Frame /\ Top.at = "while" /\ Len(stack) = 1
      /\ Top.at \notin HandlerSteps
  BY TopIs DEF IInv, unhold_while, At, HandlerSteps
<1>2. UNCHANGED <<masked, heldVars>> /\ RestOK'
  BY DEF IInv, RestOK, unhold_while, heldVars
<1>3. ListedInv' /\ NoCycle' /\ TailEnds' /\ heldHead' = heldHead
  BY <1>2 DEF IInv, ListedInv, NoCycle, TailEnds, heldVars
<1>4. CASE heldHead = NIL
  <2>1. PICK f : f = Activity("kernel", "switch", NIL)
    OBVIOUS
  <2>2. f \in Frame /\ f.at = "switch"
    BY ONLY <2>1 DEF Activity, Frame, Steps
  <2>3. FrameOK(1, f) /\ f.at \notin HandlerSteps
    BY <2>2 DEF FrameOK, HandlerSteps, UnholdSteps
  <2>4. Goto(f)
    BY <1>4, <2>1 DEF unhold_while
  <2> QED
    BY <1>1, <1>2, <1>3, <2>2, <2>3, <2>4, UnholdStep
<1>5. CASE heldHead # NIL
  <2>1. PICK f : f = [Top EXCEPT !.at = "load", !.who = heldHead]
    OBVIOUS
  <2>2. heldHead \in Device
    BY <1>5 DEF IInv, RestOK
  <2>3. f \in Frame /\ f.at = "load" /\ f.who = heldHead
    BY <1>1, <2>1, <2>2, Names DEF Frame, Steps
  <2>4. FrameOK(1, f) /\ f.at \notin HandlerSteps
    BY <2>2, <2>3 DEF FrameOK, HandlerSteps
  <2>5. Goto(f)
    BY <1>5, <2>1 DEF unhold_while
  <2> QED
    BY <1>1, <1>2, <1>3, <2>3, <2>4, <2>5, UnholdStep
<1> QED
  BY <1>4, <1>5

(* iretd to the process: the stack is left behind.                         *)
LEMMA SwitchKeeps == IInv /\ switch_to_process => IInv'
<1> SUFFICES ASSUME IInv, switch_to_process PROVE IInv'
  OBVIOUS
<1>1. /\ stack' = << >> /\ intsOn' = TRUE
      /\ UNCHANGED <<masked, switching, section, curr, heldVars, taken>>
  BY DEF switch_to_process
<1>2. StackInv'
  BY <1>1 DEF StackInv
<1>3. RestOK'
  BY <1>1 DEF IInv, RestOK, heldVars
<1> QED
  BY <1>1, <1>2, <1>3, ListSame DEF IInv

-----------------------------------------------------------------------------
(* The kernel starts with nothing in it and nothing held.                  *)
LEMMA InitIInv == Init => IInv
<1> SUFFICES ASSUME Init PROVE IInv
  OBVIOUS
<1>1. stack = << >> /\ heldHead = NIL /\ heldTail = NIL /\ UnholdInv /\ StackInv
  BY DEF Init, StackInv, UnholdInv
<1>2. RestOK
  <2>1. intsOn \in BOOLEAN /\ switching \in BOOLEAN /\ section \in BOOLEAN
    BY DEF Init
  <2>2. masked \subseteq Device /\ curr \in Proc \cup {IDLE} /\ taken \in 0 .. MaxInterrupts
    BY Names DEF Init
  <2>3. /\ heldHead \in Device \cup {NIL} /\ heldTail \in Device \cup {NIL}
        /\ nextHeld \in [Device -> Device \cup {NIL}] /\ intHeld \in [Device -> BOOLEAN]
    BY DEF Init
  <2> QED
    BY <2>1, <2>2, <2>3 DEF RestOK
<1>3. ListedInv /\ NoCycle /\ TailEnds
  BY <1>1 DEF ListedInv, NoCycle, TailEnds, Chain
<1> QED
  BY <1>1, <1>2, <1>3 DEF IInv

(* Every step keeps the invariant.                                         *)
LEMMA NextIInv == IInv /\ [Next]_vars => IInv'
<1> SUFFICES ASSUME IInv, [Next]_vars PROVE IInv'
  OBVIOUS
<1>1. CASE \E t \in Device : hwint(t)
  BY <1>1, EnterHandler
<1>2. CASE trap \/ lock_enter \/ lock_leave
  BY <1>2, CallsKeep
<1>3. CASE InKernel
  <2>1. CASE keyboard_handler \/ wini_handler \/ clock_handler \/ clock_tick \/ lock_schedule
    BY <2>1, HandlersKeep
  <2>2. CASE interrupt_hold \/ interrupt_check \/ interrupt_deliver
    BY <2>2, InterruptKeeps
  <2>3. CASE sys_call_caller \/ sys_call_body \/ sys_call_return \/ idle_task
    BY <2>3, CallsKeep
  <2> QED
    BY <1>3, <2>1, <2>2, <2>3, ReturnKeeps, RestartKeeps, UnholdNextKeeps, UnholdTailKeeps,
       UnholdClearKeeps, UnholdConvertKeeps, UnholdWhileKeeps, SwitchKeeps DEF InKernel
<1>4. CASE UNCHANGED vars
  <2>1. /\ UNCHANGED <<stack, intsOn, masked, switching, section, curr, heldVars, taken>>
    BY <1>4 DEF vars
  <2>2. StackInv' /\ RestOK'
    BY <2>1 DEF IInv, StackInv, RestOK, heldVars
  <2> QED
    BY <2>1, <2>2, ListSame DEF IInv
<1> QED
  BY <1>1, <1>2, <1>3, <1>4 DEF Next

(* The invariant that carries everything below.                            *)
LEMMA Invariance == Spec => []IInv
BY InitIInv, NextIInv, PTL DEF Spec

-----------------------------------------------------------------------------
(* Above the first, the stack holds handlers of different lines, so it is  *)
(* no deeper than there are lines.                                         *)
LEMMA Depth == IInv => kernel_reenter \in -1 .. Cardinality(Device)
<1> SUFFICES ASSUME IInv PROVE kernel_reenter \in -1 .. Cardinality(Device)
  OBVIOUS
<1>1. Len(stack) \in Nat /\ DOMAIN stack = 1 .. Len(stack) /\ Cardinality(Device) \in Nat
  BY Names, FS_CardinalityType DEF IInv, StackInv
<1>2. CASE Len(stack) < 2
  BY <1>1, <1>2 DEF kernel_reenter
<1>3. CASE ~ (Len(stack) < 2)
  <2>1. PICK n : n = Len(stack)
    OBVIOUS
  <2>2. n \in Int /\ 2 \in Int /\ ~ (2 > n) /\ n - 2 + 1 = n - 1
    BY <1>1, <1>3, <2>1
  <2>3. IsFiniteSet(2 .. n) /\ Cardinality(2 .. n) = n - 2 + 1
    BY ONLY <2>2, FS_Interval
  <2>4. \A i \in 2 .. n : i \in DOMAIN stack /\ i > 1
    BY <1>1, <2>1
  <2>5. \A i \in 2 .. n : stack[i].at \in HandlerSteps /\ stack[i].of \in Device
    BY <2>4 DEF IInv, StackInv, FrameOK
  <2>6. PICK line : line = [i \in 2 .. n |-> stack[i].of]
    OBVIOUS
  <2>7. line \in [2 .. n -> Device] /\ \A i \in 2 .. n : line[i] = stack[i].of
    BY <2>5, <2>6
  <2>8. \A i, j \in 2 .. n : line[i] = line[j] => i = j
    BY <2>4, <2>5, <2>7 DEF IInv, StackInv
  <2>9. ~ (Cardinality(Device) < Cardinality(2 .. n))
    <3> SUFFICES ASSUME Cardinality(Device) < Cardinality(2 .. n) PROVE FALSE
      OBVIOUS
    <3>1. PICK S : S = 2 .. n
      OBVIOUS
    <3>2. IsFiniteSet(S) /\ IsFiniteSet(Device) /\ Cardinality(Device) < Cardinality(S) /\ line \in [S -> Device]
      BY <2>3, <2>7, <3>1, Names
    <3>3. \E i, j \in S : i # j /\ line[i] = line[j]
      BY ONLY <3>2, FS_PigeonHole
    <3> QED
      BY ONLY <2>8, <3>1, <3>3
  <2> QED
    BY <1>1, <2>1, <2>2, <2>3, <2>9 DEF kernel_reenter
<1> QED
  BY <1>2, <1>3

(* Every register, link and flag of the entry code holds a value of its    *)
(* kind, and the kernel's stack is bounded by the number of lines.         *)
THEOREM EntryWellFormed == Spec => []TypeOK
<1>1. ASSUME IInv PROVE TypeOK
  <2>1. \A i \in DOMAIN stack : stack[i] \in Frame
    BY <1>1 DEF IInv, StackInv
  <2>2. kernel_reenter \in -1 .. Cardinality(Device)
    BY <1>1, Depth
  <2> QED
    BY ONLY <1>1, <2>1, <2>2 DEF IInv, RestOK, TypeOK, Frame
<1> QED
  BY <1>1, Invariance, PTL

(* The handler of a line never runs twice at once, and no interrupt is     *)
(* made a message while a system call or another such message is half done.*)
THEOREM HandlersNeverOverlap == Spec => []NoOverlap
<1>1. ASSUME IInv PROVE NoOverlap
  <2>1. OneHandlerPerLine
    BY <1>1 DEF IInv, StackInv, OneHandlerPerLine, InHandler, HandlerSteps
  <2>2. PICK S : S = {i \in DOMAIN stack : stack[i].at \in {"body", "deliver", "convert"}}
    OBVIOUS
  <2>3. S \subseteq {1}
    <3>1. Len(stack) \in Nat /\ DOMAIN stack = 1 .. Len(stack)
      BY <1>1 DEF IInv, StackInv
    <3>2. \A i \in S : i \in DOMAIN stack /\ FrameOK(i, stack[i])
                       /\ (stack[i].at \notin HandlerSteps \/ stack[i].at = "deliver")
      BY <1>1, <2>2 DEF IInv, StackInv, HandlerSteps
    <3>3. \A i \in S : ~ (i > 1)
      BY <3>2 DEF FrameOK
    <3> QED
      BY <3>1, <3>2, <3>3
  <2>4. Cardinality({1}) = 1 /\ IsFiniteSet({1})
    BY FS_Singleton
  <2>5. Cardinality(S) <= 1
    BY <2>3, <2>4, FS_Subset
  <2> QED
    BY <2>1, <2>2, <2>5 DEF NoOverlap, DeliveryAlone
<1> QED
  BY <1>1, Invariance, PTL

(* Every task on the list of held interrupts has int_held set, whatever    *)
(* handlers do to the list while unhold takes it apart.                    *)
THEOREM ListedAlwaysHeld == Spec => []ListedIsHeld
<1>1. ASSUME IInv PROVE ListedIsHeld
  <2>1. Reached(heldHead) = Chain(nextHeld, heldHead)
    BY DEF Reached, ReachedFrom, Chain, Reach
  <2> QED
    BY <1>1, <2>1 DEF IInv, ListedInv, ListedIsHeld
<1> QED
  BY <1>1, Invariance, PTL
=============================================================================
