--------------------------- MODULE Terminal_proofs ---------------------------
(***************************************************************************)
(* For any number of consoles and processes and any size of the ring and   *)
(* of the input queues: eot_count counts the lines of the queue, nothing   *)
(* is left to do when the terminal task waits and nothing is about to wake *)
(* it, and a process that the file system has suspended is owed exactly    *)
(* one revival.                                                            *)
(***************************************************************************)
EXTENDS Terminal, FiniteSetTheorems, NaturalsInduction, WellFoundedInduction, TLAPS

(* A set of numbers has a least element.                                   *)
LEMMA NatLeast == ASSUME NEW T \in SUBSET Nat, T # {} PROVE \E x \in T : \A y \in T : x <= y
<1> DEFINE R == OpToRel(<, Nat)
<1>1. IsWellFoundedOn(R, Nat)
  BY NatLessThanWellFounded
<1>2. T \subseteq Nat
  OBVIOUS
<1> HIDE DEF R
<1>3. PICK x \in T : \A y \in T : ~ (<<y, x>> \in R)
  BY <1>1, <1>2, WFMin
<1>4. \A y \in T : ~ (y < x)
  BY <1>2, <1>3 DEF R, OpToRel
<1> QED
  BY <1>2, <1>4

(* Min of a set of numbers is its least element.                           *)
LEMMA MinIs == ASSUME NEW T \in SUBSET Nat, T # {} PROVE Min(T) \in T /\ \A y \in T : Min(T) <= y
BY NatLeast DEF Min

(* Max of a bounded set of numbers is its greatest element.                *)
LEMMA MaxIs ==
    ASSUME NEW n \in Nat, NEW T \in SUBSET (0 .. n), T # {}
    PROVE  Max(T) \in T /\ \A y \in T : Max(T) >= y
<1> DEFINE U == {n - x : x \in T}
<1>1. U \in SUBSET Nat /\ U # {}
  <2>1. \A x \in T : x \in Nat /\ n - x \in Nat
    OBVIOUS
  <2> QED
    BY <2>1
<1>2. PICK u \in U : \A v \in U : u <= v
  BY <1>1, NatLeast
<1>3. PICK x \in T : u = n - x
  BY <1>2
<1>4. \A y \in T : x >= y
  <2>1. \A y \in T : y \in Nat /\ y <= n /\ n - y \in U
    OBVIOUS
  <2>2. \A y \in T : n - x <= n - y
    BY <1>2, <1>3, <2>1
  <2>3. x \in Nat
    BY <2>1
  <2> QED
    BY ONLY <2>1, <2>2, <2>3, n \in Nat
<1> QED
  BY <1>4 DEF Max

-----------------------------------------------------------------------------
(* The ends of lines in a queue.                                           *)
Chars == {"text", "newline", "eof"}
Ends(q) == {i \in 1 .. Len(q) : Eot(q[i])}

(* They are finitely many.                                                 *)
LEMMA EndsFinite ==
    ASSUME NEW q \in Seq(Chars)
    PROVE  /\ IsFiniteSet(Ends(q)) /\ Cardinality(Ends(q)) \in Nat /\ Ends(q) \in SUBSET (0 .. Len(q))
           /\ Cardinality(Ends(q)) > 0 <=> Ends(q) # {}
<1>1. Len(q) \in Nat
  OBVIOUS
<1>2. IsFiniteSet(1 .. Len(q))
  BY <1>1, FS_Interval
<1>3. Ends(q) \in SUBSET (1 .. Len(q))
  BY DEF Ends
<1>4. IsFiniteSet(Ends(q)) /\ Cardinality(Ends(q)) \in Nat
  BY <1>2, <1>3, FS_Subset, FS_CardinalityType
<1>5. Cardinality(Ends(q)) = 0 <=> Ends(q) = {}
  BY <1>4, FS_EmptySet
<1> QED
  BY <1>1, <1>3, <1>4, <1>5

(* A character more.                                                       *)
LEMMA EndsAppend ==
    ASSUME NEW q \in Seq(Chars), NEW ch \in Chars
    PROVE  /\ Append(q, ch) \in Seq(Chars) /\ Len(Append(q, ch)) = Len(q) + 1
           /\ Cardinality(Ends(Append(q, ch))) = Cardinality(Ends(q)) + (IF Eot(ch) THEN 1 ELSE 0)
<1> DEFINE r == Append(q, ch)
<1>1. /\ r \in Seq(Chars) /\ Len(q) \in Nat /\ Len(r) = Len(q) + 1 /\ r[Len(q) + 1] = ch
      /\ \A i \in 1 .. Len(q) : r[i] = q[i]
  OBVIOUS
<1> HIDE DEF r
<1>2. IsFiniteSet(Ends(q)) /\ Cardinality(Ends(q)) \in Nat /\ Len(q) + 1 \notin Ends(q)
  BY <1>1, EndsFinite DEF Ends
<1>3. CASE Eot(ch)
  <2>1. Ends(r) = Ends(q) \cup {Len(q) + 1}
    BY <1>1, <1>3 DEF Ends
  <2>2. Cardinality(Ends(r)) = Cardinality(Ends(q)) + 1
    BY <1>2, <2>1, FS_AddElement
  <2> QED
    BY <1>1, <1>3, <2>2 DEF r
<1>4. CASE ~ Eot(ch)
  <2>1. Ends(r) = Ends(q)
    BY <1>1, <1>4 DEF Ends
  <2> QED
    BY <1>1, <1>2, <1>4, <2>1 DEF r
<1> QED
  BY <1>3, <1>4

(* The part of a queue up to a place after which no line ends.             *)
LEMMA EndsUpTo ==
    ASSUME NEW q \in Seq(Chars), NEW m \in 0 .. Len(q), \A i \in Ends(q) : i <= m
    PROVE  /\ SubSeq(q, 1, m) \in Seq(Chars) /\ Len(SubSeq(q, 1, m)) = m
           /\ Ends(SubSeq(q, 1, m)) = Ends(q)
<1>1. Len(q) \in Nat /\ m \in Nat /\ m <= Len(q)
  OBVIOUS
<1>2. /\ SubSeq(q, 1, m) \in Seq(Chars) /\ Len(SubSeq(q, 1, m)) = m
      /\ \A i \in 1 .. m : SubSeq(q, 1, m)[i] = q[i]
  BY <1>1
<1> QED
  BY <1>1, <1>2 DEF Ends

(* The part of a queue behind its first n characters.                      *)
LEMMA EndsFrom ==
    ASSUME NEW q \in Seq(Chars), NEW n \in 0 .. Len(q)
    PROVE  LET r == SubSeq(q, n + 1, Len(q)) IN
           /\ r \in Seq(Chars) /\ Len(r) = Len(q) - n
           /\ Cardinality(Ends(r)) = Cardinality(Ends(q)) - Cardinality({i \in 1 .. n : Eot(q[i])})
<1> DEFINE r == SubSeq(q, n + 1, Len(q))
           front == {i \in 1 .. n : Eot(q[i])}
           back == {i \in n + 1 .. Len(q) : Eot(q[i])}
<1>1. Len(q) \in Nat /\ n \in Nat /\ n <= Len(q)
  OBVIOUS
<1>2. /\ r \in Seq(Chars) /\ Len(r) = Len(q) - n
      /\ \A i \in 1 .. Len(q) - n : r[i] = q[i + n]
  BY <1>1
<1> HIDE DEF r
<1>3. Ends(q) = front \cup back /\ front \cap back = {}
  BY <1>1 DEF Ends
<1>4. IsFiniteSet(Ends(q)) /\ IsFiniteSet(front) /\ IsFiniteSet(back) /\ IsFiniteSet(Ends(r))
  <2>1. IsFiniteSet(Ends(q)) /\ IsFiniteSet(Ends(r))
    BY <1>2, EndsFinite
  <2> QED
    BY <1>3, <2>1, FS_Subset
<1>5. Cardinality(Ends(q)) = Cardinality(front) + Cardinality(back)
  <2>1. /\ Cardinality(front \cup back) = Cardinality(front) + Cardinality(back) - Cardinality(front \cap back)
        /\ Cardinality(front) \in Nat /\ Cardinality(back) \in Nat
    BY <1>4, FS_Union, FS_CardinalityType
  <2>2. Cardinality(front \cap back) = 0
    BY <1>3, FS_EmptySet
  <2> QED
    BY <1>3, <2>1, <2>2
<1>6. Cardinality(back) = Cardinality(Ends(r))
  <2> DEFINE f == [i \in Ends(r) |-> i + n]
  <2>1. \A i \in Ends(r) : i \in 1 .. Len(q) - n /\ i + n \in back
    BY <1>1, <1>2 DEF Ends
  <2>2. \A j \in back : j - n \in Ends(r) /\ j = (j - n) + n
    BY <1>1, <1>2 DEF Ends
  <2>3. f \in [Ends(r) -> back] /\ \A i \in Ends(r) : f[i] = i + n
    BY <2>1
  <2>4. \A i, j \in Ends(r) : f[i] = f[j] => i = j
    BY <1>1, <2>1, <2>3
  <2>5. \A j \in back : \E i \in Ends(r) : f[i] = j
    BY <2>2, <2>3
  <2> HIDE DEF f
  <2>6. f \in Bijection(Ends(r), back)
    BY <2>3, <2>4, <2>5 DEF Bijection, Injection, Surjection, IsInjective
  <2>7. ExistsBijection(Ends(r), back)
    BY <2>6 DEF ExistsBijection
  <2> QED
    BY <1>4, <2>7, FS_Bijection
<1>7. Cardinality(front) \in Nat /\ Cardinality(back) \in Nat
  BY <1>4, FS_CardinalityType
<1> QED
  BY <1>2, <1>5, <1>6, <1>7 DEF r

-----------------------------------------------------------------------------
(* What a console's record holds.                                          *)
Codes == {"none", "TASK_REPLY", "REVIVE"}
Caller == Proc \cup {NoOne}

Console ==
    [events : SUBSET {"READ", "WRITE"}, queue : Seq(Chars), eot_count : Nat, escaped : BOOLEAN,
     in_left : Counts \cup {0}, in_proc : Caller, in_code : Codes,
     out_left : {0, 1}, out_proc : Caller, out_code : Codes, inhibited : BOOLEAN]

(* The queue fits, and its lines are counted.                              *)
QueueOK(t) == Len(t.queue) <= INPUT /\ t.eot_count = Cardinality(Ends(t.queue))

(* u is t after some keys: its reader and its writer are the same, events  *)
(* are only added, and WRITE is when the output may go on.                 *)
SameIO(t, u) ==
    /\ u.in_left = t.in_left /\ u.in_proc = t.in_proc /\ u.in_code = t.in_code
    /\ u.out_left = t.out_left /\ u.out_proc = t.out_proc /\ u.out_code = t.out_code

Fed(t, u) ==
    /\ u \in Console /\ QueueOK(u) /\ SameIO(t, u)
    /\ t.events \subseteq u.events
    /\ "READ" \in u.events => "READ" \in t.events
    /\ ~ u.inhibited => ~ t.inhibited \/ "WRITE" \in u.events

(* Keys after keys.                                                        *)
LEMMA FedThen ==
    ASSUME NEW t, NEW u, NEW v, Fed(t, u), Fed(u, v)
    PROVE  Fed(t, v)
BY DEF Fed, SameIO

(* The parameters.                                                         *)
LEMMA Params ==
    /\ NR_CONSOLES \in Nat \ {0} /\ RING \in Nat \ {0} /\ INPUT \in Nat \ {0}
    /\ NoOne \notin Proc /\ NonBlocking \subseteq Proc /\ Key \subseteq Keys /\ Counts \subseteq Nat
    /\ 0 \in Line /\ Line \subseteq Nat
BY TerminalAssumption DEF Line

(* A new queue whose lines are counted, in a console that is else the same.*)
LEMMA NewQueue ==
    ASSUME NEW t \in Console, NEW q \in Seq(Chars), Len(q) <= INPUT,
           NEW u, u = [t EXCEPT !.queue = q, !.eot_count = Cardinality(Ends(q))]
    PROVE  Fed(t, u)
<1>1. Cardinality(Ends(q)) \in Nat
  BY EndsFinite
<1>2. /\ u \in Console /\ u.queue = q /\ u.eot_count = Cardinality(Ends(q))
      /\ u.events = t.events /\ u.inhibited = t.inhibited /\ SameIO(t, u)
  BY <1>1 DEF Console, SameIO
<1> QED
  BY <1>2 DEF Fed, QueueOK

(* back_over and the erasing of a line take no end of a line.              *)
LEMMA BackOver ==
    ASSUME NEW t \in Console, QueueOK(t)
    PROVE  Fed(t, back_over(t)) /\ Fed(t, Erased(t))
<1>1. /\ t.queue \in Seq(Chars) /\ Len(t.queue) \in Nat /\ Len(t.queue) <= INPUT
      /\ t.eot_count = Cardinality(Ends(t.queue)) /\ INPUT \in Nat
  BY Params DEF Console, QueueOK
<1>2. ASSUME NEW m \in 0 .. Len(t.queue), \A i \in Ends(t.queue) : i <= m
      PROVE  Fed(t, [t EXCEPT !.queue = SubSeq(t.queue, 1, m)])
  <2>1. PICK q : q = SubSeq(t.queue, 1, m)
    OBVIOUS
  <2>2. q \in Seq(Chars) /\ Len(q) = m /\ Ends(q) = Ends(t.queue)
    BY <1>1, <1>2, <2>1, EndsUpTo
  <2>3. Len(q) <= INPUT
    BY <1>1, <2>2
  <2>4. PICK n : n = Cardinality(Ends(q))
    OBVIOUS
  <2>5. t.eot_count = n
    BY <1>1, <2>2, <2>4
  <2>6. [t EXCEPT !.queue = q] = [t EXCEPT !.queue = q, !.eot_count = n]
    BY ONLY <2>5, t \in Console DEF Console
  <2>7. Fed(t, [t EXCEPT !.queue = q, !.eot_count = n])
    BY <2>2, <2>3, <2>4, NewQueue
  <2> QED
    BY <2>1, <2>6, <2>7
<1>3. Fed(t, t)
  BY DEF Fed, SameIO
<1>4. Fed(t, back_over(t))
  <2>1. CASE t.queue = << >> \/ Eot(Last(t.queue))
    BY <1>3, <2>1 DEF back_over
  <2>2. CASE ~ (t.queue = << >> \/ Eot(Last(t.queue)))
    <3>1. PICK m : m = Len(t.queue) - 1
      OBVIOUS
    <3>2. m \in 0 .. Len(t.queue) /\ \A i \in Ends(t.queue) : i <= m
      BY <1>1, <2>2, <3>1 DEF Ends, Last
    <3>3. back_over(t) = [t EXCEPT !.queue = SubSeq(t.queue, 1, m)]
      BY <2>2, <3>1 DEF back_over, Front
    <3> QED
      BY <1>2, <3>2, <3>3
  <2> QED
    BY <2>1, <2>2
<1>5. Fed(t, Erased(t))
  <2>1. PICK m : m = Max(Ends(t.queue) \cup {0})
    OBVIOUS
  <2>2. Ends(t.queue) \cup {0} \in SUBSET (0 .. Len(t.queue))
    BY <1>1, EndsFinite
  <2>3. m \in 0 .. Len(t.queue) /\ \A i \in Ends(t.queue) : m >= i
    BY <1>1, <2>1, <2>2, MaxIs
  <2>4. \A i \in Ends(t.queue) : i <= m
    BY <2>2, <2>3
  <2>5. Erased(t) = [t EXCEPT !.queue = SubSeq(t.queue, 1, m)]
    BY <2>1 DEF Erased, Ends
  <2> QED
    BY <1>2, <2>3, <2>4, <2>5
<1> QED
  BY <1>4, <1>5

(* A character is stored, or lost when the queue is full.                  *)
LEMMA StoredIs ==
    ASSUME NEW t \in Console, QueueOK(t), NEW ch \in Chars
    PROVE  Fed(t, Stored(t, ch))
<1>1. /\ t.queue \in Seq(Chars) /\ Len(t.queue) \in Nat /\ Len(t.queue) <= INPUT
      /\ t.eot_count = Cardinality(Ends(t.queue)) /\ t.eot_count \in Nat /\ INPUT \in Nat
  BY Params DEF Console, QueueOK
<1>2. CASE Len(t.queue) = INPUT
  BY <1>2 DEF Stored, Fed, SameIO
<1>3. CASE Len(t.queue) # INPUT
  <2>1. PICK q : q = Append(t.queue, ch)
    OBVIOUS
  <2>2. /\ q \in Seq(Chars) /\ Len(q) = Len(t.queue) + 1
        /\ Cardinality(Ends(q)) = t.eot_count + (IF Eot(ch) THEN 1 ELSE 0)
    BY <1>1, <2>1, EndsAppend
  <2>3. Stored(t, ch) = [t EXCEPT !.queue = q, !.eot_count = IF Eot(ch) THEN t.eot_count + 1 ELSE t.eot_count]
    BY <1>3, <2>1 DEF Stored
  <2>4. (IF Eot(ch) THEN t.eot_count + 1 ELSE t.eot_count) = Cardinality(Ends(q))
    BY <1>1, <2>2
  <2>5. Len(q) <= INPUT
    BY <1>1, <1>3, <2>2
  <2> QED
    BY <2>2, <2>3, <2>4, <2>5, NewQueue
<1> QED
  BY <1>2, <1>3

(* A stopped output is restarted.                                          *)
LEMMA RestartedIs ==
    ASSUME NEW t \in Console, QueueOK(t)
    PROVE  Fed(t, Restarted(t))
<1>1. CASE t.inhibited
  <2>1. PICK u : u = [t EXCEPT !.inhibited = FALSE, !.events = t.events \cup {"WRITE"}]
    OBVIOUS
  <2>2. u \in Console /\ u.queue = t.queue /\ u.eot_count = t.eot_count /\ SameIO(t, u)
    BY <2>1 DEF Console, SameIO
  <2>3. u.events = t.events \cup {"WRITE"}
    BY <2>1 DEF Console
  <2>4. Restarted(t) = u
    BY <1>1, <2>1 DEF Restarted
  <2> QED
    BY <2>2, <2>3, <2>4 DEF Fed, QueueOK
<1>2. CASE ~ t.inhibited
  BY <1>2 DEF Restarted, Fed, SameIO
<1> QED
  BY <1>1, <1>2

(* What input_handler does to a console, whatever the key.                 *)
LEMMA InputHandler ==
    ASSUME NEW t \in Console, QueueOK(t), NEW key \in Keys
    PROVE  Fed(t, input_handler(t, key))
<1> DEFINE u == [t EXCEPT !.escaped = FALSE]
           k == IF t.escaped THEN "text" ELSE key
           text == Char(k, FALSE)
<1>1. Fed(t, u) /\ u \in Console /\ QueueOK(u) /\ u.inhibited = t.inhibited
  <2>1. u \in Console /\ u.queue = t.queue /\ u.eot_count = t.eot_count /\ SameIO(t, u)
        /\ u.events = t.events
    BY DEF Console, SameIO
  <2>2. u.inhibited = t.inhibited
    BY DEF Console
  <2> QED
    BY <2>1, <2>2 DEF Fed, QueueOK
<1>2. text \in Chars
  BY DEF Char, Chars, Eot, Keys
<1>3. ASSUME NEW v, Fed(u, v) PROVE Fed(t, v) /\ v \in Console /\ QueueOK(v)
  BY <1>1, <1>3, FedThen DEF Fed
<1>4. /\ input_handler(t, key) =
           CASE k = "lnext" -> [u EXCEPT !.escaped = TRUE]
             [] k = "erase" -> back_over(u)
             [] k = "stop"  -> [u EXCEPT !.inhibited = TRUE, !.events = @ \cup {"WRITE"}]
             [] k = "kill"  -> Stored(Restarted(Erased(u)), text)
             [] k = "start" /\ t.inhibited -> Restarted(u)
             [] OTHER       -> Stored(Restarted(u), text)
  BY DEF input_handler
<1> HIDE DEF u, k, text
<1>5. CASE k = "lnext"
  <2>1. PICK v : v = [u EXCEPT !.escaped = TRUE]
    OBVIOUS
  <2>2. v \in Console /\ v.queue = u.queue /\ v.eot_count = u.eot_count /\ SameIO(u, v)
        /\ v.events = u.events
    BY <1>1, <2>1 DEF Console, SameIO
  <2>3. v.inhibited = u.inhibited
    BY <1>1, <2>1 DEF Console
  <2>4. Fed(u, v)
    BY <1>1, <2>2, <2>3 DEF Fed, QueueOK
  <2> QED
    BY <1>3, <1>4, <1>5, <2>1, <2>4
<1>6. CASE k = "erase"
  BY <1>1, <1>3, <1>4, <1>6, BackOver
<1>7. CASE k = "stop"
  <2>1. PICK v : v = [u EXCEPT !.inhibited = TRUE, !.events = u.events \cup {"WRITE"}]
    OBVIOUS
  <2>2. v \in Console /\ v.queue = u.queue /\ v.eot_count = u.eot_count /\ SameIO(u, v)
        /\ v.events = u.events \cup {"WRITE"}
    BY <1>1, <2>1 DEF Console, SameIO
  <2>3. Fed(u, v)
    BY <1>1, <2>2 DEF Fed, QueueOK
  <2> QED
    BY <1>3, <1>4, <1>7, <2>1, <2>3
<1>8. CASE k = "kill"
  <2>1. PICK v : v = Erased(u)
    OBVIOUS
  <2>2. Fed(u, v) /\ v \in Console /\ QueueOK(v)
    BY <1>1, <2>1, BackOver DEF Fed
  <2>3. PICK w : w = Restarted(v)
    OBVIOUS
  <2>4. Fed(u, w) /\ w \in Console /\ QueueOK(w)
    BY <2>2, <2>3, RestartedIs, FedThen DEF Fed
  <2>5. Fed(u, Stored(w, text))
    BY <1>2, <2>4, StoredIs, FedThen
  <2> QED
    BY <1>3, <1>4, <1>8, <2>1, <2>3, <2>5
<1>9. CASE k \notin {"lnext", "erase", "stop", "kill"}
  <2>1. PICK w : w = Restarted(u)
    OBVIOUS
  <2>2. Fed(u, w) /\ w \in Console /\ QueueOK(w)
    BY <1>1, <2>1, RestartedIs DEF Fed
  <2>3. Fed(u, Stored(w, text))
    BY <1>2, <2>2, StoredIs, FedThen
  <2>4. input_handler(t, key) \in {w, Stored(w, text)}
    BY <1>4, <1>9, <2>1
  <2> QED
    BY <1>3, <2>2, <2>3, <2>4
<1> QED
  BY <1>5, <1>6, <1>7, <1>8, <1>9

(* in_transfer takes no more than there is.                                *)
LEMMA TakenIs ==
    ASSUME NEW t \in Console, QueueOK(t), CanTransfer(t)
    PROVE  Taken(t) \in 0 .. Len(t.queue)
<1>1. /\ t.queue \in Seq(Chars) /\ Len(t.queue) \in Nat /\ t.in_left \in Nat /\ t.in_left > 0
      /\ Cardinality(Ends(t.queue)) > 0
  <2>1. t.queue \in Seq(Chars) /\ t.in_left \in Nat /\ t.eot_count \in Nat
    BY Params DEF Console
  <2>2. t.in_left > 0 /\ t.eot_count >= 1 /\ t.eot_count = Cardinality(Ends(t.queue))
    BY DEF QueueOK, CanTransfer
  <2> QED
    BY <2>1, <2>2
<1>2. PICK ends : ends = Ends(t.queue)
  OBVIOUS
<1>3. ends # {} /\ ends \in SUBSET (1 .. Len(t.queue)) /\ ends \in SUBSET Nat
  <2>1. ends # {}
    BY <1>1, <1>2, EndsFinite
  <2>2. ends \in SUBSET (1 .. Len(t.queue))
    BY <1>2 DEF Ends
  <2> QED
    BY <1>1, <2>1, <2>2
<1>4. PICK first : first = Min(ends)
  OBVIOUS
<1>5. first \in 1 .. Len(t.queue)
  BY <1>3, <1>4, MinIs
<1>6. PICK left : left = t.in_left
  OBVIOUS
<1>7. Taken(t) = IF t.queue[first] = "newline" \/ left < first - 1 THEN Min({first, left})
                 ELSE IF left = first - 1 THEN first - 1 ELSE first
  BY <1>2, <1>3, <1>4, <1>6 DEF Taken, Ends
<1>8. left \in Nat /\ {first, left} \in SUBSET Nat /\ {first, left} # {}
  BY <1>1, <1>5, <1>6
<1>9. Min({first, left}) \in {first, left} /\ Min({first, left}) <= first
  BY <1>8, MinIs
<1>10. PICK least : least = Min({first, left})
  OBVIOUS
<1>11. least \in Nat /\ least <= first
  BY <1>8, <1>9, <1>10
<1>12. Taken(t) \in {least, first - 1, first}
  BY <1>7, <1>10
<1> QED
  BY ONLY <1>1, <1>5, <1>11, <1>12

(* u is t after its reader got a line: nobody reads, all else is the same. *)
LineRead(t, u) ==
    /\ u \in Console /\ QueueOK(u) /\ u.in_left = 0 /\ u.in_proc = NoOne /\ u.in_code = "none"
    /\ u.out_left = t.out_left /\ u.out_proc = t.out_proc /\ u.out_code = t.out_code
    /\ u.events = t.events /\ u.inhibited = t.inhibited

(* in_transfer.                                                            *)
LEMMA TransferredIs ==
    ASSUME NEW t \in Console, QueueOK(t), CanTransfer(t)
    PROVE  LineRead(t, Transferred(t))
<1>1. PICK n : n = Taken(t)
  OBVIOUS
<1>2. /\ t.queue \in Seq(Chars) /\ Len(t.queue) \in Nat /\ Len(t.queue) <= INPUT
      /\ t.eot_count = Cardinality(Ends(t.queue)) /\ n \in 0 .. Len(t.queue) /\ INPUT \in Nat
  BY <1>1, TakenIs, Params DEF Console, QueueOK
<1>3. PICK q : q = SubSeq(t.queue, n + 1, Len(t.queue))
  OBVIOUS
<1>4. PICK e : e = t.eot_count - Cardinality({i \in 1 .. n : Eot(t.queue[i])})
  OBVIOUS
<1>5. /\ q \in Seq(Chars) /\ Len(q) = Len(t.queue) - n /\ Cardinality(Ends(q)) = e
  BY <1>2, <1>3, <1>4, EndsFrom
<1>6. Len(q) <= INPUT /\ e \in Nat
  BY <1>2, <1>5, EndsFinite
<1>7. PICK v : v = [t EXCEPT !.queue = q, !.eot_count = e]
  OBVIOUS
<1>8. Transferred(t) = [v EXCEPT !.in_left = 0, !.in_proc = NoOne, !.in_code = "none"]
  BY <1>1, <1>3, <1>4, <1>7 DEF Transferred, NotReading
<1>9. v \in Console /\ v.queue = q /\ v.eot_count = e
      /\ v.out_left = t.out_left /\ v.out_proc = t.out_proc /\ v.out_code = t.out_code
      /\ v.events = t.events
  BY <1>5, <1>6, <1>7 DEF Console
<1>10. v.inhibited = t.inhibited
  BY <1>7 DEF Console
<1>11. PICK u : u = Transferred(t)
  OBVIOUS
<1>12. /\ u \in Console /\ u.queue = q /\ u.eot_count = e
       /\ u.in_left = 0 /\ u.in_proc = NoOne /\ u.in_code = "none"
       /\ u.out_left = v.out_left /\ u.out_proc = v.out_proc /\ u.out_code = v.out_code
       /\ u.events = v.events
  BY <1>8, <1>9, <1>11 DEF Console, Caller, Codes
<1>13. u.inhibited = v.inhibited
  BY <1>8, <1>9, <1>11 DEF Console
<1> QED
  BY <1>5, <1>6, <1>9, <1>10, <1>11, <1>12, <1>13 DEF LineRead, QueueOK

-----------------------------------------------------------------------------
(* The task, its message and the file system.                              *)
Status == {"none", "done", "error", "SUSPEND"}
Message == [code : Codes, proc : Caller, status : Status]

Tasks == [at : {"scan", "receive", "keys", "send", "blocked", "again", "answer"},
          pos : 0 .. 2 * NR_CONSOLES, ctty : Line, after : {"scan", "answer"},
          msg : Message, next : {"scan", "keys", "again", "answer"}]

FileSystems == [at : {"receive", "work", "sending", "await", "result"},
                req : Request \cup {NoReq}, status : Status]

(* What the task is at, or comes back to when its message is taken.        *)
Sending == task.at \in {"send", "blocked"}
Doing == IF Sending THEN task.next ELSE task.at
Answering == Doing \in {"again", "answer"} \/ (Doing = "keys" /\ task.after = "answer")

(* Everything is of its kind, and a console is read from its own place.    *)
BaseInv ==
    /\ ring \in Seq(Key) /\ Len(ring) <= RING /\ current \in Line
    /\ wake \in BOOLEAN /\ hard \in BOOLEAN /\ suspended \in [Proc -> BOOLEAN]
    /\ tty \in [Line -> Console] /\ \A c \in Line : QueueOK(tty[c])
    /\ task \in Tasks /\ fs \in FileSystems /\ halted \in {"no", "panic", "crossed"}
    /\ Doing \in {"keys", "again", "answer"} => \E c \in Line : task.pos = 2 * c

(* A key that is not read yet has its event, on the console it was struck  *)
(* for or on the one that is fed now.                                      *)
KeysSeen ==
    /\ Doing # "keys" /\ ring # << >> => "READ" \in tty[current].events
    /\ Doing = "keys" /\ task.ctty # line /\ (ring # << >> \/ current # task.ctty)
          => "READ" \in tty[task.ctty].events

(* A line for a reader and output that may go on have their events too.    *)
WorkSeen ==
    \A c \in Line :
        /\ CanTransfer(tty[c]) => "READ" \in tty[c].events \/ (Doing = "keys" /\ line = c)
        /\ Writable(tty[c]) => "WRITE" \in tty[c].events

(* Without a wakeup under way, the events are ahead of the main loop.      *)
EventsAhead ==
    ~ wake /\ ~ hard =>
        \A c \in Line :
            /\ task.at = "receive" => tty[c].events = {}
            /\ ~ Answering /\ "READ" \in tty[c].events => 2 * c >= task.pos
            /\ ~ Answering /\ "WRITE" \in tty[c].events => 2 * c + 1 >= task.pos

(* What Owed(p) is made of: the consoles T and the message m.              *)
Reads(t, p) == t.in_left > 0 /\ t.in_proc = p
Writes(t, p) == t.out_left > 0 /\ t.out_proc = p

InsOf(T, p) == {<<"in", c>> : c \in {d \in Line : Reads(T[d], p)}}
OutsOf(T, p) == {<<"out", c>> : c \in {d \in Line : Writes(T[d], p)}}
MsgOf(m, p) == IF m.proc = p THEN {<<"msg", 0>>} ELSE {}

OwedOf(T, m, p) == InsOf(T, p) \cup OutsOf(T, p) \cup MsgOf(m, p)

OwedNothing(p) == OwedOf(tty, task.msg, p) = {}
OwedOnce(p) == \E x : OwedOf(tty, task.msg, p) = {x}

(* The calls that the task holds or answers.                               *)
CallsHeld ==
    /\ \A c \in Line :
          /\ tty[c].in_left > 0 => tty[c].in_proc \in Proc /\ tty[c].in_code # "none"
          /\ tty[c].out_left > 0 => tty[c].out_proc \in Proc /\ tty[c].out_code = "REVIVE"
          /\ tty[c].in_left > 0 /\ tty[c].in_code = "TASK_REPLY" =>
                /\ Answering /\ c = line /\ fs.at = "await" /\ fs.req.proc = tty[c].in_proc
                /\ task.msg.code # "TASK_REPLY"
          /\ tty[c].in_left > 0 /\ Answering /\ c = line => tty[c].in_code = "TASK_REPLY"
    /\ ~ Sending => task.msg = NoMsg
    /\ Sending => task.msg.proc \in Proc /\ task.msg.code # "none"
    /\ Sending /\ task.msg.code = "TASK_REPLY" =>
          task.at = "send" /\ fs.at = "await" /\ fs.req.proc = task.msg.proc
    /\ fs.at = "receive" => fs.req = NoReq
    /\ fs.at \in {"sending", "await", "result"} => fs.req # NoReq
    /\ task.at = "blocked" => fs.at \notin {"sending", "await"}

(* What is owed to a process that the file system is not busy with, and to *)
(* the one it is busy with.                                                *)
OthersOwed ==
    \A p \in Proc : fs.req.proc # p => IF suspended[p] THEN OwedOnce(p) ELSE OwedNothing(p)

CallerOwed ==
    \A p \in Proc : fs.req.proc = p =>
        /\ ~ suspended[p]
        /\ fs.at \in {"work", "sending"} => OwedNothing(p)
        /\ fs.at = "result" => IF fs.status = "SUSPEND" THEN OwedOnce(p) ELSE OwedNothing(p)
        /\ fs.at = "await" =>
              \/ /\ Sending /\ task.msg.code = "TASK_REPLY" /\ task.msg.proc = p
                 /\ IF task.msg.status = "SUSPEND"
                    THEN \E x : OwedOf(tty, NoMsg, p) = {x}
                    ELSE OwedOf(tty, NoMsg, p) = {}
              \/ /\ Answering /\ task.msg.proc # p
                 /\ tty[line].in_left > 0 /\ tty[line].in_proc = p /\ tty[line].in_code = "TASK_REPLY"
                 /\ OwedOf(tty, task.msg, p) = {<<"in", line>>}

WakeInv == KeysSeen /\ WorkSeen /\ EventsAhead
OweInv == halted = "no" => CallsHeld /\ OthersOwed /\ CallerOwed

IInv == BaseInv /\ WakeInv /\ OweInv

-----------------------------------------------------------------------------
(* Owed in these words.                                                    *)
LEMMA OwedIs == ASSUME NEW p PROVE Owed(p) = OwedOf(tty, task.msg, p)
<1>1. {<<"msg", 0>> : x \in {m \in {task.msg} : m.proc = p}} = MsgOf(task.msg, p)
  <2>1. CASE task.msg.proc = p
    <3>1. {m \in {task.msg} : m.proc = p} = {task.msg}
      BY <2>1
    <3> QED
      BY <2>1, <3>1 DEF MsgOf
  <2>2. CASE task.msg.proc # p
    <3>1. {m \in {task.msg} : m.proc = p} = {}
      BY <2>2
    <3> QED
      BY <2>2, <3>1 DEF MsgOf
  <2> QED
    BY <2>1, <2>2
<1>2. {d \in Line : tty[d].in_left > 0 /\ tty[d].in_proc = p} = {d \in Line : Reads(tty[d], p)}
  BY DEF Reads
<1>3. {d \in Line : tty[d].out_left > 0 /\ tty[d].out_proc = p} = {d \in Line : Writes(tty[d], p)}
  BY DEF Writes
<1> QED
  BY <1>1, <1>2, <1>3 DEF Owed, OwedOf, InsOf, OutsOf

(* What is owed by console c, and what is owed elsewhere.                  *)
InAt(t, c, p) == IF Reads(t, p) THEN {<<"in", c>>} ELSE {}
OutAt(t, c, p) == IF Writes(t, p) THEN {<<"out", c>>} ELSE {}

(* When only console c and the message change, what is owed elsewhere is   *)
(* owed as before.                                                         *)
LEMMA OwedParts ==
    ASSUME NEW c \in Line, NEW T, NEW T2, NEW m, NEW m2, NEW p,
           \A d \in Line : d # c => (Reads(T2[d], p) <=> Reads(T[d], p)) /\ (Writes(T2[d], p) <=> Writes(T[d], p))
    PROVE  \E E : /\ <<"in", c>> \notin E /\ <<"out", c>> \notin E /\ <<"msg", 0>> \notin E
                  /\ OwedOf(T, m, p) = E \cup InAt(T[c], c, p) \cup OutAt(T[c], c, p) \cup MsgOf(m, p)
                  /\ OwedOf(T2, m2, p) = E \cup InAt(T2[c], c, p) \cup OutAt(T2[c], c, p) \cup MsgOf(m2, p)
<1> DEFINE I == {<<"in", d>> : d \in {e \in Line : e # c /\ Reads(T[e], p)}}
           O == {<<"out", d>> : d \in {e \in Line : e # c /\ Writes(T[e], p)}}
<1>1. InsOf(T, p) = I \cup InAt(T[c], c, p) /\ InsOf(T2, p) = I \cup InAt(T2[c], c, p)
  BY DEF InsOf, InAt
<1>2. OutsOf(T, p) = O \cup OutAt(T[c], c, p) /\ OutsOf(T2, p) = O \cup OutAt(T2[c], c, p)
  BY DEF OutsOf, OutAt
<1>3. <<"in", c>> \notin I \cup O /\ <<"out", c>> \notin I \cup O /\ <<"msg", 0>> \notin I \cup O
  OBVIOUS
<1> HIDE DEF I, O
<1>4. /\ OwedOf(T, m, p) = (I \cup O) \cup InAt(T[c], c, p) \cup OutAt(T[c], c, p) \cup MsgOf(m, p)
      /\ OwedOf(T2, m2, p) = (I \cup O) \cup InAt(T2[c], c, p) \cup OutAt(T2[c], c, p) \cup MsgOf(m2, p)
  BY <1>1, <1>2 DEF OwedOf
<1> QED
  BY <1>3, <1>4

(* The message counts for one.                                             *)
LEMMA OwedWithMsg ==
    ASSUME NEW T, NEW m, NEW p \in Proc
    PROVE  /\ OwedOf(T, m, p) = OwedOf(T, NoMsg, p) \cup MsgOf(m, p)
           /\ <<"msg", 0>> \notin OwedOf(T, NoMsg, p)
<1>1. MsgOf(NoMsg, p) = {}
  BY Params DEF MsgOf, NoMsg
<1>2. <<"msg", 0>> \notin InsOf(T, p) /\ <<"msg", 0>> \notin OutsOf(T, p)
  BY DEF InsOf, OutsOf
<1> QED
  BY <1>1, <1>2 DEF OwedOf

(* The same readers, writers and message owe the same.                     *)
LEMMA OwedSame ==
    ASSUME NEW T, NEW T2, NEW m, NEW m2, NEW p, m2.proc = p <=> m.proc = p,
           \A d \in Line : (Reads(T2[d], p) <=> Reads(T[d], p)) /\ (Writes(T2[d], p) <=> Writes(T[d], p))
    PROVE  OwedOf(T2, m2, p) = OwedOf(T, m, p)
<1>1. InsOf(T2, p) = InsOf(T, p) /\ OutsOf(T2, p) = OutsOf(T, p)
  BY DEF InsOf, OutsOf
<1> QED
  BY <1>1 DEF OwedOf, MsgOf

(* What console c no longer owes to p, to whom nothing else was owed.      *)
LEMMA OwedGone ==
    ASSUME NEW c \in Line, NEW T, NEW T2, NEW m, NEW p \in Proc,
           \A d \in Line : d # c => (Reads(T2[d], p) <=> Reads(T[d], p)) /\ (Writes(T2[d], p) <=> Writes(T[d], p)),
           \/ Reads(T[c], p) /\ ~ Reads(T2[c], p) /\ (Writes(T2[c], p) <=> Writes(T[c], p))
           \/ Writes(T[c], p) /\ ~ Writes(T2[c], p) /\ (Reads(T2[c], p) <=> Reads(T[c], p)),
           NEW x, OwedOf(T, m, p) = {x}
    PROVE  OwedOf(T2, NoMsg, p) = {} /\ m.proc # p
<1>1. PICK E : /\ <<"in", c>> \notin E /\ <<"out", c>> \notin E /\ <<"msg", 0>> \notin E
               /\ OwedOf(T, m, p) = E \cup InAt(T[c], c, p) \cup OutAt(T[c], c, p) \cup MsgOf(m, p)
               /\ OwedOf(T2, NoMsg, p) = E \cup InAt(T2[c], c, p) \cup OutAt(T2[c], c, p) \cup MsgOf(NoMsg, p)
  BY OwedParts
<1>2. MsgOf(NoMsg, p) = {}
  BY Params DEF MsgOf, NoMsg
<1>3. <<"in", c>> # <<"out", c>> /\ <<"in", c>> # <<"msg", 0>> /\ <<"out", c>> # <<"msg", 0>>
  OBVIOUS
<1>4. CASE Reads(T[c], p) /\ ~ Reads(T2[c], p) /\ (Writes(T2[c], p) <=> Writes(T[c], p))
  <2>1. x = <<"in", c>> /\ E = {} /\ OutAt(T[c], c, p) = {} /\ MsgOf(m, p) = {}
    BY <1>1, <1>3, <1>4 DEF InAt, OutAt, MsgOf
  <2>2. InAt(T2[c], c, p) = {} /\ OutAt(T2[c], c, p) = {}
    BY <1>4, <2>1 DEF InAt, OutAt
  <2> QED
    BY <1>1, <1>2, <2>1, <2>2 DEF MsgOf
<1>5. CASE Writes(T[c], p) /\ ~ Writes(T2[c], p) /\ (Reads(T2[c], p) <=> Reads(T[c], p))
  <2>1. x = <<"out", c>> /\ E = {} /\ InAt(T[c], c, p) = {} /\ MsgOf(m, p) = {}
    BY <1>1, <1>3, <1>5 DEF InAt, OutAt, MsgOf
  <2>2. InAt(T2[c], c, p) = {} /\ OutAt(T2[c], c, p) = {}
    BY <1>5, <2>1 DEF InAt, OutAt
  <2> QED
    BY <1>1, <1>2, <2>1, <2>2 DEF MsgOf
<1> QED
  BY <1>4, <1>5

(* What console c owes to p, to whom nothing was owed before.              *)
LEMMA OwedNew ==
    ASSUME NEW c \in Line, NEW T, NEW T2, NEW p \in Proc,
           \A d \in Line : d # c => (Reads(T2[d], p) <=> Reads(T[d], p)) /\ (Writes(T2[d], p) <=> Writes(T[d], p)),
           OwedOf(T, NoMsg, p) = {}
    PROVE  /\ Reads(T2[c], p) /\ (Writes(T2[c], p) <=> Writes(T[c], p)) => OwedOf(T2, NoMsg, p) = {<<"in", c>>}
           /\ Writes(T2[c], p) /\ (Reads(T2[c], p) <=> Reads(T[c], p)) => OwedOf(T2, NoMsg, p) = {<<"out", c>>}
<1>1. PICK E : /\ <<"in", c>> \notin E /\ <<"out", c>> \notin E /\ <<"msg", 0>> \notin E
               /\ OwedOf(T, NoMsg, p) = E \cup InAt(T[c], c, p) \cup OutAt(T[c], c, p) \cup MsgOf(NoMsg, p)
               /\ OwedOf(T2, NoMsg, p) = E \cup InAt(T2[c], c, p) \cup OutAt(T2[c], c, p) \cup MsgOf(NoMsg, p)
  BY OwedParts
<1>2. E = {} /\ InAt(T[c], c, p) = {} /\ OutAt(T[c], c, p) = {} /\ MsgOf(NoMsg, p) = {}
  BY <1>1
<1>3. ~ Reads(T[c], p) /\ ~ Writes(T[c], p)
  BY <1>2 DEF InAt, OutAt
<1> QED
  BY <1>1, <1>2, <1>3 DEF InAt, OutAt

-----------------------------------------------------------------------------
(* The steps, the file system's own first.                                 *)

(* What a request of the file system names.                                *)
LEMMA Requests ==
    ASSUME NEW r \in Request \cup {NoReq}
    PROVE  /\ r.proc \in Caller /\ (r # NoReq <=> r.proc \in Proc)
           /\ r # NoReq => r.kind \in {"read", "write", "open"} /\ r.line \in Line
           /\ r.kind = "read" => r.count \in Counts
<1>1. 0 \in Line /\ NoOne \notin Proc
  BY Params
<1> QED
  BY <1>1 DEF Request, NoReq, Caller

(* A step of the file system touches nothing of the task's.                *)
LEMMA FsKeeps ==
    ASSUME IInv, UNCHANGED <<ring, current, wake, hard, tty, task>>, fs' \in FileSystems,
           suspended' \in [Proc -> BOOLEAN], halted' \in {"no", "panic", "crossed"}
    PROVE  /\ BaseInv' /\ WakeInv'
           /\ Sending' = Sending /\ Answering' = Answering /\ Doing' = Doing /\ line' = line
<1>1. Sending' = Sending /\ Answering' = Answering /\ Doing' = Doing /\ line' = line
  BY DEF Sending, Answering, Doing, line
<1>2. BaseInv'
  <2>1. wake' \in BOOLEAN /\ hard' \in BOOLEAN
    BY DEF IInv, BaseInv
  <2> QED
    BY <1>1, <2>1 DEF IInv, BaseInv
<1>3. KeysSeen' /\ WorkSeen' /\ EventsAhead'
  BY <1>1 DEF IInv, WakeInv, KeysSeen, WorkSeen, EventsAhead
<1> QED
  BY <1>1, <1>2, <1>3 DEF WakeInv

(* The file system takes a call, works and gives it to the task.           *)
LEMMA FsSteps ==
    IInv /\ ((\E req \in Request \cup {NoReq} : fs_receive(req)) \/ fs_other \/ dev_call \/ dev_result) => IInv'
<1> SUFFICES ASSUME IInv, \/ \E req \in Request \cup {NoReq} : fs_receive(req)
                          \/ fs_other \/ dev_call \/ dev_result
             PROVE  IInv'
  OBVIOUS
<1>1. UNCHANGED <<ring, current, wake, hard, tty, task>> /\ halted = "no"
  BY DEF fs_receive, fs_other, dev_call, dev_result, Still, RunningSystem
<1>2. /\ CallsHeld /\ OthersOwed /\ CallerOwed /\ fs \in FileSystems /\ fs.req \in Request \cup {NoReq}
      /\ suspended \in [Proc -> BOOLEAN]
  BY <1>1 DEF IInv, OweInv, BaseInv, FileSystems
<1>3. \A p : OwedNothing(p)' = OwedNothing(p) /\ OwedOnce(p)' = OwedOnce(p)
  BY <1>1 DEF OwedNothing, OwedOnce, OwedOf, InsOf, OutsOf, MsgOf, Reads, Writes
<1>4. CASE \E req \in Request \cup {NoReq} : fs_receive(req)
  <2>1. PICK req \in Request \cup {NoReq} : fs_receive(req)
    BY <1>4
  <2>2. /\ fs.at = "receive" /\ fs.req = NoReq /\ (req # NoReq => ~ suspended[req.proc])
        /\ fs' = [Free EXCEPT !.at = "work", !.req = req] /\ UNCHANGED <<suspended, halted>>
    BY <1>2, <2>1 DEF fs_receive, CallsHeld
  <2>3. fs' \in FileSystems /\ fs'.at = "work" /\ fs'.req = req /\ fs.req.proc = NoOne
    <3>1. fs' = [at |-> "work", req |-> req, status |-> "none"]
      BY <2>2 DEF Free
    <3>2. fs' \in FileSystems
      BY <3>1 DEF FileSystems, Status
    <3>3. fs.req.proc = NoOne
      BY <2>2 DEF NoReq
    <3> QED
      BY <3>1, <3>2, <3>3
  <2>4. /\ BaseInv' /\ WakeInv'
        /\ Sending' = Sending /\ Answering' = Answering /\ Doing' = Doing /\ line' = line
    BY <1>1, <1>2, <2>2, <2>3, FsKeeps DEF IInv, BaseInv
  <2>5. CallsHeld'
    BY <1>1, <1>2, <2>2, <2>3, <2>4 DEF CallsHeld
  <2>6. \A p \in Proc : IF suspended[p] THEN OwedOnce(p) ELSE OwedNothing(p)
    BY <1>2, <2>3, Params DEF OthersOwed
  <2>7. OthersOwed'
    BY <1>3, <2>2, <2>6 DEF OthersOwed
  <2>8. CallerOwed'
    BY <1>3, <2>1, <2>2, <2>3, <2>6, Requests DEF CallerOwed
  <2> QED
    BY <2>4, <2>5, <2>7, <2>8 DEF IInv, OweInv
<1>5. CASE fs_other
  <2>1. /\ fs.at = "work" /\ fs.req = NoReq /\ fs' = Free /\ UNCHANGED <<suspended, halted>>
    BY <1>5 DEF fs_other
  <2>2. fs' \in FileSystems /\ fs'.at = "receive" /\ fs'.req = NoReq /\ NoReq.proc = NoOne
    BY <2>1 DEF FileSystems, Free, Status, NoReq
  <2>3. /\ BaseInv' /\ WakeInv'
        /\ Sending' = Sending /\ Answering' = Answering /\ Doing' = Doing /\ line' = line
    BY <1>1, <1>2, <2>1, <2>2, FsKeeps DEF IInv, BaseInv
  <2>4. CallsHeld'
    BY <1>1, <1>2, <2>1, <2>2, <2>3 DEF CallsHeld
  <2>5. OthersOwed' /\ CallerOwed'
    BY <1>2, <1>3, <2>1, <2>2, Params DEF OthersOwed, CallerOwed
  <2> QED
    BY <2>3, <2>4, <2>5 DEF IInv, OweInv
<1>6. CASE dev_call
  <2>1. fs.at = "work" /\ fs.req # NoReq /\ UNCHANGED suspended
    BY <1>6 DEF dev_call
  <2>2. CASE task.at # "blocked" /\ fs' = [fs EXCEPT !.at = "sending"] /\ UNCHANGED halted
    <3>1. fs' \in FileSystems /\ fs'.at = "sending" /\ fs'.req = fs.req
      BY <1>2, <2>2 DEF FileSystems
    <3>2. /\ BaseInv' /\ WakeInv'
          /\ Sending' = Sending /\ Answering' = Answering /\ Doing' = Doing /\ line' = line
      BY <1>1, <1>2, <2>1, <2>2, <3>1, FsKeeps DEF IInv, BaseInv
    <3>3. CallsHeld'
      BY <1>1, <1>2, <2>1, <2>2, <3>1, <3>2 DEF CallsHeld
    <3>4. OthersOwed' /\ CallerOwed'
      BY <1>2, <1>3, <2>1, <3>1 DEF OthersOwed, CallerOwed
    <3> QED
      BY <3>2, <3>3, <3>4 DEF IInv, OweInv
  <2>3. CASE halted' = "panic" /\ UNCHANGED fs
    <3>1. BaseInv' /\ WakeInv'
      BY <1>1, <1>2, <2>1, <2>3, FsKeeps DEF IInv, BaseInv
    <3> QED
      BY <2>3, <3>1 DEF IInv, OweInv
  <2>4. CASE task.at = "blocked" /\ fs' = [fs EXCEPT !.at = "result", !.status = "done"] /\ UNCHANGED halted
    <3>1. fs' \in FileSystems /\ fs'.at = "result" /\ fs'.req = fs.req /\ fs'.status = "done"
      BY <1>2, <2>4 DEF FileSystems, Status
    <3>2. /\ BaseInv' /\ WakeInv'
          /\ Sending' = Sending /\ Answering' = Answering /\ Doing' = Doing /\ line' = line
      BY <1>1, <1>2, <2>1, <2>4, <3>1, FsKeeps DEF IInv, BaseInv
    <3>3. CallsHeld'
      BY <1>1, <1>2, <2>1, <2>4, <3>1, <3>2 DEF CallsHeld
    <3>4. OthersOwed' /\ CallerOwed'
      BY <1>2, <1>3, <2>1, <3>1 DEF OthersOwed, CallerOwed
    <3> QED
      BY <3>2, <3>3, <3>4 DEF IInv, OweInv
  <2> QED
    BY <1>6, <2>2, <2>3, <2>4 DEF dev_call
<1>7. CASE dev_result
  <2>1. /\ fs.at = "result" /\ fs' = Free /\ UNCHANGED halted
        /\ suspended' = [suspended EXCEPT ![fs.req.proc] = (fs.status = "SUSPEND")]
    BY <1>7 DEF dev_result
  <2>2. fs' \in FileSystems /\ fs'.at = "receive" /\ fs'.req = NoReq /\ NoReq.proc = NoOne
    BY <2>1 DEF FileSystems, Free, Status, NoReq
  <2>3. fs.req.proc \in Proc
    BY <1>2, <2>1, Requests DEF CallsHeld
  <2>4. /\ suspended' \in [Proc -> BOOLEAN]
        /\ suspended'[fs.req.proc] = (fs.status = "SUSPEND")
        /\ \A p \in Proc : p # fs.req.proc => suspended'[p] = suspended[p]
    BY <1>2, <2>1, <2>3
  <2>5. /\ BaseInv' /\ WakeInv'
        /\ Sending' = Sending /\ Answering' = Answering /\ Doing' = Doing /\ line' = line
    BY <1>1, <1>2, <2>1, <2>2, <2>4, FsKeeps DEF IInv, BaseInv
  <2>6. CallsHeld'
    BY <1>1, <1>2, <2>1, <2>2, <2>5 DEF CallsHeld
  <2>7. OthersOwed'
    <3> SUFFICES ASSUME NEW p \in Proc
                 PROVE  IF suspended'[p] THEN OwedOnce(p)' ELSE OwedNothing(p)'
      BY DEF OthersOwed
    <3>1. CASE p = fs.req.proc
      BY <1>2, <1>3, <2>1, <2>4, <3>1 DEF CallerOwed
    <3>2. CASE p # fs.req.proc
      BY <1>2, <1>3, <2>4, <3>2 DEF OthersOwed
    <3> QED
      BY <3>1, <3>2
  <2>8. CallerOwed'
    BY <2>2, Params DEF CallerOwed
  <2> QED
    BY <2>5, <2>6, <2>7, <2>8 DEF IInv, OweInv
<1> QED
  BY <1>4, <1>5, <1>6, <1>7

-----------------------------------------------------------------------------
(* The console that is being read.                                         *)
LEMMA LineIs ==
    ASSUME BaseInv, Doing \in {"keys", "again", "answer"}
    PROVE  line \in Line /\ task.pos = 2 * line
<1>1. PICK c \in Line : task.pos = 2 * c
  BY DEF BaseInv
<1>2. c \in Nat
  BY Params
<1> QED
  BY <1>1, <1>2 DEF line

(* A step that changes no call, and moves the task at most from one place  *)
(* of the same call to another.                                            *)
LEMMA OweSame ==
    ASSUME BaseInv, halted = "no", OweInv, UNCHANGED <<fs, suspended, halted>>, task'.msg = task.msg,
           \A c \in Line : SameIO(tty[c], tty'[c]),
           Sending' <=> Sending, Sending => task'.at = task.at,
           Answering' <=> Answering, Answering => line' = line
    PROVE  OweInv'
<1>1. CallsHeld /\ OthersOwed /\ CallerOwed
  BY DEF OweInv
<1>3. \A p : \A c \in Line : (Reads(tty'[c], p) <=> Reads(tty[c], p)) /\ (Writes(tty'[c], p) <=> Writes(tty[c], p))
  BY DEF Reads, Writes, SameIO
<1>4. \A p : OwedOf(tty', task'.msg, p) = OwedOf(tty, task.msg, p) /\ OwedOf(tty', NoMsg, p) = OwedOf(tty, NoMsg, p)
  BY <1>3, OwedSame
<1>5. \A p : OwedNothing(p)' = OwedNothing(p) /\ OwedOnce(p)' = OwedOnce(p)
  BY <1>4 DEF OwedNothing, OwedOnce
<1>6. task.at = "blocked" <=> task'.at = "blocked"
  BY DEF Sending
<1>7. task.at = "send" <=> task'.at = "send"
  BY DEF Sending
<1>8. CallsHeld'
  BY <1>1, <1>6, <1>7 DEF CallsHeld, SameIO
<1>9. OthersOwed'
  BY <1>1, <1>5 DEF OthersOwed
<1>10. CallerOwed'
  <2> SUFFICES ASSUME NEW p \in Proc, fs'.req.proc = p
               PROVE  /\ ~ suspended'[p]
                      /\ fs'.at \in {"work", "sending"} => OwedNothing(p)'
                      /\ fs'.at = "result" => IF fs'.status = "SUSPEND" THEN OwedOnce(p)' ELSE OwedNothing(p)'
                      /\ fs'.at = "await" =>
                            \/ /\ Sending' /\ task'.msg.code = "TASK_REPLY" /\ task'.msg.proc = p
                               /\ IF task'.msg.status = "SUSPEND"
                                  THEN \E x : OwedOf(tty', NoMsg, p) = {x}
                                  ELSE OwedOf(tty', NoMsg, p) = {}
                            \/ /\ Answering' /\ task'.msg.proc # p
                               /\ tty'[line'].in_left > 0 /\ tty'[line'].in_proc = p
                               /\ tty'[line'].in_code = "TASK_REPLY"
                               /\ OwedOf(tty', task'.msg, p) = {<<"in", line'>>}
    BY DEF CallerOwed
  <2>1. /\ ~ suspended'[p]
        /\ fs'.at \in {"work", "sending"} => OwedNothing(p)'
        /\ fs'.at = "result" => IF fs'.status = "SUSPEND" THEN OwedOnce(p)' ELSE OwedNothing(p)'
    BY <1>1, <1>5 DEF CallerOwed
  <2>2. ASSUME fs.at = "await",
               /\ Sending /\ task.msg.code = "TASK_REPLY" /\ task.msg.proc = p
               /\ IF task.msg.status = "SUSPEND"
                  THEN \E x : OwedOf(tty, NoMsg, p) = {x}
                  ELSE OwedOf(tty, NoMsg, p) = {}
        PROVE  /\ Sending' /\ task'.msg.code = "TASK_REPLY" /\ task'.msg.proc = p
               /\ IF task'.msg.status = "SUSPEND"
                  THEN \E x : OwedOf(tty', NoMsg, p) = {x}
                  ELSE OwedOf(tty', NoMsg, p) = {}
    BY <1>4, <2>2
  <2>3. ASSUME fs.at = "await",
               /\ Answering /\ task.msg.proc # p
               /\ tty[line].in_left > 0 /\ tty[line].in_proc = p /\ tty[line].in_code = "TASK_REPLY"
               /\ OwedOf(tty, task.msg, p) = {<<"in", line>>}
        PROVE  /\ Answering' /\ task'.msg.proc # p
               /\ tty'[line'].in_left > 0 /\ tty'[line'].in_proc = p
               /\ tty'[line'].in_code = "TASK_REPLY"
               /\ OwedOf(tty', task'.msg, p) = {<<"in", line'>>}
    <3>1. line \in Line
      BY <2>3, LineIs DEF Answering
    <3> QED
      BY <1>4, <2>3, <3>1 DEF SameIO
  <2> QED
    BY <1>1, <2>1, <2>2, <2>3 DEF CallerOwed
<1> QED
  BY <1>8, <1>9, <1>10 DEF OweInv

(* One console is replaced.                                                *)
LEMMA OneConsole ==
    ASSUME BaseInv, NEW c \in Line, NEW u \in Console, QueueOK(u), tty' = [tty EXCEPT ![c] = u]
    PROVE  /\ tty' \in [Line -> Console] /\ \A d \in Line : QueueOK(tty'[d])
           /\ tty'[c] = u /\ \A d \in Line : d # c => tty'[d] = tty[d]
BY DEF BaseInv

(* The events of a console change, and nothing else of it.                 *)
LEMMA EventsOnly ==
    ASSUME NEW t \in Console, QueueOK(t), NEW S \in SUBSET {"READ", "WRITE"},
           NEW u, u = [t EXCEPT !.events = S]
    PROVE  /\ u \in Console /\ QueueOK(u) /\ SameIO(t, u) /\ u.events = S
           /\ CanTransfer(u) <=> CanTransfer(t)
           /\ Writable(u) <=> Writable(t)
<1>1. /\ u \in Console /\ u.queue = t.queue /\ u.eot_count = t.eot_count /\ SameIO(t, u)
      /\ u.events = S
  BY DEF Console, SameIO
<1>2. u.inhibited = t.inhibited
  BY DEF Console
<1> QED
  BY <1>1, <1>2 DEF QueueOK, CanTransfer, Writable, SameIO

(* A key is struck, and the clock ticks.                                   *)
LEMMA KeySteps == IInv /\ ((\E key \in Key : keyboard_handler(key)) \/ tty_wakeup) => IInv'
<1> SUFFICES ASSUME IInv, (\E key \in Key : keyboard_handler(key)) \/ tty_wakeup PROVE IInv'
  OBVIOUS
<1>1. UNCHANGED <<current, task, fs, suspended, halted>> /\ halted = "no"
  BY DEF keyboard_handler, tty_wakeup, RunningSystem
<1>2. /\ Sending' = Sending /\ Answering' = Answering /\ Doing' = Doing /\ line' = line
      /\ task'.at = task.at /\ task'.msg = task.msg
  BY <1>1 DEF Sending, Answering, Doing, line
<1>3. BaseInv /\ KeysSeen /\ WorkSeen /\ EventsAhead /\ OweInv /\ current \in Line /\ task.ctty \in Line
  BY DEF IInv, WakeInv, BaseInv, Tasks
<1>4. CASE \E key \in Key : keyboard_handler(key)
  <2>1. PICK key \in Key : keyboard_handler(key)
    BY <1>4
  <2>2. PICK u : u = [tty[current] EXCEPT !.events = tty[current].events \cup {"READ"}]
    OBVIOUS
  <2>3. /\ ring' = Append(ring, key) /\ Len(ring) < RING /\ wake' = TRUE /\ UNCHANGED hard
        /\ tty' = [tty EXCEPT ![current] = u]
    BY <2>1, <2>2 DEF keyboard_handler
  <2>4. tty[current] \in Console /\ QueueOK(tty[current])
        /\ tty[current].events \cup {"READ"} \in SUBSET {"READ", "WRITE"}
    BY <1>3 DEF BaseInv, Console
  <2>5. /\ u \in Console /\ QueueOK(u) /\ SameIO(tty[current], u)
        /\ u.events = tty[current].events \cup {"READ"}
        /\ CanTransfer(u) <=> CanTransfer(tty[current])
        /\ Writable(u) <=> Writable(tty[current])
    BY <2>2, <2>4, EventsOnly
  <2>6. /\ tty' \in [Line -> Console] /\ \A d \in Line : QueueOK(tty'[d])
        /\ tty'[current] = u /\ \A d \in Line : d # current => tty'[d] = tty[d]
    BY <1>3, <2>3, <2>5, OneConsole
  <2>7. ring' \in Seq(Key) /\ Len(ring') <= RING
    BY <1>3, <2>3, Params DEF BaseInv
  <2>8. BaseInv'
    <3>1. wake' \in BOOLEAN /\ hard' \in BOOLEAN
      BY <1>3, <2>3 DEF BaseInv
    <3> QED
      BY <1>1, <1>2, <1>3, <2>6, <2>7, <3>1 DEF BaseInv
  <2>9. KeysSeen'
    <3>1. "READ" \in tty'[current].events /\ \A d \in Line : tty[d].events \subseteq tty'[d].events
      BY <1>3, <2>5, <2>6
    <3> QED
      BY <1>1, <1>2, <1>3, <3>1 DEF KeysSeen
  <2>10. WorkSeen'
    <3>1. \A d \in Line : /\ tty[d].events \subseteq tty'[d].events
                          /\ CanTransfer(tty'[d]) <=> CanTransfer(tty[d])
                          /\ Writable(tty'[d]) <=> Writable(tty[d])
      BY <1>3, <2>5, <2>6
    <3> QED
      BY <1>2, <1>3, <3>1 DEF WorkSeen
  <2>11. EventsAhead'
    BY <2>3 DEF EventsAhead
  <2>12. \A c \in Line : SameIO(tty[c], tty'[c])
    BY <2>5, <2>6 DEF SameIO
  <2>13. OweInv'
    BY <1>1, <1>2, <1>3, <2>12, OweSame
  <2> QED
    BY <2>8, <2>9, <2>10, <2>11, <2>13 DEF IInv, WakeInv
<1>5. CASE tty_wakeup
  <2>1. UNCHANGED <<ring, tty>> /\ hard' = TRUE /\ wake' = FALSE
    BY <1>5 DEF tty_wakeup
  <2>2. BaseInv'
    <3>1. wake' \in BOOLEAN /\ hard' \in BOOLEAN
      BY <2>1
    <3> QED
      BY <1>1, <1>2, <1>3, <2>1, <3>1 DEF BaseInv
  <2>3. KeysSeen' /\ WorkSeen'
    BY <1>1, <1>2, <1>3, <2>1 DEF KeysSeen, WorkSeen
  <2>4. EventsAhead'
    BY <2>1 DEF EventsAhead
  <2>5. OweInv'
    BY <1>1, <1>2, <1>3, <2>1, OweSame DEF SameIO
  <2> QED
    BY <2>2, <2>3, <2>4, <2>5 DEF IInv, WakeInv
<1> QED
  BY <1>4, <1>5

-----------------------------------------------------------------------------
(* The messages of the task.                                               *)

(* Nothing happens to keys, consoles and events while a message is sent.   *)
LEMMA WakeSame ==
    ASSUME WakeInv, UNCHANGED <<ring, current, wake, hard, tty>>,
           Doing' = Doing, Answering' = Answering, line' = line,
           task'.pos = task.pos, task'.ctty = task.ctty, task'.at # "receive"
    PROVE  WakeInv'
BY DEF WakeInv, KeysSeen, WorkSeen, EventsAhead

(* The message is taken: the task goes on to what it was doing.            *)
LEMMA SentIs ==
    ASSUME BaseInv, Sending, Sent
    PROVE  /\ task' \in Tasks /\ task'.at = task.next /\ task'.at # "receive" /\ task'.msg = NoMsg
           /\ task'.pos = task.pos /\ task'.ctty = task.ctty
           /\ ~ Sending' /\ Doing' = Doing /\ Answering' = Answering /\ line' = line
<1>1. task \in Tasks
  BY DEF BaseInv
<1>2. NoMsg \in Message
  BY DEF Message, NoMsg, Codes, Caller, Status
<1>3. /\ task' \in Tasks /\ task'.at = task.next /\ task'.msg = NoMsg
      /\ task'.pos = task.pos /\ task'.ctty = task.ctty /\ task'.after = task.after
  BY <1>1, <1>2 DEF Tasks, Sent
<1>4. task'.at \in {"scan", "keys", "again", "answer"}
  BY <1>1, <1>3 DEF Tasks
<1> QED
  BY <1>3, <1>4 DEF Sending, Doing, Answering, line

(* A process is revived: nothing is owed to it any more.                   *)
LEMMA RevivedKeeps ==
    ASSUME IInv, Sending, task.msg.code # "TASK_REPLY", Revived(task.msg), Sent, fs.at = "receive",
           UNCHANGED <<ring, current, wake, hard, tty, fs, halted>>, halted = "no"
    PROVE  IInv'
<1>1. /\ BaseInv /\ CallsHeld /\ OthersOwed /\ CallerOwed /\ WakeInv
      /\ suspended \in [Proc -> BOOLEAN]
  BY DEF IInv, OweInv, BaseInv
<1>2. /\ task' \in Tasks /\ task'.at # "receive" /\ task'.msg = NoMsg
      /\ task'.pos = task.pos /\ task'.ctty = task.ctty
      /\ ~ Sending' /\ Doing' = Doing /\ Answering' = Answering /\ line' = line
  BY <1>1, SentIs
<1>3. PICK p \in Proc : p = task.msg.proc
  BY <1>1 DEF CallsHeld
<1>4. /\ suspended' \in [Proc -> BOOLEAN] /\ ~ suspended'[p]
      /\ \A q \in Proc : q # p => suspended'[q] = suspended[q]
  BY <1>1, <1>3 DEF Revived
<1>5. WakeInv'
  BY <1>1, <1>2, WakeSame
<1>6. BaseInv'
  <2>1. wake' \in BOOLEAN /\ hard' \in BOOLEAN
    BY <1>1 DEF BaseInv
  <2> QED
    BY <1>1, <1>2, <1>4, <2>1 DEF BaseInv
<1>7. fs.req = NoReq /\ fs.req.proc = NoOne /\ NoOne \notin Proc
  BY <1>1, Params DEF CallsHeld, NoReq
<1>8. CallsHeld'
  <2>1. NoMsg.code = "none" /\ task'.at # "blocked"
    BY <1>2 DEF NoMsg, Sending
  <2> QED
    BY <1>1, <1>2, <2>1 DEF CallsHeld
<1>9. OthersOwed'
  <2> SUFFICES ASSUME NEW q \in Proc PROVE IF suspended'[q] THEN OwedOnce(q)' ELSE OwedNothing(q)'
    BY DEF OthersOwed
  <2>1. IF suspended[q] THEN OwedOnce(q) ELSE OwedNothing(q)
    BY <1>1, <1>7 DEF OthersOwed
  <2>2. CASE q = p
    <3>1. <<"msg", 0>> \in MsgOf(task.msg, p)
      BY <1>3 DEF MsgOf
    <3>2. /\ OwedOf(tty, task.msg, p) = OwedOf(tty, NoMsg, p) \cup MsgOf(task.msg, p)
          /\ <<"msg", 0>> \notin OwedOf(tty, NoMsg, p)
      BY OwedWithMsg
    <3>3. \E x : OwedOf(tty, task.msg, p) = {x}
      BY <2>1, <2>2, <3>1, <3>2 DEF OwedOnce, OwedNothing
    <3>4. OwedOf(tty, NoMsg, p) = {}
      BY <3>1, <3>2, <3>3
    <3> QED
      BY <1>2, <1>4, <2>2, <3>4 DEF OwedNothing
  <2>3. CASE q # p
    <3>1. NoMsg.proc # q /\ task.msg.proc # q
      BY <1>3, <2>3, Params DEF NoMsg
    <3>2. OwedOf(tty, NoMsg, q) = OwedOf(tty, task.msg, q)
      BY <3>1, OwedSame
    <3> QED
      BY <1>2, <1>4, <2>1, <2>3, <3>2 DEF OwedOnce, OwedNothing
  <2> QED
    BY <2>2, <2>3
<1>10. CallerOwed'
  BY <1>7 DEF CallerOwed
<1> QED
  BY <1>5, <1>6, <1>8, <1>9, <1>10 DEF IInv, OweInv

(* The file system waits for the answer to its call and gets a message.    *)
LEMMA AnsweredKeeps ==
    ASSUME IInv, task.at = "send", fs.at = "await", Sent, UNCHANGED <<ring, current, wake, hard, tty, suspended>>,
           fs' = [fs EXCEPT !.at = "result", !.status = task.msg.status], halted = "no",
           halted' = IF task.msg.code = "TASK_REPLY" THEN "no" ELSE "crossed"
    PROVE  IInv'
<1>1. /\ BaseInv /\ CallsHeld /\ OthersOwed /\ CallerOwed /\ WakeInv
      /\ suspended \in [Proc -> BOOLEAN] /\ fs \in FileSystems /\ task \in Tasks /\ Sending
  BY DEF IInv, OweInv, BaseInv, Sending
<1>2. /\ task' \in Tasks /\ task'.at # "receive" /\ task'.msg = NoMsg
      /\ task'.pos = task.pos /\ task'.ctty = task.ctty
      /\ ~ Sending' /\ Doing' = Doing /\ Answering' = Answering /\ line' = line
  BY <1>1, SentIs
<1>3. /\ fs' \in FileSystems /\ fs'.at = "result" /\ fs'.status = task.msg.status /\ fs'.req = fs.req
  BY <1>1 DEF FileSystems, Tasks, Message
<1>4. WakeInv'
  BY <1>1, <1>2, WakeSame
<1>5. BaseInv'
  <2>1. wake' \in BOOLEAN /\ hard' \in BOOLEAN /\ halted' \in {"no", "panic", "crossed"}
    BY <1>1 DEF BaseInv
  <2> QED
    BY <1>1, <1>2, <1>3, <2>1 DEF BaseInv
<1>6. CASE task.msg.code = "TASK_REPLY"
  <2>1. fs.req # NoReq /\ task.msg.proc = fs.req.proc /\ task.msg.proc \in Proc
    BY <1>1, <1>6 DEF CallsHeld
  <2>2. CallsHeld'
    <3>1. NoMsg.code = "none" /\ task'.at # "blocked"
      BY <1>2 DEF NoMsg, Sending
    <3> QED
      BY <1>1, <1>2, <1>3, <1>6, <2>1, <3>1 DEF CallsHeld
  <2>3. ASSUME NEW q \in Proc, q # fs.req.proc
        PROVE  OwedOf(tty, NoMsg, q) = OwedOf(tty, task.msg, q)
    <3>1. NoMsg.proc # q /\ task.msg.proc # q
      BY <2>1, <2>3, Params DEF NoMsg
    <3> QED
      BY <3>1, OwedSame
  <2>4. OthersOwed'
    BY <1>1, <1>2, <1>3, <2>3 DEF OthersOwed, OwedOnce, OwedNothing
  <2>5. CallerOwed'
    BY <1>1, <1>2, <1>3, <2>1 DEF CallerOwed, OwedOnce, OwedNothing
  <2> QED
    BY <1>4, <1>5, <2>2, <2>4, <2>5 DEF IInv, OweInv
<1>7. CASE task.msg.code # "TASK_REPLY"
  BY <1>4, <1>5, <1>7 DEF IInv, OweInv
<1> QED
  BY <1>6, <1>7

(* tty_reply, and the file system that takes a message it left waiting.    *)
LEMMA MessageSteps == IInv /\ (tty_reply \/ do_revive) => IInv'
<1> SUFFICES ASSUME IInv, tty_reply \/ do_revive PROVE IInv'
  OBVIOUS
<1>1. UNCHANGED <<ring, current, wake, hard, tty>> /\ halted = "no"
  BY DEF tty_reply, do_revive, Still, At, RunningSystem
<1>2. /\ BaseInv /\ CallsHeld /\ OthersOwed /\ CallerOwed /\ WakeInv /\ task \in Tasks
  BY <1>1 DEF IInv, OweInv, BaseInv
<1>3. CASE do_revive
  <2>1. /\ fs.at = "receive" /\ task.at = "blocked" /\ Revived(task.msg) /\ Sent /\ UNCHANGED <<fs, halted>>
    BY <1>3 DEF do_revive
  <2>2. Sending /\ task.msg.code # "TASK_REPLY"
    BY <1>2, <2>1 DEF CallsHeld, Sending
  <2> QED
    BY <1>1, <2>1, <2>2, RevivedKeeps
<1>4. CASE tty_reply
  <2>1. task.at = "send" /\ Sending
    BY <1>4 DEF tty_reply, At, Sending
  <2>2. CASE /\ fs.at = "await" /\ Sent /\ UNCHANGED suspended
             /\ fs' = [fs EXCEPT !.at = "result", !.status = task.msg.status]
             /\ halted' = IF task.msg.code = "TASK_REPLY" THEN "no" ELSE "crossed"
    BY <1>1, <2>1, <2>2, AnsweredKeeps
  <2>3. CASE /\ fs.at = "receive" /\ task.msg.code = "REVIVE"
             /\ Revived(task.msg) /\ Sent /\ UNCHANGED <<fs, halted>>
    BY <1>1, <2>1, <2>3, RevivedKeeps
  <2>4. CASE halted' = "panic" /\ UNCHANGED <<fs, task, suspended>>
    <3>1. BaseInv' /\ WakeInv'
      BY <1>1, <1>2, <2>4, FsKeeps DEF BaseInv
    <3> QED
      BY <2>4, <3>1 DEF IInv, OweInv
  <2>5. CASE fs.at \in {"work", "result"} /\ Blocks /\ UNCHANGED <<fs, suspended, halted>>
    <3>1. /\ task' \in Tasks /\ task'.at = "blocked" /\ task'.msg = task.msg /\ task'.next = task.next
          /\ task'.pos = task.pos /\ task'.ctty = task.ctty /\ task'.after = task.after
      BY <1>2, <2>5 DEF Blocks, Go, Tasks
    <3>2. Sending' /\ Doing' = Doing /\ Answering' = Answering /\ line' = line
      BY <2>1, <3>1 DEF Sending, Doing, Answering, line
    <3>3. WakeInv'
      BY <1>1, <1>2, <3>1, <3>2, WakeSame
    <3>4. BaseInv'
      <4>1. wake' \in BOOLEAN /\ hard' \in BOOLEAN
        BY <1>1, <1>2 DEF BaseInv
      <4> QED
        BY <1>1, <1>2, <2>5, <3>1, <3>2, <4>1 DEF BaseInv
    <3>5. CallsHeld'
      BY <1>1, <1>2, <2>1, <2>5, <3>1, <3>2 DEF CallsHeld
    <3>6. \A q : OwedNothing(q)' = OwedNothing(q) /\ OwedOnce(q)' = OwedOnce(q)
      BY <1>1, <3>1 DEF OwedNothing, OwedOnce, OwedOf, InsOf, OutsOf, MsgOf, Reads, Writes
    <3>7. OthersOwed' /\ CallerOwed'
      BY <1>2, <2>5, <3>6 DEF OthersOwed, CallerOwed
    <3> QED
      BY <3>3, <3>4, <3>5, <3>7 DEF IInv, OweInv
  <2> QED
    BY <1>4, <2>2, <2>3, <2>4, <2>5 DEF tty_reply
<1> QED
  BY <1>3, <1>4

-----------------------------------------------------------------------------
(* The main loop.                                                          *)

(* handle_read is begun, or begun again, at console c: nothing that it is  *)
(* to see is left behind.                                                  *)
LEMMA HandleRead ==
    ASSUME IInv, halted = "no", NEW c \in Line, NEW a \in {"scan", "answer"}, handle_read(c, a),
           task.at \in {"scan", "keys", "again"},
           UNCHANGED <<ring, current, wake, hard, fs, suspended, halted>>,
           a = "answer" <=> Answering, Answering => c = line,
           Doing = "keys" => c = line /\ ring = << >>,
           a = "scan" /\ ~ wake /\ ~ hard =>
              \A d \in Line : /\ "READ" \in tty[d].events => 2 * d >= 2 * c
                              /\ "WRITE" \in tty[d].events => 2 * d + 1 >= 2 * c
    PROVE  IInv'
<1>1. /\ BaseInv /\ KeysSeen /\ WorkSeen /\ EventsAhead /\ OweInv /\ current \in Line /\ c \in Nat
      /\ task \in Tasks /\ task.pos \in Nat /\ ~ Sending /\ Doing = task.at /\ NR_CONSOLES \in Nat
  BY Params DEF IInv, WakeInv, BaseInv, Tasks, Sending, Doing
<1>2. PICK u : u = [tty[c] EXCEPT !.events = tty[c].events \ {"READ"}]
  OBVIOUS
<1>3. tty' = [tty EXCEPT ![c] = u] /\ task' = [task EXCEPT !.at = "keys", !.pos = 2 * c, !.ctty = current, !.after = a]
  BY <1>2 DEF handle_read
<1>4. /\ u \in Console /\ QueueOK(u) /\ SameIO(tty[c], u) /\ u.events = tty[c].events \ {"READ"}
      /\ CanTransfer(u) <=> CanTransfer(tty[c])
      /\ Writable(u) <=> Writable(tty[c])
  <2>1. PICK S : S = tty[c].events \ {"READ"}
    OBVIOUS
  <2>2. tty[c] \in Console /\ QueueOK(tty[c]) /\ S \in SUBSET {"READ", "WRITE"}
    BY <1>1, <2>1 DEF BaseInv, Console
  <2> QED
    BY ONLY <1>2, <2>1, <2>2, EventsOnly
<1>5. /\ tty' \in [Line -> Console] /\ \A d \in Line : QueueOK(tty'[d])
      /\ tty'[c] = u /\ \A d \in Line : d # c => tty'[d] = tty[d]
  BY <1>1, <1>3, <1>4, OneConsole
<1>6. 2 * c \in 0 .. 2 * NR_CONSOLES
  BY <1>1 DEF Line
<1>7. /\ task' \in Tasks /\ task'.at = "keys" /\ task'.pos = 2 * c /\ task'.ctty = current /\ task'.after = a
      /\ task'.msg = task.msg
  BY <1>1, <1>3, <1>6 DEF Tasks
<1>8. ~ Sending' /\ Doing' = "keys" /\ line' = c /\ (Answering' <=> a = "answer")
  BY <1>1, <1>7 DEF Sending, Doing, line, Answering
<1>9. BaseInv'
  <2>1. wake' \in BOOLEAN /\ hard' \in BOOLEAN
    BY <1>1 DEF BaseInv
  <2> QED
    BY <1>1, <1>5, <1>7, <1>8, <2>1 DEF BaseInv
<1>10. KeysSeen'
  <2>1. ASSUME current # c, ring # << >> PROVE "READ" \in tty'[current].events
    BY <1>1, <1>5, <2>1 DEF KeysSeen
  <2> QED
    BY <1>7, <1>8, <2>1 DEF KeysSeen
<1>11. WorkSeen'
  <2>1. \A d \in Line : /\ CanTransfer(tty'[d]) <=> CanTransfer(tty[d])
                        /\ Writable(tty'[d]) <=> Writable(tty[d])
                        /\ "WRITE" \in tty[d].events => "WRITE" \in tty'[d].events
                        /\ d # c /\ "READ" \in tty[d].events => "READ" \in tty'[d].events
    BY <1>4, <1>5
  <2> QED
    BY <1>1, <1>8, <2>1 DEF WorkSeen
<1>12. EventsAhead'
  <2> SUFFICES ASSUME ~ wake, ~ hard, NEW d \in Line, ~ Answering'
               PROVE  /\ "READ" \in tty'[d].events => 2 * d >= 2 * c
                      /\ "WRITE" \in tty'[d].events => 2 * d + 1 >= 2 * c
    BY <1>7 DEF EventsAhead
  <2>1. a = "scan"
    BY <1>8
  <2>2. tty'[d].events \subseteq tty[d].events
    BY <1>4, <1>5
  <2>3. /\ "READ" \in tty[d].events => 2 * d >= 2 * c
        /\ "WRITE" \in tty[d].events => 2 * d + 1 >= 2 * c
    BY <2>1, Zenon
  <2> QED
    BY ONLY <2>2, <2>3
<1>13. OweInv'
  <2>1. \A d \in Line : SameIO(tty[d], tty'[d])
    BY <1>4, <1>5 DEF SameIO
  <2>2. (Sending' <=> Sending) /\ (Answering' <=> Answering) /\ (Answering => line' = line)
    BY <1>1, <1>8
  <2> QED
    BY <1>1, <1>7, <2>1, <2>2, OweSame
<1> QED
  BY <1>9, <1>10, <1>11, <1>12, <1>13 DEF IInv, WakeInv

-----------------------------------------------------------------------------
(* What a console owed to a process is on its way to it.                   *)

(* Console c no longer holds the call of p: its read, or its write.        *)
InGone(c, p) ==
    /\ Reads(tty[c], p) /\ tty'[c].in_left = 0
    /\ tty'[c].out_left = tty[c].out_left /\ tty'[c].out_proc = tty[c].out_proc
    /\ tty'[c].out_code = tty[c].out_code
OutGone(c, p) ==
    /\ Writes(tty[c], p) /\ tty'[c].out_left = 0
    /\ tty'[c].in_left = tty[c].in_left /\ tty'[c].in_proc = tty[c].in_proc
    /\ tty'[c].in_code = tty[c].in_code

(* To the others the same is owed.                                         *)
LEMMA OthersSame ==
    ASSUME NEW c \in Line, NEW p \in Proc, InGone(c, p) \/ OutGone(c, p),
           \A d \in Line : d # c => SameIO(tty[d], tty'[d]),
           NEW q \in Proc, q # p, NEW m, NEW m2, m.proc # q, m2.proc # q
    PROVE  OwedOf(tty', m2, q) = OwedOf(tty, m, q)
<1>1. \A d \in Line : d # c => /\ Reads(tty'[d], q) <=> Reads(tty[d], q)
                               /\ Writes(tty'[d], q) <=> Writes(tty[d], q)
  BY DEF SameIO, Reads, Writes
<1>2. (Reads(tty'[c], q) <=> Reads(tty[c], q)) /\ (Writes(tty'[c], q) <=> Writes(tty[c], q))
  BY DEF InGone, OutGone, Reads, Writes
<1> QED
  BY <1>1, <1>2, OwedSame

(* And to p, to whom it was all that was owed, only the message.           *)
LEMMA OwnerMoved ==
    ASSUME NEW c \in Line, NEW p \in Proc, InGone(c, p) \/ OutGone(c, p),
           \A d \in Line : d # c => SameIO(tty[d], tty'[d]),
           NEW m, NEW m2, m2.proc = p, NEW x, OwedOf(tty, m, p) = {x}
    PROVE  OwedOf(tty', NoMsg, p) = {} /\ OwedOf(tty', m2, p) = {<<"msg", 0>>}
<1>1. \A d \in Line : d # c => (Reads(tty'[d], p) <=> Reads(tty[d], p)) /\ (Writes(tty'[d], p) <=> Writes(tty[d], p))
  BY DEF SameIO, Reads, Writes
<1>2. \/ Reads(tty[c], p) /\ ~ Reads(tty'[c], p) /\ (Writes(tty'[c], p) <=> Writes(tty[c], p))
      \/ Writes(tty[c], p) /\ ~ Writes(tty'[c], p) /\ (Reads(tty'[c], p) <=> Reads(tty[c], p))
  BY DEF InGone, OutGone, Reads, Writes
<1>3. OwedOf(tty', NoMsg, p) = {}
  <2>1. PICK T : T = tty
    OBVIOUS
  <2>2. PICK T2 : T2 = tty'
    OBVIOUS
  <2>3. OwedOf(T, m, p) = {x}
    BY <2>1
  <2>4. \A d \in Line : d # c => (Reads(T2[d], p) <=> Reads(T[d], p)) /\ (Writes(T2[d], p) <=> Writes(T[d], p))
    BY <1>1, <2>1, <2>2
  <2>5. \/ Reads(T[c], p) /\ ~ Reads(T2[c], p) /\ (Writes(T2[c], p) <=> Writes(T[c], p))
        \/ Writes(T[c], p) /\ ~ Writes(T2[c], p) /\ (Reads(T2[c], p) <=> Reads(T[c], p))
    BY <1>2, <2>1, <2>2
  <2>6. OwedOf(T2, NoMsg, p) = {}
    BY ONLY <2>3, <2>4, <2>5, OwedGone, c \in Line, p \in Proc
  <2> QED
    BY <2>2, <2>6
<1>4. OwedOf(tty', m2, p) = OwedOf(tty', NoMsg, p) \cup MsgOf(m2, p)
  BY OwedWithMsg
<1> QED
  BY <1>3, <1>4 DEF MsgOf

(* A place that owes p is one of those that owe p.                         *)
LEMMA GoneIsOwed ==
    ASSUME NEW c \in Line, NEW p \in Proc, InGone(c, p) \/ OutGone(c, p), NEW m
    PROVE  /\ OwedOf(tty, m, p) # {}
           /\ InGone(c, p) => <<"in", c>> \in OwedOf(tty, m, p)
           /\ OutGone(c, p) => <<"out", c>> \in OwedOf(tty, m, p)
BY DEF OwedOf, InsOf, OutsOf, InGone, OutGone

(* A suspended process gets its revival from the console that held it.     *)
LEMMA OweRevive ==
    ASSUME BaseInv, OweInv, halted = "no", ~ Sending, UNCHANGED <<fs, suspended, halted>>,
           NEW c \in Line, NEW p \in Proc,
           (InGone(c, p) /\ tty[c].in_code = "REVIVE") \/ OutGone(c, p),
           \A d \in Line : d # c => SameIO(tty[d], tty'[d]),
           task'.at = "send", task'.msg.proc = p, task'.msg.code = "REVIVE",
           Answering' <=> Answering, Answering => line' = line
    PROVE  OweInv'
<1>1. CallsHeld /\ OthersOwed /\ CallerOwed /\ Sending'
  BY DEF OweInv, Sending
<1>2. task.msg = NoMsg /\ NoMsg.proc \notin Proc
  BY <1>1, Params DEF CallsHeld, NoMsg
<1>3. InGone(c, p) \/ OutGone(c, p)
  OBVIOUS
<1>4. \A q \in Proc : q # p => OwedOf(tty', task'.msg, q) = OwedOf(tty, task.msg, q)
  BY <1>2, <1>3, OthersSame
<1>5. \A q \in Proc : q # p => OwedOf(tty', NoMsg, q) = OwedOf(tty, NoMsg, q)
  BY <1>2, <1>3, OthersSame
<1>6. OwedOf(tty, task.msg, p) # {}
  BY <1>3, GoneIsOwed
<1>7. ASSUME OwedOnce(p) PROVE OwedOnce(p)'
  <2>1. PICK x : OwedOf(tty, task.msg, p) = {x}
    BY <1>7 DEF OwedOnce
  <2>2. PICK m2 : m2 = task'.msg
    OBVIOUS
  <2>3. m2.proc = p
    BY <2>2
  <2>4. \A d \in Line : d # c => SameIO(tty[d], tty'[d])
    OBVIOUS
  <2>5. OwedOf(tty', m2, p) = {<<"msg", 0>>}
    BY ONLY <1>3, <2>1, <2>3, <2>4, OwnerMoved, c \in Line, p \in Proc
  <2> QED
    BY <2>2, <2>5 DEF OwedOnce
<1>8. CallsHeld'
  <2>1. task'.at # "blocked" /\ task'.msg.code # "TASK_REPLY" /\ task'.msg.code # "none"
    OBVIOUS
  <2>2. ASSUME NEW d \in Line
        PROVE  /\ tty'[d].in_left > 0 => tty'[d].in_proc \in Proc /\ tty'[d].in_code # "none"
               /\ tty'[d].out_left > 0 => tty'[d].out_proc \in Proc /\ tty'[d].out_code = "REVIVE"
               /\ tty'[d].in_left > 0 /\ tty'[d].in_code = "TASK_REPLY" =>
                     /\ Answering' /\ d = line' /\ fs'.at = "await" /\ fs'.req.proc = tty'[d].in_proc
                     /\ task'.msg.code # "TASK_REPLY"
               /\ tty'[d].in_left > 0 /\ Answering' /\ d = line' => tty'[d].in_code = "TASK_REPLY"
    <3>1. \/ tty'[d].in_left = 0
          \/ /\ tty'[d].in_left = tty[d].in_left /\ tty'[d].in_proc = tty[d].in_proc
             /\ tty'[d].in_code = tty[d].in_code
      BY DEF InGone, OutGone, SameIO
    <3>2. \/ tty'[d].out_left = 0
          \/ /\ tty'[d].out_left = tty[d].out_left /\ tty'[d].out_proc = tty[d].out_proc
             /\ tty'[d].out_code = tty[d].out_code
      BY DEF InGone, OutGone, SameIO
    <3>3. ~ (0 > 0)
      OBVIOUS
    <3> QED
      BY <1>1, <2>1, <3>1, <3>2, <3>3 DEF CallsHeld
  <2> QED
    BY <1>1, <2>1, <2>2 DEF CallsHeld
<1>9. OthersOwed'
  <2> SUFFICES ASSUME NEW q \in Proc, fs.req.proc # q
               PROVE  IF suspended[q] THEN OwedOnce(q)' ELSE OwedNothing(q)'
    BY DEF OthersOwed
  <2>1. IF suspended[q] THEN OwedOnce(q) ELSE OwedNothing(q)
    BY <1>1 DEF OthersOwed
  <2>2. CASE q = p
    BY <1>6, <1>7, <2>1, <2>2 DEF OwedNothing
  <2>3. CASE q # p
    BY <1>4, <2>1, <2>3 DEF OwedOnce, OwedNothing
  <2> QED
    BY <2>2, <2>3
<1>10. CallerOwed'
  <2> SUFFICES ASSUME NEW q \in Proc, fs.req.proc = q
               PROVE  /\ ~ suspended[q]
                      /\ fs.at \in {"work", "sending"} => OwedNothing(q)'
                      /\ fs.at = "result" => IF fs.status = "SUSPEND" THEN OwedOnce(q)' ELSE OwedNothing(q)'
                      /\ fs.at = "await" =>
                            /\ Answering' /\ task'.msg.proc # q
                            /\ tty'[line'].in_left > 0 /\ tty'[line'].in_proc = q
                            /\ tty'[line'].in_code = "TASK_REPLY"
                            /\ OwedOf(tty', task'.msg, q) = {<<"in", line'>>}
    BY DEF CallerOwed
  <2>1. /\ ~ suspended[q]
        /\ fs.at \in {"work", "sending"} => OwedNothing(q)
        /\ fs.at = "result" => IF fs.status = "SUSPEND" THEN OwedOnce(q) ELSE OwedNothing(q)
        /\ fs.at = "await" =>
              /\ Answering /\ tty[line].in_left > 0 /\ tty[line].in_proc = q
              /\ tty[line].in_code = "TASK_REPLY"
              /\ OwedOf(tty, task.msg, q) = {<<"in", line>>}
    BY <1>1 DEF CallerOwed
  <2>2. CASE q = p
    <3>1. fs.at # "await"
      <4> SUFFICES ASSUME fs.at = "await" PROVE FALSE
        OBVIOUS
      <4>1. tty[line].in_code = "TASK_REPLY" /\ OwedOf(tty, task.msg, p) = {<<"in", line>>}
        BY <2>1, <2>2
      <4>2. CASE InGone(c, p) /\ tty[c].in_code = "REVIVE"
        <5>1. <<"in", c>> \in OwedOf(tty, task.msg, p)
          BY <4>2, GoneIsOwed
        <5>2. c = line
          BY <4>1, <5>1
        <5> QED
          BY <4>1, <4>2, <5>2
      <4>3. CASE OutGone(c, p)
        <5>1. <<"out", c>> \in OwedOf(tty, task.msg, p)
          BY <4>3, GoneIsOwed
        <5> QED
          BY <4>1, <5>1
      <4> QED
        BY <4>2, <4>3
    <3> QED
      BY <1>6, <1>7, <2>1, <2>2, <3>1 DEF OwedNothing
  <2>3. CASE q # p
    <3>1. ASSUME fs.at = "await"
          PROVE  /\ Answering' /\ task'.msg.proc # q
                 /\ tty'[line'].in_left > 0 /\ tty'[line'].in_proc = q
                 /\ tty'[line'].in_code = "TASK_REPLY"
                 /\ OwedOf(tty', task'.msg, q) = {<<"in", line'>>}
      <4>1. line \in Line /\ line' = line
        BY <2>1, <3>1, LineIs DEF Answering
      <4>2. ~ InGone(line, p)
        BY <2>1, <2>3, <3>1 DEF InGone, Reads
      <4>3. /\ tty'[line].in_left = tty[line].in_left /\ tty'[line].in_proc = tty[line].in_proc
            /\ tty'[line].in_code = tty[line].in_code
        BY <4>1, <4>2 DEF OutGone, SameIO
      <4> QED
        BY <1>4, <2>1, <2>3, <3>1, <4>1, <4>3
    <3> QED
      BY <1>4, <2>1, <2>3, <3>1 DEF OwedOnce, OwedNothing
  <2> QED
    BY <2>2, <2>3
<1> QED
  BY <1>8, <1>9, <1>10 DEF OweInv

(* The process that the file system works for gets its answer from the     *)
(* console that held its read.                                             *)
LEMMA OweReply ==
    ASSUME BaseInv, OweInv, halted = "no", ~ Sending, UNCHANGED <<fs, suspended, halted>>,
           NEW c \in Line, NEW p \in Proc, InGone(c, p), tty[c].in_left > 0, tty[c].in_code = "TASK_REPLY",
           \A d \in Line : d # c => SameIO(tty[d], tty'[d]),
           task'.at = "send", task'.msg.proc = p, task'.msg.code = "TASK_REPLY", task'.msg.status # "SUSPEND",
           Answering' => line' = line
    PROVE  OweInv'
<1>1. CallsHeld /\ OthersOwed /\ CallerOwed /\ Sending'
  BY DEF OweInv, Sending
<1>2. task.msg = NoMsg /\ NoMsg.proc \notin Proc /\ tty[c].in_proc = p
  BY <1>1, Params DEF CallsHeld, NoMsg, InGone, Reads
<1>3. Answering /\ c = line /\ fs.at = "await" /\ fs.req.proc = p
  BY <1>1, <1>2 DEF CallsHeld
<1>4. InGone(c, p) \/ OutGone(c, p)
  OBVIOUS
<1>5. \A q \in Proc : q # p => OwedOf(tty', task'.msg, q) = OwedOf(tty, task.msg, q)
  BY <1>2, <1>4, OthersSame
<1>6. OwedOf(tty, task.msg, p) = {<<"in", line>>}
  BY <1>1, <1>3 DEF CallerOwed
<1>7. OwedOf(tty', NoMsg, p) = {}
  <2>1. PICK m2 : m2 = task'.msg
    OBVIOUS
  <2>2. m2.proc = p
    BY <2>1
  <2>3. \A d \in Line : d # c => SameIO(tty[d], tty'[d])
    OBVIOUS
  <2> QED
    BY ONLY <1>4, <1>6, <2>2, <2>3, OwnerMoved, c \in Line, p \in Proc
<1>8. CallsHeld'
  <2>1. ASSUME NEW d \in Line
        PROVE  /\ tty'[d].in_left > 0 => tty'[d].in_proc \in Proc /\ tty'[d].in_code # "none"
               /\ tty'[d].out_left > 0 => tty'[d].out_proc \in Proc /\ tty'[d].out_code = "REVIVE"
               /\ tty'[d].in_left > 0 => tty'[d].in_code # "TASK_REPLY" /\ ~ (Answering' /\ d = line')
    <3>1. CASE d = c
      <4>1. tty'[d].in_left = 0 /\ tty'[d].out_left = tty[d].out_left /\ tty'[d].out_proc = tty[d].out_proc
            /\ tty'[d].out_code = tty[d].out_code
        BY <3>1 DEF InGone
      <4>2. tty[d].out_left > 0 => tty[d].out_proc \in Proc /\ tty[d].out_code = "REVIVE"
        BY <1>1 DEF CallsHeld
      <4>3. ~ (0 > 0)
        OBVIOUS
      <4> QED
        BY <4>1, <4>2, <4>3
    <3>2. CASE d # c
      <4>1. SameIO(tty[d], tty'[d])
        BY <3>2
      <4> QED
        BY <1>1, <1>3, <3>2, <4>1 DEF CallsHeld, SameIO
    <3> QED
      BY <3>1, <3>2
  <2>2. task'.at # "blocked" /\ "TASK_REPLY" # "none"
    OBVIOUS
  <2> QED
    BY <1>1, <1>3, <2>1, <2>2 DEF CallsHeld
<1>9. OthersOwed'
  BY <1>1, <1>3, <1>5 DEF OthersOwed, OwedOnce, OwedNothing
<1>10. CallerOwed'
  BY <1>1, <1>3, <1>7 DEF CallerOwed
<1> QED
  BY <1>8, <1>9, <1>10 DEF OweInv

(* The end of do_read when the read was answered before.                   *)
LEMMA OweLeft ==
    ASSUME BaseInv, OweInv, halted = "no", UNCHANGED <<tty, fs, suspended, halted>>,
           task.at = "answer", tty[line].in_left = 0, task'.at = "scan", task'.msg = NoMsg
    PROVE  OweInv'
<1>1. CallsHeld /\ OthersOwed /\ CallerOwed /\ ~ Sending /\ ~ Sending' /\ Answering /\ ~ Answering'
  BY DEF OweInv, Sending, Answering, Doing
<1>2. task.msg = NoMsg /\ NoMsg.proc \notin Proc
  BY <1>1, Params DEF CallsHeld, NoMsg
<1>3. fs.at # "await"
  <2> SUFFICES ASSUME fs.at = "await" PROVE FALSE
    OBVIOUS
  <2>1. fs.req # NoReq /\ fs.req \in Request \cup {NoReq}
    BY <1>1 DEF CallsHeld, BaseInv, FileSystems
  <2>2. fs.req.proc \in Proc
    BY <2>1, Requests
  <2>3. tty[line].in_left > 0
    BY <1>1, <2>2 DEF CallerOwed
  <2> QED
    BY <2>3
<1>4. \A q : OwedNothing(q)' = OwedNothing(q) /\ OwedOnce(q)' = OwedOnce(q)
  BY <1>2 DEF OwedNothing, OwedOnce, OwedOf, InsOf, OutsOf, MsgOf, Reads, Writes
<1>5. CallsHeld'
  BY <1>1, <1>3 DEF CallsHeld
<1>6. OthersOwed' /\ CallerOwed'
  BY <1>1, <1>3, <1>4 DEF OthersOwed, CallerOwed
<1> QED
  BY <1>5, <1>6 DEF OweInv

(* The end of do_read when the read must wait: the file system is told to  *)
(* suspend its caller, and the console keeps the call.                     *)
LEMMA OweSuspend ==
    ASSUME BaseInv, OweInv, halted = "no", UNCHANGED <<fs, suspended, halted>>,
           task.at = "answer", NEW c \in Line, c = line, NEW p \in Proc, Reads(tty[c], p),
           tty'[c].in_left = tty[c].in_left, tty'[c].in_proc = p, tty'[c].in_code = "REVIVE",
           tty'[c].out_left = tty[c].out_left, tty'[c].out_proc = tty[c].out_proc,
           tty'[c].out_code = tty[c].out_code,
           \A d \in Line : d # c => SameIO(tty[d], tty'[d]),
           task'.at = "send", task'.next = "scan", task'.msg = [code |-> "TASK_REPLY", proc |-> p, status |-> "SUSPEND"]
    PROVE  OweInv'
<1>1. /\ CallsHeld /\ OthersOwed /\ CallerOwed /\ ~ Sending /\ Sending' /\ Answering /\ ~ Answering'
      /\ tty[c].in_left > 0 /\ tty[c].in_proc = p
  BY DEF OweInv, Sending, Answering, Doing, Reads
<1>2. task.msg = NoMsg /\ NoMsg.proc \notin Proc
  BY <1>1, Params DEF CallsHeld, NoMsg
<1>3. tty[c].in_code = "TASK_REPLY" /\ fs.at = "await" /\ fs.req.proc = p
  <2>1. tty[c].in_code = "TASK_REPLY"
    BY <1>1 DEF CallsHeld
  <2> QED
    BY <1>1, <2>1 DEF CallsHeld
<1>4. \A q : \A d \in Line : (Reads(tty'[d], q) <=> Reads(tty[d], q)) /\ (Writes(tty'[d], q) <=> Writes(tty[d], q))
  BY <1>1 DEF Reads, Writes, SameIO
<1>5. \A q : OwedOf(tty', NoMsg, q) = OwedOf(tty, NoMsg, q)
  BY <1>4, OwedSame
<1>6. ASSUME NEW q \in Proc, q # p PROVE OwedOf(tty', task'.msg, q) = OwedOf(tty, task.msg, q)
  <2>1. task'.msg.proc # q /\ task.msg.proc # q
    BY <1>2, <1>6
  <2> QED
    BY <1>4, <2>1, OwedSame
<1>7. OwedOf(tty, task.msg, p) = {<<"in", line>>}
  BY <1>1, <1>3 DEF CallerOwed
<1>8. \E x : OwedOf(tty', NoMsg, p) = {x}
  BY <1>2, <1>5, <1>7
<1>9. CallsHeld'
  <2>1. ASSUME NEW d \in Line
        PROVE  /\ tty'[d].in_left > 0 => tty'[d].in_proc \in Proc /\ tty'[d].in_code # "none"
               /\ tty'[d].out_left > 0 => tty'[d].out_proc \in Proc /\ tty'[d].out_code = "REVIVE"
               /\ tty'[d].in_left > 0 => tty'[d].in_code # "TASK_REPLY"
    <3>1. CASE d = c
      <4>1. tty[d].out_left > 0 => tty[d].out_proc \in Proc /\ tty[d].out_code = "REVIVE"
        BY <1>1 DEF CallsHeld
      <4> QED
        BY <3>1, <4>1
    <3>2. CASE d # c
      <4>1. SameIO(tty[d], tty'[d])
        BY <3>2
      <4> QED
        BY <1>1, <1>3, <3>2, <4>1 DEF CallsHeld, SameIO
    <3> QED
      BY <3>1, <3>2
  <2>2. task'.at # "blocked" /\ "TASK_REPLY" # "none"
    OBVIOUS
  <2> QED
    BY <1>1, <1>3, <2>1, <2>2 DEF CallsHeld
<1>10. OthersOwed'
  BY <1>1, <1>3, <1>6 DEF OthersOwed, OwedOnce, OwedNothing
<1>11. CallerOwed'
  <2>1. task'.msg.code = "TASK_REPLY" /\ task'.msg.proc = p /\ task'.msg.status = "SUSPEND"
    OBVIOUS
  <2>2. ~ suspended[p] /\ UNCHANGED <<fs, suspended>>
    BY <1>1, <1>3 DEF CallerOwed
  <2> QED
    BY ONLY <1>1, <1>3, <1>8, <2>1, <2>2 DEF CallerOwed
<1> QED
  BY <1>9, <1>10, <1>11 DEF OweInv

(* The calls that a console holds stay the same.                           *)
SameIn(t, u) == u.in_left = t.in_left /\ (t.in_left > 0 => u.in_proc = t.in_proc /\ u.in_code = t.in_code)
SameOut(t, u) == u.out_left = t.out_left /\ (t.out_left > 0 => u.out_proc = t.out_proc /\ u.out_code = t.out_code)

(* A call is answered as soon as it is received, or told to wait for ^Q.   *)
LEMMA OweAnswer ==
    ASSUME BaseInv, OweInv, halted = "no", UNCHANGED <<suspended, halted>>,
           task.at = "receive", fs.at = "sending", fs' = [fs EXCEPT !.at = "await"],
           NEW c \in Line, NEW p \in Proc, p = fs.req.proc,
           \A d \in Line : SameIn(tty[d], tty'[d]), \A d \in Line : d # c => SameOut(tty[d], tty'[d]),
           task'.at = "send", task'.msg.proc = p, task'.msg.code = "TASK_REPLY",
           Answering' => tty'[line'].in_left = 0,
           \/ task'.msg.status # "SUSPEND" /\ SameOut(tty[c], tty'[c])
           \/ /\ task'.msg.status = "SUSPEND" /\ tty[c].out_left = 0
              /\ tty'[c].out_left > 0 /\ tty'[c].out_proc = p /\ tty'[c].out_code = "REVIVE"
    PROVE  OweInv'
<1>1. CallsHeld /\ OthersOwed /\ CallerOwed /\ ~ Sending /\ Sending' /\ ~ Answering
  BY DEF OweInv, Sending, Answering, Doing
<1>2. task.msg = NoMsg /\ NoMsg.proc \notin Proc
  BY <1>1, Params DEF CallsHeld, NoMsg
<1>3. fs'.at = "await" /\ fs'.req = fs.req /\ fs.req # NoReq
  BY <1>1 DEF CallsHeld, BaseInv, FileSystems
<1>4. \A d \in Line : ~ (tty[d].in_left > 0 /\ tty[d].in_code = "TASK_REPLY")
  BY <1>1 DEF CallsHeld
<1>5. \A q : \A d \in Line : (Reads(tty'[d], q) <=> Reads(tty[d], q))
  BY DEF Reads, SameIn
<1>6. \A q : \A d \in Line : d # c => (Writes(tty'[d], q) <=> Writes(tty[d], q))
  BY DEF Writes, SameOut
<1>7. ~ (0 > 0)
  OBVIOUS
<1>8. \A q \in Proc : q # p => (Writes(tty'[c], q) <=> Writes(tty[c], q))
  BY <1>7 DEF Writes, SameOut
<1>9. ASSUME NEW q \in Proc, q # p PROVE OwedOf(tty', task'.msg, q) = OwedOf(tty, task.msg, q)
  <2>1. task'.msg.proc # q /\ task.msg.proc # q
    BY <1>2, <1>9
  <2>2. \A d \in Line : (Reads(tty'[d], q) <=> Reads(tty[d], q)) /\ (Writes(tty'[d], q) <=> Writes(tty[d], q))
    BY <1>5, <1>6, <1>8, <1>9
  <2> QED
    BY <2>1, <2>2, OwedSame
<1>10. OwedOf(tty, NoMsg, p) = {}
  BY <1>1, <1>2 DEF CallerOwed, OwedNothing
<1>11. IF task'.msg.status = "SUSPEND" THEN \E x : OwedOf(tty', NoMsg, p) = {x} ELSE OwedOf(tty', NoMsg, p) = {}
  <2>1. CASE task'.msg.status # "SUSPEND" /\ SameOut(tty[c], tty'[c])
    <3>1. \A d \in Line : (Reads(tty'[d], p) <=> Reads(tty[d], p)) /\ (Writes(tty'[d], p) <=> Writes(tty[d], p))
      BY <1>5, <1>6, <2>1 DEF Writes, SameOut
    <3>2. OwedOf(tty', NoMsg, p) = OwedOf(tty, NoMsg, p)
      BY <3>1, OwedSame
    <3> QED
      BY <1>10, <2>1, <3>2
  <2>2. CASE /\ task'.msg.status = "SUSPEND" /\ tty[c].out_left = 0
             /\ tty'[c].out_left > 0 /\ tty'[c].out_proc = p /\ tty'[c].out_code = "REVIVE"
    <3>1. PICK T : T = tty
      OBVIOUS
    <3>2. PICK T2 : T2 = tty'
      OBVIOUS
    <3>3. \A d \in Line : d # c => (Reads(T2[d], p) <=> Reads(T[d], p)) /\ (Writes(T2[d], p) <=> Writes(T[d], p))
      BY <1>5, <1>6, <3>1, <3>2
    <3>4. Writes(T2[c], p) /\ (Reads(T2[c], p) <=> Reads(T[c], p))
      BY <1>5, <2>2, <3>1, <3>2 DEF Writes
    <3>5. OwedOf(T, NoMsg, p) = {}
      BY <1>10, <3>1
    <3>6. OwedOf(T2, NoMsg, p) = {<<"out", c>>}
      BY ONLY <3>3, <3>4, <3>5, OwedNew, c \in Line, p \in Proc
    <3> QED
      BY <2>2, <3>2, <3>6
  <2> QED
    BY <2>1, <2>2
<1>12. CallsHeld'
  <2>1. ASSUME NEW d \in Line
        PROVE  /\ tty'[d].in_left > 0 => tty'[d].in_proc \in Proc /\ tty'[d].in_code # "none"
               /\ tty'[d].out_left > 0 => tty'[d].out_proc \in Proc /\ tty'[d].out_code = "REVIVE"
               /\ tty'[d].in_left > 0 => tty'[d].in_code # "TASK_REPLY" /\ ~ (Answering' /\ d = line')
    <3>1. /\ tty[d].in_left > 0 => tty[d].in_proc \in Proc /\ tty[d].in_code # "none"
          /\ tty[d].out_left > 0 => tty[d].out_proc \in Proc /\ tty[d].out_code = "REVIVE"
      BY <1>1 DEF CallsHeld
    <3>2. SameIn(tty[d], tty'[d])
      OBVIOUS
    <3>3. SameOut(tty[d], tty'[d]) \/ (tty'[d].out_proc = p /\ tty'[d].out_code = "REVIVE")
      <4>1. CASE d = c
        BY <4>1
      <4>2. CASE d # c
        BY <4>2
      <4> QED
        BY <4>1, <4>2
    <3> QED
      BY <1>4, <1>7, <3>1, <3>2, <3>3 DEF SameIn, SameOut
  <2>2. task'.at # "blocked" /\ "TASK_REPLY" # "none"
    OBVIOUS
  <2> QED
    BY <1>1, <1>3, <2>1, <2>2 DEF CallsHeld
<1>13. OthersOwed'
  BY <1>1, <1>3, <1>9 DEF OthersOwed, OwedOnce, OwedNothing
<1>14. CallerOwed'
  BY <1>1, <1>3, <1>11 DEF CallerOwed
<1> QED
  BY <1>12, <1>13, <1>14 DEF OweInv

(* A read that finds no line is held by its console.                       *)
LEMMA OweWaits ==
    ASSUME BaseInv, OweInv, halted = "no", UNCHANGED <<suspended, halted>>,
           task.at = "receive", fs.at = "sending", fs' = [fs EXCEPT !.at = "await"],
           NEW c \in Line, NEW p \in Proc, p = fs.req.proc,
           tty[c].in_left = 0, Reads(tty'[c], p), tty'[c].in_code = "TASK_REPLY",
           SameOut(tty[c], tty'[c]), \A d \in Line : d # c => SameIO(tty[d], tty'[d]),
           task'.at = "again", line' = c, task'.msg = NoMsg
    PROVE  OweInv'
<1>1. CallsHeld /\ OthersOwed /\ CallerOwed /\ ~ Sending /\ ~ Sending' /\ ~ Answering /\ Answering'
  BY DEF OweInv, Sending, Answering, Doing
<1>2. task.msg = NoMsg /\ NoMsg.proc \notin Proc /\ NoMsg.code = "none"
  BY <1>1, Params DEF CallsHeld, NoMsg
<1>3. fs'.at = "await" /\ fs'.req = fs.req /\ fs.req # NoReq
  BY <1>1 DEF CallsHeld, BaseInv, FileSystems
<1>4. \A d \in Line : ~ (tty[d].in_left > 0 /\ tty[d].in_code = "TASK_REPLY")
  BY <1>1 DEF CallsHeld
<1>5. tty'[c].in_left > 0 /\ tty'[c].in_proc = p /\ ~ (0 > 0)
  BY DEF Reads
<1>6. \A q : \A d \in Line : d # c => (Reads(tty'[d], q) <=> Reads(tty[d], q)) /\ (Writes(tty'[d], q) <=> Writes(tty[d], q))
  BY DEF Reads, Writes, SameIO
<1>7. \A q : Writes(tty'[c], q) <=> Writes(tty[c], q)
  BY DEF Writes, SameOut
<1>8. ASSUME NEW q \in Proc, q # p PROVE OwedOf(tty', task'.msg, q) = OwedOf(tty, task.msg, q)
  <2>1. Reads(tty'[c], q) <=> Reads(tty[c], q)
    BY <1>5, <1>8 DEF Reads
  <2>2. \A d \in Line : (Reads(tty'[d], q) <=> Reads(tty[d], q)) /\ (Writes(tty'[d], q) <=> Writes(tty[d], q))
    BY <1>6, <1>7, <2>1
  <2> QED
    BY <1>2, <2>2, OwedSame
<1>9. OwedOf(tty', NoMsg, p) = {<<"in", c>>}
  <2>1. PICK T : T = tty
    OBVIOUS
  <2>2. PICK T2 : T2 = tty'
    OBVIOUS
  <2>3. \A d \in Line : d # c => (Reads(T2[d], p) <=> Reads(T[d], p)) /\ (Writes(T2[d], p) <=> Writes(T[d], p))
    BY <1>6, <2>1, <2>2
  <2>4. Reads(T2[c], p) /\ (Writes(T2[c], p) <=> Writes(T[c], p))
    BY <1>7, <2>1, <2>2
  <2>5. OwedOf(T, NoMsg, p) = {}
    BY <1>1, <1>2, <2>1 DEF CallerOwed, OwedNothing
  <2>6. OwedOf(T2, NoMsg, p) = {<<"in", c>>}
    BY ONLY <2>3, <2>4, <2>5, OwedNew, c \in Line, p \in Proc
  <2> QED
    BY <2>2, <2>6
<1>10. CallsHeld'
  <2>1. ASSUME NEW d \in Line
        PROVE  /\ tty'[d].in_left > 0 => tty'[d].in_proc \in Proc /\ tty'[d].in_code # "none"
               /\ tty'[d].out_left > 0 => tty'[d].out_proc \in Proc /\ tty'[d].out_code = "REVIVE"
               /\ tty'[d].in_left > 0 /\ d # c => tty'[d].in_code # "TASK_REPLY"
    <3>1. /\ tty[d].in_left > 0 => tty[d].in_proc \in Proc /\ tty[d].in_code # "none"
          /\ tty[d].out_left > 0 => tty[d].out_proc \in Proc /\ tty[d].out_code = "REVIVE"
      BY <1>1 DEF CallsHeld
    <3>2. CASE d = c
      BY <1>5, <3>1, <3>2 DEF SameOut
    <3>3. CASE d # c
      <4>1. SameIO(tty[d], tty'[d])
        BY <3>3
      <4> QED
        BY <1>4, <3>1, <4>1 DEF SameIO
    <3> QED
      BY <3>2, <3>3
  <2>2. task'.at # "blocked" /\ "TASK_REPLY" # "none"
    OBVIOUS
  <2> QED
    BY <1>1, <1>2, <1>3, <1>5, <2>1, <2>2 DEF CallsHeld
<1>11. OthersOwed'
  BY <1>1, <1>3, <1>8 DEF OthersOwed, OwedOnce, OwedNothing
<1>12. CallerOwed'
  BY <1>1, <1>2, <1>3, <1>5, <1>9 DEF CallerOwed
<1> QED
  BY <1>10, <1>11, <1>12 DEF OweInv

-----------------------------------------------------------------------------
(* The main loop's looks at the events.                                    *)
Dues == {pos \in task.pos .. 2 * NR_CONSOLES - 1 : Event(pos) \in tty[pos \div 2].events}

(* The place of each event of each console.                                *)
LEMMA Places ==
    ASSUME NEW c \in Line
    PROVE  /\ 2 * c \in 0 .. 2 * NR_CONSOLES - 1 /\ (2 * c) \div 2 = c /\ Event(2 * c) = "READ"
           /\ 2 * c + 1 \in 0 .. 2 * NR_CONSOLES - 1 /\ (2 * c + 1) \div 2 = c /\ Event(2 * c + 1) = "WRITE"
           /\ 2 * c + 2 \in 0 .. 2 * NR_CONSOLES
<1>1. c \in Nat /\ NR_CONSOLES \in Nat /\ c <= NR_CONSOLES - 1
  BY Params DEF Line
<1>2. (2 * c) % 2 = 0 /\ (2 * c + 1) % 2 = 1 /\ (2 * c) \div 2 = c /\ (2 * c + 1) \div 2 = c
  BY <1>1
<1>3. Event(2 * c) = "READ" /\ Event(2 * c + 1) = "WRITE"
  BY <1>2 DEF Event
<1> QED
  BY <1>1, <1>2, <1>3

(* And each place is one of a console.                                     *)
LEMMA PlaceIs ==
    ASSUME NEW pos \in 0 .. 2 * NR_CONSOLES - 1
    PROVE  /\ pos \div 2 \in Line
           /\ Event(pos) = "READ" => pos = 2 * (pos \div 2)
           /\ Event(pos) = "WRITE" => pos = 2 * (pos \div 2) + 1
<1>1. NR_CONSOLES \in Nat
  BY Params
<1>2. pos % 2 \in {0, 1} /\ pos = 2 * (pos \div 2) + (pos % 2) /\ pos \div 2 \in Int
  <2>1. pos \in Nat
    BY <1>1
  <2> QED
    BY ONLY <2>1
<1>3. pos \div 2 \in Line
  BY <1>1, <1>2 DEF Line
<1> QED
  BY <1>2, <1>3 DEF Event

(* What is pending and not behind the loop is due.                         *)
LEMMA DueIs ==
    ASSUME BaseInv, NEW c \in Line
    PROVE  /\ "READ" \in tty[c].events /\ 2 * c >= task.pos => 2 * c \in Dues
           /\ "WRITE" \in tty[c].events /\ 2 * c + 1 >= task.pos => 2 * c + 1 \in Dues
<1>1. task.pos \in Nat /\ NR_CONSOLES \in Nat
  BY Params DEF BaseInv, Tasks
<1>2. c \in Nat
  BY Params
<1>3. "READ" \in tty[c].events /\ 2 * c >= task.pos => 2 * c \in Dues
  <2>1. PICK q : q = 2 * c
    OBVIOUS
  <2>2. q \in 0 .. 2 * NR_CONSOLES - 1 /\ q \div 2 = c /\ Event(q) = "READ"
    BY <2>1, Places
  <2>3. q >= task.pos => q \in task.pos .. 2 * NR_CONSOLES - 1
    BY <1>1, <2>2
  <2> QED
    BY <2>1, <2>2, <2>3 DEF Dues
<1>4. "WRITE" \in tty[c].events /\ 2 * c + 1 >= task.pos => 2 * c + 1 \in Dues
  <2>1. PICK q : q = 2 * c + 1
    OBVIOUS
  <2>2. q \in 0 .. 2 * NR_CONSOLES - 1 /\ q \div 2 = c /\ Event(q) = "WRITE"
    BY <2>1, Places
  <2>3. q >= task.pos => q \in task.pos .. 2 * NR_CONSOLES - 1
    BY <1>1, <2>2
  <2> QED
    BY <2>1, <2>2, <2>3 DEF Dues
<1> QED
  BY <1>3, <1>4

(* The console whose event is the first that is due, and that no event is  *)
(* before it unless the clock's wakeup is on its way.                      *)
LEMMA FirstDue ==
    ASSUME IInv, task.at = "scan", Dues # {}, NEW c, c = Min(Dues) \div 2
    PROVE  /\ c \in Line /\ Event(Min(Dues)) \in tty[c].events /\ Event(Min(Dues)) \in {"READ", "WRITE"}
           /\ Event(Min(Dues)) = "READ" => Min(Dues) = 2 * c
           /\ Event(Min(Dues)) = "WRITE" => Min(Dues) = 2 * c + 1
           /\ ~ wake /\ ~ hard =>
                 \A d \in Line : /\ "READ" \in tty[d].events => 2 * d >= Min(Dues)
                                 /\ "WRITE" \in tty[d].events => 2 * d + 1 >= Min(Dues)
<1>1. BaseInv /\ EventsAhead /\ task.pos \in Nat /\ NR_CONSOLES \in Nat
  BY Params DEF IInv, WakeInv, BaseInv, Tasks
<1>2. Dues \in SUBSET Nat
  BY <1>1 DEF Dues
<1>3. PICK m : m = Min(Dues)
  OBVIOUS
<1>4. m \in Dues /\ \A q \in Dues : m <= q
  BY <1>2, <1>3, MinIs
<1>5. m \in 0 .. 2 * NR_CONSOLES - 1 /\ Event(m) \in tty[c].events
  BY <1>1, <1>3, <1>4 DEF Dues
<1>6. /\ c \in Line /\ (Event(m) = "READ" => m = 2 * c) /\ (Event(m) = "WRITE" => m = 2 * c + 1)
  BY <1>3, <1>5, PlaceIs
<1>7. Event(m) \in {"READ", "WRITE"}
  BY DEF Event
<1>8. ASSUME ~ wake, ~ hard, NEW d \in Line
      PROVE  /\ "READ" \in tty[d].events => 2 * d >= m
             /\ "WRITE" \in tty[d].events => 2 * d + 1 >= m
  <2>1. ~ Answering
    BY DEF Answering, Doing, Sending
  <2>2. /\ "READ" \in tty[d].events => 2 * d >= task.pos
        /\ "WRITE" \in tty[d].events => 2 * d + 1 >= task.pos
    BY <1>1, <1>8, <2>1 DEF EventsAhead
  <2>3. /\ "READ" \in tty[d].events => 2 * d \in Dues
        /\ "WRITE" \in tty[d].events => 2 * d + 1 \in Dues
    BY <1>1, <2>2, DueIs
  <2>4. d \in Nat /\ m \in Nat
    BY <1>2, <1>4, Params
  <2> QED
    BY <1>4, <2>3, <2>4
<1> QED
  BY <1>3, <1>5, <1>6, <1>7, <1>8

(* What a write of everything leaves.                                      *)
LEMMA WrittenIs ==
    ASSUME NEW t \in Console, QueueOK(t), NEW S \in SUBSET {"READ", "WRITE"},
           NEW u, u = NotWriting([t EXCEPT !.events = S])
    PROVE  /\ u \in Console /\ QueueOK(u) /\ u.events = S /\ u.out_left = 0
           /\ u.in_left = t.in_left /\ u.in_proc = t.in_proc /\ u.in_code = t.in_code
           /\ CanTransfer(u) <=> CanTransfer(t)
<1>1. PICK v : v = [t EXCEPT !.events = S]
  OBVIOUS
<1>2. v \in Console /\ QueueOK(v) /\ v.events = S /\ SameIO(t, v) /\ (CanTransfer(v) <=> CanTransfer(t))
  BY <1>1, EventsOnly
<1>3. u = [v EXCEPT !.out_left = 0, !.out_proc = NoOne, !.out_code = "none"]
  BY <1>1 DEF NotWriting
<1>4. /\ u \in Console /\ u.queue = v.queue /\ u.eot_count = v.eot_count /\ u.events = v.events
      /\ u.out_left = 0 /\ u.in_left = v.in_left /\ u.in_proc = v.in_proc /\ u.in_code = v.in_code
  BY <1>2, <1>3 DEF Console, Caller, Codes
<1> QED
  BY <1>2, <1>4 DEF QueueOK, CanTransfer, SameIO

(* handle_write.                                                           *)
LEMMA HandleWrite ==
    ASSUME IInv, halted = "no", task.at = "scan", NEW c \in Line, handle_write(c),
           UNCHANGED <<ring, current, wake, hard, fs, suspended, halted>>,
           ~ wake /\ ~ hard =>
              \A d \in Line : /\ "READ" \in tty[d].events => 2 * d >= 2 * c + 1
                              /\ "WRITE" \in tty[d].events => 2 * d + 1 >= 2 * c + 1
    PROVE  IInv'
<1>1. /\ BaseInv /\ KeysSeen /\ WorkSeen /\ OweInv /\ CallsHeld /\ current \in Line /\ c \in Nat
      /\ task \in Tasks /\ ~ Sending /\ ~ Answering /\ Doing = "scan"
      /\ tty[c] \in Console /\ QueueOK(tty[c])
  BY Params DEF IInv, WakeInv, OweInv, BaseInv, Sending, Doing, Answering
<1>2. PICK S : S = tty[c].events \ {"WRITE"}
  OBVIOUS
<1>3. S \in SUBSET {"READ", "WRITE"}
  BY <1>1, <1>2 DEF Console
<1>4. PICK pos : pos = 2 * c + 2
  OBVIOUS
<1>5. pos \in 0 .. 2 * NR_CONSOLES
  BY <1>4, Places
<1>6. task.msg = NoMsg /\ NoMsg \in Message
  BY <1>1 DEF CallsHeld, Message, NoMsg, Codes, Caller, Status
<1>7. PICK u \in Console :
        /\ QueueOK(u) /\ u.events = S /\ (CanTransfer(u) <=> CanTransfer(tty[c])) /\ ~ Writable(u)
        /\ tty' = [tty EXCEPT ![c] = u] /\ task' \in Tasks /\ task'.pos = pos
        /\ \/ /\ task'.at = "scan" /\ task'.msg = NoMsg /\ SameIO(tty[c], u)
           \/ /\ task'.at = "send" /\ task'.next = "scan" /\ task'.msg = WrittenMsg(tty[c]) /\ Writable(tty[c])
              /\ u.out_left = 0 /\ u.in_left = tty[c].in_left /\ u.in_proc = tty[c].in_proc
              /\ u.in_code = tty[c].in_code
  <2>1. CASE Writable(tty[c])
    <3>1. PICK u : u = NotWriting([tty[c] EXCEPT !.events = S])
      OBVIOUS
    <3>2. /\ u \in Console /\ QueueOK(u) /\ u.events = S /\ u.out_left = 0
          /\ u.in_left = tty[c].in_left /\ u.in_proc = tty[c].in_proc /\ u.in_code = tty[c].in_code
          /\ CanTransfer(u) <=> CanTransfer(tty[c])
      <4>1. tty[c] \in Console /\ QueueOK(tty[c])
        BY <1>1
      <4> QED
        BY ONLY <1>3, <3>1, <4>1, WrittenIs
    <3>3. ~ Writable(u)
      BY <3>2 DEF Writable
    <3>4. PICK m : m = WrittenMsg(tty[c])
      OBVIOUS
    <3>5. m \in Message
      BY <1>1, <3>4 DEF WrittenMsg, Message, Console, Status
    <3>6. tty' = [tty EXCEPT ![c] = u] /\ task' = [Scan EXCEPT !.at = "send", !.pos = pos, !.msg = m]
      BY <1>2, <1>4, <2>1, <3>1, <3>4 DEF handle_write
    <3>7. task' \in Tasks /\ task'.pos = pos /\ task'.at = "send" /\ task'.next = "scan" /\ task'.msg = m
      BY <1>5, <3>5, <3>6, Params DEF Tasks, Scan
    <3> QED
      BY <2>1, <3>2, <3>3, <3>4, <3>6, <3>7
  <2>2. CASE ~ Writable(tty[c])
    <3>1. PICK u : u = [tty[c] EXCEPT !.events = S]
      OBVIOUS
    <3>2. /\ u \in Console /\ QueueOK(u) /\ u.events = S /\ SameIO(tty[c], u)
          /\ CanTransfer(u) <=> CanTransfer(tty[c])
          /\ Writable(u) <=> Writable(tty[c])
      <4>1. PICK t : t = tty[c]
        OBVIOUS
      <4>2. t \in Console /\ QueueOK(t) /\ u = [t EXCEPT !.events = S]
        BY <1>1, <3>1, <4>1
      <4>3. /\ u \in Console /\ QueueOK(u) /\ SameIO(t, u) /\ u.events = S
            /\ CanTransfer(u) <=> CanTransfer(t)
            /\ Writable(u) <=> Writable(t)
        BY ONLY <1>3, <4>2, EventsOnly
      <4> QED
        BY <4>1, <4>3
    <3>3. tty' = [tty EXCEPT ![c] = u] /\ task' = [Scan EXCEPT !.pos = pos]
      BY <1>2, <1>4, <2>2, <3>1 DEF handle_write
    <3>4. task' \in Tasks /\ task'.pos = pos /\ task'.at = "scan" /\ task'.msg = NoMsg
      BY <1>5, <1>6, <3>3, Params DEF Tasks, Scan
    <3> QED
      BY <2>2, <3>2, <3>3, <3>4
  <2> QED
    BY <2>1, <2>2
<1>8. /\ tty' \in [Line -> Console] /\ \A d \in Line : QueueOK(tty'[d])
      /\ tty'[c] = u /\ \A d \in Line : d # c => tty'[d] = tty[d]
  BY <1>1, <1>7, OneConsole
<1>9. Doing' = "scan" /\ ~ Answering'
  BY <1>7 DEF Doing, Sending, Answering
<1>10. BaseInv'
  <2>1. wake' \in BOOLEAN /\ hard' \in BOOLEAN
    BY <1>1 DEF BaseInv
  <2> QED
    BY <1>1, <1>7, <1>8, <1>9, <2>1 DEF BaseInv
<1>11. KeysSeen'
  <2>1. "READ" \in tty[current].events => "READ" \in tty'[current].events
    BY <1>1, <1>2, <1>7, <1>8
  <2> QED
    BY <1>1, <1>9, <2>1 DEF KeysSeen
<1>12. WorkSeen'
  <2>1. \A d \in Line : /\ CanTransfer(tty'[d]) <=> CanTransfer(tty[d])
                        /\ "READ" \in tty[d].events => "READ" \in tty'[d].events
                        /\ Writable(tty'[d]) => d # c
                        /\ d # c => tty'[d] = tty[d]
    BY <1>2, <1>7, <1>8
  <2> QED
    BY <1>1, <1>9, <2>1 DEF WorkSeen
<1>13. EventsAhead'
  <2> SUFFICES ASSUME ~ wake, ~ hard, NEW d \in Line
               PROVE  /\ "READ" \in tty'[d].events => 2 * d >= pos
                      /\ "WRITE" \in tty'[d].events => 2 * d + 1 >= pos
    BY <1>7 DEF EventsAhead
  <2>1. /\ "READ" \in tty[d].events => 2 * d >= 2 * c + 1
        /\ "WRITE" \in tty[d].events => 2 * d + 1 >= 2 * c + 1
    BY Zenon
  <2>2. tty'[d].events \subseteq tty[d].events /\ ("WRITE" \in tty'[d].events => d # c)
    BY <1>2, <1>7, <1>8
  <2>3. d \in Nat /\ c \in Nat
    BY <1>1, Params
  <2>4. 2 * d >= 2 * c + 1 => 2 * d >= pos
    BY ONLY <1>4, <2>3
  <2>5. d # c /\ 2 * d + 1 >= 2 * c + 1 => 2 * d + 1 >= pos
    BY ONLY <1>4, <2>3
  <2> QED
    BY ONLY <2>1, <2>2, <2>4, <2>5
<1>14. OweInv'
  <2>1. CASE task'.at = "scan" /\ task'.msg = NoMsg /\ SameIO(tty[c], u)
    <3>1. \A d \in Line : SameIO(tty[d], tty'[d])
      BY <1>8, <2>1 DEF SameIO
    <3>2. ~ Sending'
      BY <2>1 DEF Sending
    <3> QED
      BY <1>1, <1>6, <1>9, <2>1, <3>1, <3>2, OweSame
  <2>2. CASE /\ task'.at = "send" /\ task'.next = "scan" /\ task'.msg = WrittenMsg(tty[c]) /\ Writable(tty[c])
             /\ u.out_left = 0 /\ u.in_left = tty[c].in_left /\ u.in_proc = tty[c].in_proc
             /\ u.in_code = tty[c].in_code
    <3>1. PICK p : p = tty[c].out_proc
      OBVIOUS
    <3>2. p \in Proc /\ tty[c].out_code = "REVIVE" /\ tty[c].out_left > 0
      BY <1>1, <2>2, <3>1 DEF CallsHeld, Writable
    <3>3. OutGone(c, p)
      BY <1>8, <2>2, <3>1, <3>2 DEF OutGone, Writes
    <3>4. task'.msg.proc = p /\ task'.msg.code = "REVIVE"
      BY <2>2, <3>1, <3>2 DEF WrittenMsg
    <3>5. \A d \in Line : d # c => SameIO(tty[d], tty'[d])
      BY <1>8 DEF SameIO
    <3> QED
      BY <1>1, <1>9, <2>2, <3>2, <3>3, <3>4, <3>5, OweRevive
  <2> QED
    BY <1>7, <2>1, <2>2
<1> QED
  BY <1>10, <1>11, <1>12, <1>13, <1>14 DEF IInv, WakeInv

(* scan.                                                                   *)
LEMMA ScanStep == IInv /\ scan => IInv'
<1> SUFFICES ASSUME IInv, scan PROVE IInv'
  OBVIOUS
<1>1. /\ halted = "no" /\ task.at = "scan"
      /\ UNCHANGED <<ring, current, wake, hard, fs, suspended, halted>>
  BY DEF scan, At, RunningSystem, Quiet
<1>2. PICK c : c = Min(Dues) \div 2
  OBVIOUS
<1>3. \/ Dues = {} /\ task' = Receive /\ UNCHANGED tty
      \/ Dues # {} /\ Event(Min(Dues)) = "READ" /\ handle_read(c, "scan")
      \/ Dues # {} /\ Event(Min(Dues)) = "WRITE" /\ handle_write(c)
  BY <1>2 DEF scan, Dues
<1>4. BaseInv /\ WakeInv /\ OweInv /\ CallsHeld /\ task \in Tasks /\ ~ Sending /\ ~ Answering /\ Doing = "scan"
  BY <1>1 DEF IInv, OweInv, BaseInv, Sending, Answering, Doing
<1>5. CASE Dues = {} /\ task' = Receive /\ UNCHANGED tty
  <2>1. Receive \in Tasks /\ Receive.msg = NoMsg /\ Receive.at = "receive" /\ Receive.pos = 0
    <3>1. 0 \in 0 .. 2 * NR_CONSOLES /\ 0 \in Line
      BY Params
    <3>2. NoMsg \in Message
      BY DEF NoMsg, Message, Codes, Caller, Status
    <3>3. Receive = [at |-> "receive", pos |-> 0, ctty |-> 0, after |-> "scan", msg |-> NoMsg, next |-> "scan"]
      BY DEF Receive, Scan
    <3> QED
      BY <3>1, <3>2, <3>3 DEF Tasks
  <2>2. Doing' = "receive" /\ ~ Answering' /\ ~ Sending'
    BY <1>5, <2>1 DEF Doing, Sending, Answering
  <2>3. BaseInv'
    <3>1. wake' \in BOOLEAN /\ hard' \in BOOLEAN
      BY <1>1, <1>4 DEF BaseInv
    <3> QED
      BY <1>1, <1>4, <1>5, <2>1, <2>2, <3>1 DEF BaseInv
  <2>4. KeysSeen' /\ WorkSeen'
    BY <1>1, <1>4, <1>5, <2>2 DEF WakeInv, KeysSeen, WorkSeen
  <2>5. EventsAhead'
    <3> SUFFICES ASSUME ~ wake, ~ hard, NEW d \in Line PROVE tty[d].events = {}
      BY <1>1, <1>5, <2>1 DEF EventsAhead
    <3>1. /\ "READ" \in tty[d].events => 2 * d >= task.pos
          /\ "WRITE" \in tty[d].events => 2 * d + 1 >= task.pos
      BY <1>4 DEF WakeInv, EventsAhead
    <3>2. "READ" \notin tty[d].events /\ "WRITE" \notin tty[d].events
      BY <1>4, <1>5, <3>1, DueIs
    <3>3. tty[d].events \subseteq {"READ", "WRITE"}
      BY <1>4 DEF BaseInv, Console
    <3> QED
      BY <3>2, <3>3
  <2>6. OweInv'
    <3>1. task'.msg = task.msg
      BY <1>4, <1>5, <2>1 DEF CallsHeld
    <3> QED
      BY <1>1, <1>4, <1>5, <2>2, <3>1, OweSame DEF SameIO
  <2> QED
    BY <2>3, <2>4, <2>5, <2>6 DEF IInv, WakeInv
<1>6. CASE Dues # {} /\ Event(Min(Dues)) = "READ" /\ handle_read(c, "scan")
  <2>1. c \in Line /\ Min(Dues) = 2 * c
    BY <1>1, <1>2, <1>6, FirstDue
  <2>2. ~ wake /\ ~ hard =>
           \A d \in Line : /\ "READ" \in tty[d].events => 2 * d >= 2 * c
                           /\ "WRITE" \in tty[d].events => 2 * d + 1 >= 2 * c
    BY <1>1, <1>2, <1>6, <2>1, FirstDue
  <2> QED
    BY <1>1, <1>4, <1>6, <2>1, <2>2, HandleRead
<1>7. CASE Dues # {} /\ Event(Min(Dues)) = "WRITE" /\ handle_write(c)
  <2>1. c \in Line /\ Min(Dues) = 2 * c + 1
    BY <1>1, <1>2, <1>7, FirstDue
  <2>2. ~ wake /\ ~ hard =>
           \A d \in Line : /\ "READ" \in tty[d].events => 2 * d >= 2 * c + 1
                           /\ "WRITE" \in tty[d].events => 2 * d + 1 >= 2 * c + 1
    BY <1>1, <1>2, <1>7, <2>1, FirstDue
  <2> QED
    BY <1>1, <1>7, <2>1, <2>2, HandleWrite
<1> QED
  BY <1>3, <1>5, <1>6, <1>7

-----------------------------------------------------------------------------
(* Keys and lines.                                                         *)

(* A console that has a line for its reader sends it.                      *)
LEMMA OweTaken ==
    ASSUME BaseInv, OweInv, halted = "no", ~ Sending, UNCHANGED <<fs, suspended, halted>>,
           NEW c \in Line, NEW t \in Console, SameIO(tty[c], t), CanTransfer(t), LineRead(t, tty'[c]),
           \A d \in Line : d # c => tty'[d] = tty[d],
           task'.at = "send", task'.msg = TransferMsg(t),
           Answering' <=> Answering, Answering => line' = line
    PROVE  OweInv'
<1>1. CallsHeld
  BY DEF OweInv
<1>2. PICK p : p = tty[c].in_proc
  OBVIOUS
<1>3. tty[c].in_left > 0 /\ p \in Proc /\ tty[c].in_code # "none" /\ t.in_proc = p /\ t.in_code = tty[c].in_code
  BY <1>1, <1>2 DEF CanTransfer, SameIO, CallsHeld
<1>4. InGone(c, p)
  BY <1>2, <1>3 DEF InGone, Reads, LineRead, SameIO
<1>5. task'.msg.proc = p /\ task'.msg.code = tty[c].in_code /\ task'.msg.status # "SUSPEND"
  BY <1>3 DEF TransferMsg
<1>6. \A d \in Line : d # c => SameIO(tty[d], tty'[d])
  BY DEF SameIO
<1>7. tty[c].in_code \in Codes
  BY <1>3 DEF Console
<1>8. CASE tty[c].in_code = "REVIVE"
  BY <1>3, <1>4, <1>5, <1>6, <1>8, OweRevive
<1>9. CASE tty[c].in_code = "TASK_REPLY"
  BY <1>3, <1>4, <1>5, <1>6, <1>9, OweReply
<1> QED
  BY <1>3, <1>7, <1>8, <1>9 DEF Codes

(* A transferred line leaves nobody reading.                               *)
LEMMA ReadDone ==
    ASSUME NEW t, NEW u, LineRead(t, u)
    PROVE  /\ u \in Console /\ QueueOK(u) /\ u.events = t.events /\ ~ CanTransfer(u)
           /\ Writable(u) <=> Writable(t)
<1>1. ~ (0 > 0)
  OBVIOUS
<1> QED
  BY <1>1 DEF LineRead, CanTransfer, Writable

(* keyboard_read.                                                          *)
LEMMA KeyboardRead == IInv /\ keyboard_read => IInv'
<1> SUFFICES ASSUME IInv, keyboard_read PROVE IInv'
  OBVIOUS
<1>1. /\ halted = "no" /\ task.at = "keys" /\ ring # << >> /\ ring' = Tail(ring)
      /\ UNCHANGED <<wake, hard, fs, suspended, halted>>
  BY DEF keyboard_read, At, RunningSystem
<1>2. /\ BaseInv /\ KeysSeen /\ WorkSeen /\ EventsAhead /\ OweInv /\ CallsHeld /\ task \in Tasks
      /\ ~ Sending /\ Doing = "keys"
  BY <1>1 DEF IInv, WakeInv, OweInv, BaseInv, Sending, Doing
<1>3. PICK key : key = Head(ring)
  OBVIOUS
<1>4. PICK c : c = task.ctty
  OBVIOUS
<1>5. PICK t : t = input_handler(tty[c], key)
  OBVIOUS
<1>6. key \in Key /\ key \in Keys /\ ring' \in Seq(Key) /\ Len(ring') <= RING
  <2>1. ring \in Seq(Key) /\ Len(ring) <= RING /\ RING \in Nat /\ Key \subseteq Keys
    BY <1>2, Params DEF BaseInv
  <2>2. Tail(ring) \in Seq(Key) /\ Len(Tail(ring)) = Len(ring) - 1 /\ Len(ring) \in Nat /\ Head(ring) \in Key
    BY ONLY <1>1, <2>1
  <2> QED
    BY <1>1, <1>3, <2>1, <2>2
<1>7. c \in Line /\ line \in Line /\ task.pos = 2 * line
  BY <1>2, <1>4, LineIs DEF Tasks
<1>8. tty[c] \in Console /\ QueueOK(tty[c])
  BY <1>2, <1>7 DEF BaseInv
<1>9. Fed(tty[c], t)
  BY <1>5, <1>6, <1>8, InputHandler
<1>10. \/ /\ current' = Switched(key) /\ UNCHANGED <<tty, task>>
       \/ /\ CanTransfer(t) /\ tty' = [tty EXCEPT ![c] = Transferred(t)]
          /\ Send(TransferMsg(t), "keys") /\ UNCHANGED current
       \/ /\ tty' = [tty EXCEPT ![c] = t] /\ UNCHANGED <<task, current>>
  BY <1>3, <1>4, <1>5 DEF keyboard_read
<1>11. wake' \in BOOLEAN /\ hard' \in BOOLEAN
  BY <1>1, <1>2 DEF BaseInv
<1>12. c # line => "READ" \in tty[c].events
  BY <1>1, <1>2, <1>4 DEF KeysSeen
<1>13. ASSUME NEW u \in Console, QueueOK(u), u.events = t.events, tty' = [tty EXCEPT ![c] = u],
              CanTransfer(u) => CanTransfer(t), Writable(u) => Writable(t), UNCHANGED current,
              task' \in Tasks, task'.at # "receive", task'.pos = task.pos, task'.ctty = c,
              Doing' = "keys", Answering' <=> Answering, line' = line
       PROVE  BaseInv' /\ WakeInv' /\ tty'[c] = u /\ \A d \in Line : d # c => tty'[d] = tty[d]
  <2>1. /\ tty' \in [Line -> Console] /\ \A d \in Line : QueueOK(tty'[d])
        /\ tty'[c] = u /\ \A d \in Line : d # c => tty'[d] = tty[d]
    BY <1>2, <1>7, <1>13, OneConsole
  <2>2. BaseInv'
    BY <1>1, <1>2, <1>6, <1>11, <1>13, <2>1 DEF BaseInv
  <2>3. tty[c].events \subseteq u.events /\ ("READ" \in u.events => "READ" \in tty[c].events)
    BY <1>9, <1>13 DEF Fed
  <2>4. KeysSeen'
    BY <1>7, <1>12, <1>13, <2>1, <2>3 DEF KeysSeen
  <2>5. WorkSeen'
    <3> SUFFICES ASSUME NEW d \in Line
                 PROVE  /\ CanTransfer(tty'[d]) => "READ" \in tty'[d].events \/ line = d
                        /\ Writable(tty'[d]) => "WRITE" \in tty'[d].events
      BY <1>13 DEF WorkSeen
    <3>1. CASE d = c
      <4>1. c # line => "READ" \in u.events
        BY <1>12, <2>3
      <4>2. Writable(u) => Writable(tty[c]) \/ "WRITE" \in u.events
        <5>1. Writable(t) => Writable(tty[c]) \/ "WRITE" \in t.events
          BY <1>9 DEF Fed, SameIO, Writable
        <5> QED
          BY <1>13, <5>1
      <4>3. Writable(tty[c]) => "WRITE" \in tty[c].events
        BY <1>2, <1>7 DEF WorkSeen
      <4> QED
        BY <2>1, <2>3, <3>1, <4>1, <4>2, <4>3
    <3>2. CASE d # c
      BY <1>2, <2>1, <3>2 DEF WorkSeen
    <3> QED
      BY <3>1, <3>2
  <2>6. EventsAhead'
    <3> SUFFICES ASSUME ~ wake, ~ hard, ~ Answering, NEW d \in Line
                 PROVE  /\ "READ" \in tty'[d].events => 2 * d >= task.pos
                        /\ "WRITE" \in tty'[d].events => 2 * d + 1 >= task.pos
      BY <1>1, <1>13 DEF EventsAhead
    <3>1. /\ "READ" \in tty[d].events => 2 * d >= task.pos
          /\ "WRITE" \in tty[d].events => 2 * d + 1 >= task.pos
      BY <1>2 DEF EventsAhead
    <3>2. CASE d = c
      <4>1. "READ" \in tty'[d].events => "READ" \in tty[d].events
        BY <2>1, <2>3, <3>2
      <4>2. 2 * d + 1 >= task.pos
        <5>1. d \in Nat /\ line \in Nat
          BY <1>7, Params
        <5>2. d = line \/ 2 * d >= task.pos
          BY <1>12, <3>1, <3>2
        <5> QED
          BY <1>7, <5>1, <5>2
      <4> QED
        BY <3>1, <4>1, <4>2
    <3>3. CASE d # c
      BY <2>1, <3>1, <3>3
    <3> QED
      BY <3>2, <3>3
  <2> QED
    BY <2>1, <2>2, <2>4, <2>5, <2>6 DEF WakeInv
<1>14. CASE current' = Switched(key) /\ UNCHANGED <<tty, task>>
  <2>1. current' \in Line
    BY <1>2, <1>14 DEF Switched, BaseInv
  <2>2. Doing' = Doing /\ Sending' = Sending /\ Answering' = Answering /\ line' = line
    BY <1>14 DEF Doing, Sending, Answering, line
  <2>3. BaseInv'
    BY <1>1, <1>2, <1>6, <1>11, <1>14, <2>1, <2>2 DEF BaseInv
  <2>4. WakeInv'
    BY <1>1, <1>2, <1>4, <1>12, <1>14, <2>2 DEF WakeInv, KeysSeen, WorkSeen, EventsAhead
  <2>5. OweInv'
    BY <1>1, <1>2, <1>14, <2>2, OweSame DEF SameIO
  <2> QED
    BY <2>3, <2>4, <2>5 DEF IInv
<1>15. CASE tty' = [tty EXCEPT ![c] = t] /\ UNCHANGED <<task, current>>
  <2>1. Doing' = Doing /\ Sending' = Sending /\ Answering' = Answering /\ line' = line
    BY <1>15 DEF Doing, Sending, Answering, line
  <2>2. t \in Console /\ QueueOK(t) /\ SameIO(tty[c], t)
    BY <1>9 DEF Fed
  <2>3. BaseInv' /\ WakeInv' /\ tty'[c] = t /\ \A d \in Line : d # c => tty'[d] = tty[d]
    BY <1>1, <1>2, <1>4, <1>13, <1>15, <2>1, <2>2
  <2>4. \A d \in Line : SameIO(tty[d], tty'[d])
    BY <2>2, <2>3 DEF SameIO
  <2>5. OweInv'
    BY <1>1, <1>2, <1>15, <2>1, <2>4, OweSame
  <2> QED
    BY <2>3, <2>5 DEF IInv
<1>16. CASE /\ CanTransfer(t) /\ tty' = [tty EXCEPT ![c] = Transferred(t)]
            /\ Send(TransferMsg(t), "keys") /\ UNCHANGED current
  <2>1. t \in Console /\ QueueOK(t) /\ SameIO(tty[c], t)
    BY <1>9 DEF Fed
  <2>2. PICK u : u = Transferred(t)
    OBVIOUS
  <2>3. LineRead(t, u)
    BY <1>16, <2>1, <2>2, TransferredIs
  <2>4. /\ u \in Console /\ QueueOK(u) /\ u.events = t.events /\ ~ CanTransfer(u)
        /\ Writable(u) <=> Writable(t)
    BY <2>3, ReadDone
  <2>5. PICK m : m = TransferMsg(t)
    OBVIOUS
  <2>6. m \in Message
    BY <2>1, <2>5 DEF TransferMsg, Message, Console, Status
  <2>7. task' = [task EXCEPT !.at = "send", !.msg = m, !.next = "keys"]
    BY <1>16, <2>5 DEF Send
  <2>8. /\ task' \in Tasks /\ task'.at = "send" /\ task'.next = "keys" /\ task'.msg = m
        /\ task'.pos = task.pos /\ task'.ctty = c /\ task'.after = task.after
    BY <1>2, <1>4, <2>6, <2>7 DEF Tasks
  <2>9. Doing' = "keys" /\ (Answering' <=> Answering) /\ line' = line
    BY <1>2, <2>8 DEF Doing, Sending, Answering, line
  <2>10. BaseInv' /\ WakeInv' /\ tty'[c] = u /\ \A d \in Line : d # c => tty'[d] = tty[d]
    BY <1>13, <1>16, <2>2, <2>4, <2>8, <2>9
  <2>11. OweInv'
    BY <1>1, <1>2, <1>7, <1>16, <2>1, <2>3, <2>5, <2>8, <2>9, <2>10, OweTaken
  <2> QED
    BY <2>10, <2>11 DEF IInv
<1> QED
  BY <1>10, <1>14, <1>15, <1>16

(* The end of handle_read: what it returns to.                             *)
LEMMA HandleReadEnds ==
    ASSUME IInv, halted = "no", task.at = "keys", ring = << >>, "READ" \notin tty[line].events,
           UNCHANGED <<ring, current, wake, hard, fs, suspended, halted>>,
           NEW u \in Console, QueueOK(u), tty' = [tty EXCEPT ![line] = u],
           u.events = tty[line].events, ~ CanTransfer(u), Writable(u) => Writable(tty[line]),
           task' \in Tasks, task'.at # "receive", Doing' = task.after,
           task.after = "answer" => task'.pos = task.pos,
           task.after = "scan" => task'.pos = task.pos + 1
    PROVE  /\ BaseInv' /\ WakeInv' /\ (Answering' <=> Answering) /\ (Answering => line' = line)
           /\ tty'[line] = u /\ \A d \in Line : d # line => tty'[d] = tty[d]
<1>1. /\ BaseInv /\ WorkSeen /\ EventsAhead /\ task \in Tasks /\ ~ Sending /\ Doing = "keys"
      /\ task.after \in {"scan", "answer"}
  BY DEF IInv, WakeInv, BaseInv, Sending, Doing, Tasks
<1>2. line \in Line /\ task.pos = 2 * line
  BY <1>1, LineIs
<1>3. PICK c \in Line : c = line
  BY <1>2
<1>4. (Answering <=> task.after = "answer") /\ (Answering' <=> task.after = "answer")
  BY <1>1 DEF Answering
<1>5. Answering => line' = line
  BY <1>4 DEF line
<1>6. /\ tty' \in [Line -> Console] /\ \A d \in Line : QueueOK(tty'[d])
      /\ tty'[c] = u /\ \A d \in Line : d # c => tty'[d] = tty[d]
  BY <1>1, <1>3, OneConsole
<1>7. wake' \in BOOLEAN /\ hard' \in BOOLEAN
  BY <1>1 DEF BaseInv
<1>8. Doing' \in {"keys", "again", "answer"} => \E d \in Line : task'.pos = 2 * d
  BY <1>1, <1>2
<1>9. BaseInv'
  BY <1>1, <1>6, <1>7, <1>8 DEF BaseInv
<1>10. KeysSeen'
  BY <1>1 DEF KeysSeen
<1>11. WorkSeen'
  <2> SUFFICES ASSUME NEW d \in Line
               PROVE  /\ CanTransfer(tty'[d]) => "READ" \in tty'[d].events
                      /\ Writable(tty'[d]) => "WRITE" \in tty'[d].events
    BY DEF WorkSeen
  <2>1. Writable(tty[c]) => "WRITE" \in tty[c].events
    BY <1>1 DEF WorkSeen
  <2>2. CASE d = c
    BY <1>3, <1>6, <2>1, <2>2
  <2>3. CASE d # c
    BY <1>1, <1>3, <1>6, <2>3 DEF WorkSeen
  <2> QED
    BY <2>2, <2>3
<1>12. EventsAhead'
  <2> SUFFICES ASSUME ~ wake, ~ hard, ~ Answering', NEW d \in Line
               PROVE  /\ "READ" \in tty'[d].events => 2 * d >= task'.pos
                      /\ "WRITE" \in tty'[d].events => 2 * d + 1 >= task'.pos
    BY DEF EventsAhead
  <2>1. task'.pos = 2 * c + 1
    BY <1>1, <1>2, <1>3, <1>4
  <2>2. tty'[d].events = tty[d].events
    BY <1>3, <1>6
  <2>3. /\ "READ" \in tty[d].events => 2 * d >= 2 * c
        /\ "WRITE" \in tty[d].events => 2 * d + 1 >= 2 * c
    BY <1>1, <1>2, <1>3, <1>4 DEF EventsAhead
  <2>4. "READ" \in tty[d].events => d # c
    BY <1>3
  <2>5. d \in Nat /\ c \in Nat
    BY Params
  <2>6. (2 * d >= 2 * c /\ d # c => 2 * d >= 2 * c + 1) /\ (2 * d + 1 >= 2 * c => 2 * d + 1 >= 2 * c + 1)
    BY ONLY <2>5
  <2> QED
    BY <2>1, <2>2, <2>3, <2>4, <2>6
<1> QED
  BY <1>3, <1>4, <1>5, <1>6, <1>9, <1>10, <1>11, <1>12 DEF WakeInv

(* tty_transfer.                                                           *)
LEMMA TtyTransfer == IInv /\ tty_transfer => IInv'
<1> SUFFICES ASSUME IInv, tty_transfer PROVE IInv'
  OBVIOUS
<1>1. /\ halted = "no" /\ task.at = "keys" /\ ring = << >>
      /\ UNCHANGED <<ring, current, wake, hard, fs, suspended, halted>>
  BY DEF tty_transfer, At, RunningSystem, Quiet
<1>2. /\ BaseInv /\ EventsAhead /\ OweInv /\ CallsHeld /\ task \in Tasks /\ ~ Sending /\ Doing = "keys"
      /\ task.after \in {"scan", "answer"} /\ task.pos \in Nat
  BY <1>1, Params DEF IInv, WakeInv, OweInv, BaseInv, Sending, Doing, Tasks
<1>3. line \in Line /\ task.pos = 2 * line
  BY <1>2, LineIs
<1>4. Answering <=> task.after = "answer"
  BY <1>2 DEF Answering
<1>5. PICK c \in Line : c = line
  BY <1>3
<1>6. PICK t \in Console : t = tty[c] /\ QueueOK(t)
  BY <1>2 DEF BaseInv
<1>7. task.pos + 1 \in 0 .. 2 * NR_CONSOLES /\ 0 \in Line
  <2>1. NR_CONSOLES \in Nat /\ c \in Nat /\ 2 * c + 1 \in 0 .. 2 * NR_CONSOLES - 1
    BY Params, Places
  <2> QED
    BY <1>3, <1>5, <2>1, Params
<1>8. PICK back : back = IF task.after = "answer" THEN [task EXCEPT !.ctty = 0]
                         ELSE [task EXCEPT !.pos = task.pos + 1, !.ctty = 0, !.after = "scan"]
  OBVIOUS
<1>9. /\ back \in Tasks /\ back.after = task.after /\ back.msg = task.msg
      /\ task.after = "answer" => back.pos = task.pos
      /\ task.after = "scan" => back.pos = task.pos + 1
  <2>1. CASE task.after = "answer"
    BY <1>2, <1>7, <1>8, <2>1 DEF Tasks
  <2>2. CASE task.after = "scan"
    BY <1>2, <1>7, <1>8, <2>2 DEF Tasks
  <2> QED
    BY <1>2, <2>1, <2>2
<1>10. CASE "READ" \in t.events /\ handle_read(line, task.after)
  <2>1. handle_read(c, task.after)
    BY <1>5, <1>10
  <2>2. PICK a \in {"scan", "answer"} : a = task.after
    BY <1>2
  <2>3. handle_read(c, a)
    BY <2>1, <2>2
  <2>4. a = "scan" /\ ~ wake /\ ~ hard =>
           \A d \in Line : /\ "READ" \in tty[d].events => 2 * d >= 2 * c
                           /\ "WRITE" \in tty[d].events => 2 * d + 1 >= 2 * c
    BY <1>2, <1>3, <1>4, <1>5, <2>2 DEF EventsAhead
  <2> QED
    BY <1>1, <1>4, <1>5, <2>2, <2>3, <2>4, HandleRead
<1>11. CASE /\ "READ" \notin t.events /\ CanTransfer(t) /\ tty' = [tty EXCEPT ![line] = Transferred(t)]
            /\ task' = [back EXCEPT !.at = "send", !.msg = TransferMsg(t), !.next = task.after]
  <2>1. PICK u : u = Transferred(t)
    OBVIOUS
  <2>2. LineRead(t, u)
    BY <1>6, <1>11, <2>1, TransferredIs
  <2>3. /\ u \in Console /\ QueueOK(u) /\ u.events = t.events /\ ~ CanTransfer(u)
        /\ Writable(u) <=> Writable(t)
    BY <2>2, ReadDone
  <2>4. PICK m : m = TransferMsg(t)
    OBVIOUS
  <2>5. m \in Message
    BY <1>6, <2>4 DEF TransferMsg, Message, Console, Status
  <2>6. /\ task' \in Tasks /\ task'.at = "send" /\ task'.next = task.after /\ task'.msg = m
        /\ task'.pos = back.pos
    BY <1>2, <1>9, <1>11, <2>4, <2>5 DEF Tasks
  <2>7. Doing' = task.after
    BY <2>6 DEF Doing, Sending
  <2>8. /\ BaseInv' /\ WakeInv' /\ (Answering' <=> Answering) /\ (Answering => line' = line)
        /\ tty'[line] = u /\ \A d \in Line : d # line => tty'[d] = tty[d]
    <3>1. tty' = [tty EXCEPT ![line] = u] /\ u.events = tty[line].events /\ (Writable(u) => Writable(tty[line]))
          /\ "READ" \notin tty[line].events
      BY <1>5, <1>6, <1>11, <2>1, <2>3
    <3> QED
      BY <1>1, <1>9, <2>3, <2>6, <2>7, <3>1, HandleReadEnds
  <2>9. OweInv'
    <3>1. SameIO(tty[c], t)
      BY <1>6 DEF SameIO
    <3> QED
      BY <1>1, <1>2, <1>5, <1>11, <2>2, <2>4, <2>6, <2>8, <3>1, OweTaken
  <2> QED
    BY <2>8, <2>9 DEF IInv
<1>12. CASE "READ" \notin t.events /\ ~ CanTransfer(t) /\ task' = [back EXCEPT !.at = task.after] /\ UNCHANGED tty
  <2>1. /\ task' \in Tasks /\ task'.at = task.after /\ task'.msg = task.msg /\ task'.pos = back.pos
    BY <1>2, <1>9, <1>12 DEF Tasks
  <2>2. Doing' = task.after /\ ~ Sending'
    BY <1>2, <2>1 DEF Doing, Sending
  <2>3. BaseInv' /\ WakeInv' /\ (Answering' <=> Answering) /\ (Answering => line' = line)
    <3>1. tty' = [tty EXCEPT ![line] = t] /\ t.events = tty[line].events /\ (Writable(t) => Writable(tty[line]))
          /\ "READ" \notin tty[line].events
      BY <1>2, <1>5, <1>6, <1>12 DEF BaseInv
    <3> QED
      BY <1>1, <1>2, <1>6, <1>9, <1>12, <2>1, <2>2, <3>1, HandleReadEnds
  <2>4. OweInv'
    BY <1>1, <1>2, <1>12, <2>1, <2>2, <2>3, OweSame DEF SameIO
  <2> QED
    BY <2>3, <2>4 DEF IInv
<1>13. /\ IF "READ" \in t.events
          THEN handle_read(line, task.after)
          ELSE IF CanTransfer(t)
          THEN /\ tty' = [tty EXCEPT ![line] = Transferred(t)]
               /\ task' = [back EXCEPT !.at = "send", !.msg = TransferMsg(t), !.next = task.after]
          ELSE task' = [back EXCEPT !.at = task.after] /\ UNCHANGED tty
  BY <1>5, <1>6, <1>8 DEF tty_transfer
<1> QED
  BY <1>10, <1>11, <1>12, <1>13

-----------------------------------------------------------------------------
(* Calls.                                                                  *)

(* The main loop starts afresh, or a read of console c begins: no line, no *)
(* output and no event is lost.                                            *)
LEMMA Afresh ==
    ASSUME BaseInv, WakeInv, Doing # "keys", UNCHANGED <<ring, current, wake, suspended, halted>>,
           NEW c \in Line, NEW u \in Console, QueueOK(u), tty' = [tty EXCEPT ![c] = u],
           "READ" \in tty[c].events => "READ" \in u.events, CanTransfer(u) => CanTransfer(tty[c]),
           Writable(u) => Writable(tty[c]) /\ u.events = tty[c].events,
           task' \in Tasks, task'.at # "receive", Doing' \in {"scan", "again"},
           Doing' = "scan" => task'.pos = 0, Doing' = "again" => task'.pos = 2 * c,
           fs' \in FileSystems, hard' \in BOOLEAN
    PROVE  BaseInv' /\ WakeInv' /\ tty'[c] = u /\ \A d \in Line : d # c => tty'[d] = tty[d]
<1>1. /\ tty' \in [Line -> Console] /\ \A d \in Line : QueueOK(tty'[d])
      /\ tty'[c] = u /\ \A d \in Line : d # c => tty'[d] = tty[d]
  BY OneConsole
<1>2. wake' \in BOOLEAN /\ current \in Line
  BY DEF BaseInv
<1>3. Doing' # "keys" /\ (Doing' \in {"keys", "again", "answer"} => \E d \in Line : task'.pos = 2 * d)
  OBVIOUS
<1>4. BaseInv'
  BY <1>1, <1>2, <1>3 DEF BaseInv
<1>5. \A d \in Line : "READ" \in tty[d].events => "READ" \in tty'[d].events
  BY <1>1
<1>6. KeysSeen'
  BY <1>2, <1>3, <1>5 DEF WakeInv, KeysSeen
<1>7. WorkSeen'
  <2> SUFFICES ASSUME NEW d \in Line
               PROVE  /\ CanTransfer(tty'[d]) => "READ" \in tty'[d].events
                      /\ Writable(tty'[d]) => "WRITE" \in tty'[d].events
    BY DEF WorkSeen
  <2>1. /\ CanTransfer(tty[d]) => "READ" \in tty[d].events
        /\ Writable(tty[d]) => "WRITE" \in tty[d].events
    BY DEF WakeInv, WorkSeen
  <2>2. CASE d = c
    BY <1>1, <2>1, <2>2
  <2>3. CASE d # c
    BY <1>1, <2>1, <2>3
  <2> QED
    BY <2>2, <2>3
<1>8. EventsAhead'
  <2> SUFFICES ASSUME ~ Answering', NEW d \in Line PROVE 2 * d >= task'.pos /\ 2 * d + 1 >= task'.pos
    BY DEF EventsAhead
  <2>1. task'.pos = 0
    BY DEF Answering
  <2>2. d \in Nat
    BY Params
  <2> QED
    BY ONLY <2>1, <2>2
<1> QED
  BY <1>1, <1>4, <1>6, <1>7, <1>8 DEF WakeInv

(* What the task's record is after an answer, and when it starts afresh.   *)
LEMMA AnswerIs ==
    ASSUME NEW p \in Proc, NEW status \in Status, Answer(p, status)
    PROVE  /\ task' \in Tasks /\ task'.at = "send" /\ task'.next = "scan" /\ task'.pos = 0
           /\ task'.msg = [code |-> "TASK_REPLY", proc |-> p, status |-> status]
           /\ task'.msg.proc = p /\ task'.msg.code = "TASK_REPLY" /\ task'.msg.status = status
           /\ Doing' = "scan" /\ ~ Answering'
<1>1. PICK m : m = [code |-> "TASK_REPLY", proc |-> p, status |-> status]
  OBVIOUS
<1>2. m \in Message /\ m.proc = p /\ m.code = "TASK_REPLY" /\ m.status = status
  BY <1>1 DEF Message, Codes, Caller
<1>3. 0 \in 0 .. 2 * NR_CONSOLES /\ 0 \in Line
  BY Params
<1>4. task' = [at |-> "send", pos |-> 0, ctty |-> 0, after |-> "scan", msg |-> m, next |-> "scan"]
  BY <1>1 DEF Answer, Scan
<1>5. task' \in Tasks /\ task'.at = "send" /\ task'.next = "scan" /\ task'.pos = 0 /\ task'.msg = m
  BY <1>2, <1>3, <1>4 DEF Tasks
<1>6. Doing' = "scan" /\ ~ Answering'
  BY <1>5 DEF Doing, Sending, Answering
<1> QED
  BY <1>1, <1>2, <1>5, <1>6

(* The main loop starts afresh.                                            *)
LEMMA ScanIs ==
    ASSUME task' = Scan
    PROVE  /\ task' \in Tasks /\ task'.at = "scan" /\ task'.pos = 0 /\ task'.msg = NoMsg
           /\ Doing' = "scan" /\ ~ Answering' /\ ~ Sending'
<1>1. NoMsg \in Message
  BY DEF NoMsg, Message, Codes, Caller, Status
<1>2. 0 \in 0 .. 2 * NR_CONSOLES /\ 0 \in Line
  BY Params
<1>3. task' = [at |-> "scan", pos |-> 0, ctty |-> 0, after |-> "scan", msg |-> NoMsg, next |-> "scan"]
  BY DEF Scan
<1>4. task' \in Tasks /\ task'.at = "scan" /\ task'.pos = 0 /\ task'.msg = NoMsg
  BY <1>1, <1>2, <1>3 DEF Tasks
<1> QED
  BY <1>4 DEF Doing, Sending, Answering

(* tty_hard_int: the events are looked at from the first.                  *)
LEMMA HardInt == IInv /\ tty_hard_int => IInv'
<1> SUFFICES ASSUME IInv, tty_hard_int PROVE IInv'
  OBVIOUS
<1>1. /\ halted = "no" /\ task.at = "receive" /\ task' = Scan /\ hard' = FALSE
      /\ UNCHANGED <<ring, tty, current, wake, fs, suspended, halted>>
  BY DEF tty_hard_int, At, RunningSystem, Quiet
<1>2. /\ BaseInv /\ WakeInv /\ OweInv /\ CallsHeld /\ ~ Sending /\ ~ Answering /\ Doing = "receive"
      /\ fs \in FileSystems /\ 0 \in Line
  BY <1>1, Params DEF IInv, OweInv, BaseInv, Sending, Answering, Doing
<1>3. /\ task' \in Tasks /\ task'.at = "scan" /\ task'.pos = 0 /\ task'.msg = NoMsg
      /\ Doing' = "scan" /\ ~ Answering' /\ ~ Sending'
  BY <1>1, ScanIs
<1>4. BaseInv' /\ WakeInv'
  <2>1. tty[0] \in Console /\ QueueOK(tty[0]) /\ tty' = [tty EXCEPT ![0] = tty[0]] /\ hard' \in BOOLEAN
    BY <1>1, <1>2 DEF BaseInv
  <2> QED
    BY <1>1, <1>2, <1>3, <2>1, Afresh
<1>5. OweInv'
  <2>1. task.msg = NoMsg
    BY <1>2 DEF CallsHeld
  <2> QED
    BY <1>1, <1>2, <1>3, <2>1, OweSame DEF SameIO
<1> QED
  BY <1>4, <1>5 DEF IInv

(* do_read_again.                                                          *)
LEMMA ReadAgain == IInv /\ do_read_again => IInv'
<1> SUFFICES ASSUME IInv, do_read_again PROVE IInv'
  OBVIOUS
<1>1. /\ halted = "no" /\ task.at = "again" /\ handle_read(line, "answer")
      /\ UNCHANGED <<ring, current, wake, hard, fs, suspended, halted>>
  BY DEF do_read_again, At, RunningSystem, Quiet
<1>2. BaseInv /\ Answering /\ Doing = "again"
  BY <1>1 DEF IInv, Sending, Doing, Answering
<1>3. PICK c \in Line : c = line
  BY <1>2, LineIs
<1>4. handle_read(c, "answer")
  BY <1>1, <1>3
<1> QED
  BY <1>1, <1>2, <1>3, <1>4, HandleRead

(* What the end of a refused or a suspended read leaves of its console.    *)
LEMMA ReadEnds ==
    ASSUME NEW t \in Console, QueueOK(t)
    PROVE  /\ LineRead(t, NotReading(t))
           /\ [t EXCEPT !.in_code = "REVIVE"] \in Console /\ QueueOK([t EXCEPT !.in_code = "REVIVE"])
           /\ CanTransfer([t EXCEPT !.in_code = "REVIVE"]) <=> CanTransfer(t)
           /\ Writable([t EXCEPT !.in_code = "REVIVE"]) <=> Writable(t)
<1>1. LineRead(t, NotReading(t))
  <2>1. PICK u : u = [t EXCEPT !.in_left = 0, !.in_proc = NoOne, !.in_code = "none"]
    OBVIOUS
  <2>2. /\ u \in Console /\ u.queue = t.queue /\ u.eot_count = t.eot_count
        /\ u.in_left = 0 /\ u.in_proc = NoOne /\ u.in_code = "none"
        /\ u.out_left = t.out_left /\ u.out_proc = t.out_proc /\ u.out_code = t.out_code
        /\ u.events = t.events
    BY <2>1 DEF Console, Caller, Codes
  <2>3. u.inhibited = t.inhibited
    BY <2>1 DEF Console
  <2> QED
    BY <2>1, <2>2, <2>3 DEF LineRead, NotReading, QueueOK
<1>2. PICK u : u = [t EXCEPT !.in_code = "REVIVE"]
  OBVIOUS
<1>3. u \in Console /\ u.queue = t.queue /\ u.eot_count = t.eot_count /\ u.in_left = t.in_left
      /\ u.out_left = t.out_left
  BY <1>2 DEF Console, Codes
<1>4. u.inhibited = t.inhibited
  BY <1>2 DEF Console
<1> QED
  BY <1>1, <1>2, <1>3, <1>4 DEF QueueOK, CanTransfer, Writable

(* do_read_answer.                                                         *)
LEMMA ReadAnswer == IInv /\ do_read_answer => IInv'
<1> SUFFICES ASSUME IInv, do_read_answer PROVE IInv'
  OBVIOUS
<1>1. /\ halted = "no" /\ task.at = "answer"
      /\ UNCHANGED <<ring, current, wake, hard, fs, suspended, halted>>
  BY DEF do_read_answer, At, RunningSystem, Quiet
<1>2. /\ BaseInv /\ WakeInv /\ OweInv /\ CallsHeld /\ ~ Sending /\ Answering /\ Doing = "answer"
      /\ fs \in FileSystems /\ hard' \in BOOLEAN
  BY <1>1 DEF IInv, OweInv, BaseInv, Sending, Answering, Doing
<1>3. PICK c \in Line : c = line
  BY <1>2, LineIs
<1>4. PICK t \in Console : t = tty[c] /\ QueueOK(t)
  BY <1>2 DEF BaseInv
<1>5. \/ t.in_left = 0 /\ task' = Scan /\ UNCHANGED tty
      \/ /\ t.in_left > 0 /\ tty' = [tty EXCEPT ![c] = NotReading(t)] /\ Answer(t.in_proc, "error")
      \/ /\ t.in_left > 0 /\ tty' = [tty EXCEPT ![c] = [t EXCEPT !.in_code = "REVIVE"]]
         /\ Answer(t.in_proc, "SUSPEND")
  BY <1>3, <1>4 DEF do_read_answer
<1>6. LineRead(t, NotReading(t))
  BY <1>4, ReadEnds
<1>7. t.in_left > 0 => t.in_proc \in Proc /\ t.in_code = "TASK_REPLY"
  BY <1>2, <1>3, <1>4 DEF CallsHeld
<1>8. CASE t.in_left = 0 /\ task' = Scan /\ UNCHANGED tty
  <2>1. /\ task' \in Tasks /\ task'.at = "scan" /\ task'.pos = 0 /\ task'.msg = NoMsg
        /\ Doing' = "scan" /\ ~ Answering' /\ ~ Sending'
    BY <1>8, ScanIs
  <2>2. tty' = [tty EXCEPT ![c] = t]
    BY <1>2, <1>4, <1>8 DEF BaseInv
  <2>3. BaseInv' /\ WakeInv'
    BY <1>1, <1>2, <1>4, <2>1, <2>2, Afresh
  <2>4. OweInv'
    BY <1>1, <1>2, <1>3, <1>4, <1>8, <2>1, OweLeft
  <2> QED
    BY <2>3, <2>4 DEF IInv
<1>9. CASE t.in_left > 0 /\ tty' = [tty EXCEPT ![c] = NotReading(t)] /\ Answer(t.in_proc, "error")
  <2>1. PICK p \in Proc : p = t.in_proc
    BY <1>7, <1>9
  <2>2. /\ task' \in Tasks /\ task'.at = "send" /\ task'.next = "scan" /\ task'.pos = 0
        /\ task'.msg.proc = p /\ task'.msg.code = "TASK_REPLY" /\ task'.msg.status = "error"
        /\ Doing' = "scan" /\ ~ Answering'
    <3>1. Answer(p, "error") /\ "error" \in Status
      BY <1>9, <2>1 DEF Status
    <3> QED
      BY <3>1, AnswerIs
  <2>3. PICK u : u = NotReading(t)
    OBVIOUS
  <2>4. LineRead(t, u)
    BY <1>6, <2>3
  <2>5. /\ u \in Console /\ QueueOK(u) /\ u.events = t.events /\ ~ CanTransfer(u)
        /\ Writable(u) <=> Writable(t)
    BY <2>4, ReadDone
  <2>6. tty' = [tty EXCEPT ![c] = u]
    BY <1>9, <2>3
  <2>7. BaseInv' /\ WakeInv' /\ tty'[c] = u /\ \A d \in Line : d # c => tty'[d] = tty[d]
    BY <1>1, <1>2, <1>4, <2>2, <2>5, <2>6, Afresh
  <2>8. OweInv'
    <3>1. InGone(c, p) /\ tty[c].in_left > 0 /\ tty[c].in_code = "TASK_REPLY"
      BY <1>4, <1>7, <1>9, <2>1, <2>4, <2>7 DEF InGone, Reads, LineRead
    <3>2. \A d \in Line : d # c => SameIO(tty[d], tty'[d])
      BY <2>7 DEF SameIO
    <3> QED
      BY <1>1, <1>2, <2>2, <3>1, <3>2, OweReply
  <2> QED
    BY <2>7, <2>8 DEF IInv
<1>10. CASE /\ t.in_left > 0 /\ tty' = [tty EXCEPT ![c] = [t EXCEPT !.in_code = "REVIVE"]]
            /\ Answer(t.in_proc, "SUSPEND")
  <2>1. PICK p \in Proc : p = t.in_proc
    BY <1>7, <1>10
  <2>2. /\ task' \in Tasks /\ task'.at = "send" /\ task'.next = "scan" /\ task'.pos = 0
        /\ task'.msg = [code |-> "TASK_REPLY", proc |-> p, status |-> "SUSPEND"]
        /\ Doing' = "scan" /\ ~ Answering'
    <3>1. Answer(p, "SUSPEND") /\ "SUSPEND" \in Status
      BY <1>10, <2>1 DEF Status
    <3> QED
      BY <3>1, AnswerIs
  <2>3. PICK u : u = [t EXCEPT !.in_code = "REVIVE"]
    OBVIOUS
  <2>4. u \in Console /\ QueueOK(u) /\ (CanTransfer(u) <=> CanTransfer(t)) /\ (Writable(u) <=> Writable(t))
    BY <1>4, <2>3, ReadEnds
  <2>5. /\ u.events = t.events /\ u.in_left = t.in_left /\ u.in_proc = t.in_proc /\ u.in_code = "REVIVE"
        /\ u.out_left = t.out_left /\ u.out_proc = t.out_proc /\ u.out_code = t.out_code
    BY <2>3 DEF Console
  <2>6. tty' = [tty EXCEPT ![c] = u]
    BY <1>10, <2>3
  <2>7. BaseInv' /\ WakeInv' /\ tty'[c] = u /\ \A d \in Line : d # c => tty'[d] = tty[d]
    BY <1>1, <1>2, <1>4, <2>2, <2>4, <2>5, <2>6, Afresh
  <2>8. OweInv'
    <3>1. Reads(tty[c], p)
      BY <1>4, <1>10, <2>1 DEF Reads
    <3>2. \A d \in Line : d # c => SameIO(tty[d], tty'[d])
      BY <2>7 DEF SameIO
    <3>3. /\ tty'[c].in_left = tty[c].in_left /\ tty'[c].in_proc = p /\ tty'[c].in_code = "REVIVE"
          /\ tty'[c].out_left = tty[c].out_left /\ tty'[c].out_proc = tty[c].out_proc
          /\ tty'[c].out_code = tty[c].out_code
      BY <1>4, <2>1, <2>5, <2>7
    <3> QED
      BY <1>1, <1>2, <1>3, <2>2, <3>1, <3>2, <3>3, OweSuspend
  <2> QED
    BY <2>7, <2>8 DEF IInv
<1> QED
  BY <1>5, <1>8, <1>9, <1>10

-----------------------------------------------------------------------------
(* A call that is answered without a change, or whose write is done,       *)
(* refused or kept: in_left and the line for the reader are as before.     *)
LEMMA CallAnswered ==
    ASSUME IInv, halted = "no", UNCHANGED <<ring, current, wake, hard, suspended, halted>>,
           task.at = "receive", fs.at = "sending", fs' = [fs EXCEPT !.at = "await"],
           NEW c \in Line, NEW p \in Proc, p = fs.req.proc, NEW u \in Console, QueueOK(u),
           tty' = [tty EXCEPT ![c] = u],
           "READ" \in tty[c].events => "READ" \in u.events, CanTransfer(u) => CanTransfer(tty[c]),
           Writable(u) => Writable(tty[c]) /\ u.events = tty[c].events,
           u.in_left = tty[c].in_left, u.in_proc = tty[c].in_proc, u.in_code = tty[c].in_code,
           NEW status \in Status, Answer(p, status),
           \/ status # "SUSPEND" /\ SameOut(tty[c], u)
           \/ status = "SUSPEND" /\ tty[c].out_left = 0 /\ u.out_left > 0 /\ u.out_proc = p /\ u.out_code = "REVIVE"
    PROVE  IInv'
<1>1. /\ BaseInv /\ WakeInv /\ OweInv /\ Doing = "receive" /\ fs' \in FileSystems /\ hard' \in BOOLEAN
  BY DEF IInv, BaseInv, Sending, Doing, FileSystems
<1>2. /\ task' \in Tasks /\ task'.at = "send" /\ task'.next = "scan" /\ task'.pos = 0
      /\ task'.msg.proc = p /\ task'.msg.code = "TASK_REPLY" /\ task'.msg.status = status
      /\ Doing' = "scan" /\ ~ Answering'
  BY AnswerIs
<1>3. BaseInv' /\ WakeInv' /\ tty'[c] = u /\ \A d \in Line : d # c => tty'[d] = tty[d]
  BY <1>1, <1>2, Afresh
<1>4. \A d \in Line : SameIn(tty[d], tty'[d])
  BY <1>3 DEF SameIn
<1>5. \A d \in Line : d # c => SameOut(tty[d], tty'[d])
  BY <1>3 DEF SameOut
<1>6. \/ task'.msg.status # "SUSPEND" /\ SameOut(tty[c], tty'[c])
      \/ /\ task'.msg.status = "SUSPEND" /\ tty[c].out_left = 0
         /\ tty'[c].out_left > 0 /\ tty'[c].out_proc = p /\ tty'[c].out_code = "REVIVE"
  BY <1>2, <1>3
<1>7. OweInv'
  BY <1>1, <1>2, <1>4, <1>5, <1>6, OweAnswer
<1> QED
  BY <1>3, <1>7 DEF IInv

(* do_write.                                                               *)
LEMMA WriteCall ==
    ASSUME IInv, halted = "no", UNCHANGED <<ring, current, wake, hard, suspended, halted>>,
           task.at = "receive", fs.at = "sending", fs' = [fs EXCEPT !.at = "await"],
           NEW req, req = fs.req, req.proc \in Proc, req.line \in Line, do_write(req)
    PROVE  IInv'
<1>1. PICK c \in Line : c = req.line
  OBVIOUS
<1>2. PICK p \in Proc : p = req.proc
  OBVIOUS
<1>3. PICK t \in Console : t = tty[c] /\ QueueOK(t) /\ tty \in [Line -> Console]
  BY DEF IInv, BaseInv
<1>4. PICK S \in SUBSET {"READ", "WRITE"} : S = t.events \ {"WRITE"}
  BY DEF Console
<1>5. PICK u : u = [t EXCEPT !.events = S]
  OBVIOUS
<1>6. /\ u \in Console /\ QueueOK(u) /\ SameIO(t, u) /\ u.events = S
      /\ CanTransfer(u) <=> CanTransfer(t)
      /\ Writable(u) <=> Writable(t)
  BY ONLY <1>3, <1>5, EventsOnly, t \in Console, S \in SUBSET {"READ", "WRITE"}
<1>7. "READ" \in t.events => "READ" \in S
  BY <1>4
<1>8. PICK w : w = [u EXCEPT !.out_left = 1, !.out_proc = p, !.out_code = "REVIVE"]
  OBVIOUS
<1>9. /\ w \in Console /\ w.queue = u.queue /\ w.eot_count = u.eot_count /\ w.events = u.events
      /\ w.in_left = u.in_left /\ w.in_proc = u.in_proc /\ w.in_code = u.in_code
      /\ w.out_left = 1 /\ w.out_proc = p /\ w.out_code = "REVIVE"
  BY <1>6, <1>8 DEF Console, Caller, Codes
<1>10. w.inhibited = t.inhibited
  <2>1. w.inhibited = u.inhibited
    BY <1>6, <1>8 DEF Console
  <2>2. u.inhibited = t.inhibited
    BY <1>5 DEF Console
  <2> QED
    BY <2>1, <2>2
<1>11. \/ t.out_left > 0 /\ Answer(p, "error") /\ UNCHANGED tty
       \/ /\ t.out_left = 0 /\ tty' = [tty EXCEPT ![c] = u] /\ Answer(p, "done")
       \/ /\ t.out_left = 0 /\ tty' = [tty EXCEPT ![c] = u] /\ Answer(p, "error")
       \/ /\ t.out_left = 0 /\ t.inhibited /\ tty' = [tty EXCEPT ![c] = w] /\ Answer(p, "SUSPEND")
  <2>1. u = [tty[req.line] EXCEPT !.events = @ \ {"WRITE"}]
    BY <1>1, <1>3, <1>4, <1>5
  <2> QED
    BY <1>1, <1>2, <1>3, <1>8, <2>1 DEF do_write
<1>12. p = fs.req.proc /\ "done" \in Status /\ "error" \in Status /\ "SUSPEND" \in Status
  BY <1>2 DEF Status
<1>13. CASE t.out_left > 0 /\ Answer(p, "error") /\ UNCHANGED tty
  <2>1. tty' = [tty EXCEPT ![c] = t] /\ SameOut(tty[c], t)
    BY <1>3, <1>13 DEF SameOut
  <2> QED
    BY <1>3, <1>12, <1>13, <2>1, CallAnswered
<1>14. ASSUME t.out_left = 0, tty' = [tty EXCEPT ![c] = u], NEW status \in {"done", "error"}, Answer(p, status)
       PROVE  IInv'
  <2>1. ~ Writable(u) /\ SameOut(tty[c], u) /\ u.in_left = tty[c].in_left /\ u.in_proc = tty[c].in_proc
        /\ u.in_code = tty[c].in_code
    BY <1>3, <1>6, <1>14 DEF SameOut, SameIO, Writable
  <2>2. status \in Status /\ status # "SUSPEND"
    BY <1>12
  <2>3. /\ "READ" \in tty[c].events => "READ" \in u.events
        /\ CanTransfer(u) => CanTransfer(tty[c])
    BY <1>3, <1>6, <1>7
  <2> QED
    BY <1>6, <1>12, <1>14, <2>1, <2>2, <2>3, CallAnswered
<1>15. CASE t.out_left = 0 /\ t.inhibited /\ tty' = [tty EXCEPT ![c] = w] /\ Answer(p, "SUSPEND")
  <2>1. ~ Writable(w) /\ QueueOK(w)
    BY <1>6, <1>9, <1>10, <1>15 DEF Writable, QueueOK
  <2>2. /\ "READ" \in tty[c].events => "READ" \in w.events
        /\ CanTransfer(w) => CanTransfer(tty[c])
    BY <1>3, <1>6, <1>7, <1>9 DEF CanTransfer
  <2>3. w.in_left = tty[c].in_left /\ w.in_proc = tty[c].in_proc /\ w.in_code = tty[c].in_code
    BY <1>3, <1>6, <1>9 DEF SameIO
  <2>4. tty[c].out_left = 0 /\ w.out_left > 0
    BY <1>3, <1>9, <1>15
  <2> QED
    BY <1>9, <1>12, <1>15, <2>1, <2>2, <2>3, <2>4, CallAnswered
<1> QED
  BY <1>11, <1>13, <1>14, <1>15

(* do_read.                                                                *)
LEMMA ReadCall ==
    ASSUME IInv, halted = "no", UNCHANGED <<ring, current, wake, hard, suspended, halted>>,
           task.at = "receive", fs.at = "sending", fs' = [fs EXCEPT !.at = "await"],
           NEW req, req = fs.req, req.proc \in Proc, req.line \in Line, req.count \in Counts, do_read(req)
    PROVE  IInv'
<1>1. PICK c \in Line : c = req.line
  OBVIOUS
<1>2. PICK p \in Proc : p = req.proc /\ p = fs.req.proc
  OBVIOUS
<1>3. PICK t \in Console : t = tty[c] /\ QueueOK(t) /\ tty \in [Line -> Console]
  BY DEF IInv, BaseInv
<1>4. /\ BaseInv /\ WakeInv /\ OweInv /\ CallsHeld /\ Doing = "receive" /\ fs' \in FileSystems
      /\ hard' \in BOOLEAN
  BY DEF IInv, OweInv, BaseInv, Sending, Doing, FileSystems
<1>5. PICK u : u = [t EXCEPT !.in_left = req.count, !.in_proc = p, !.in_code = "TASK_REPLY"]
  OBVIOUS
<1>6. /\ u \in Console /\ u.queue = t.queue /\ u.eot_count = t.eot_count /\ u.events = t.events
      /\ u.in_left = req.count /\ u.in_proc = p /\ u.in_code = "TASK_REPLY"
      /\ u.out_left = t.out_left /\ u.out_proc = t.out_proc /\ u.out_code = t.out_code
  BY <1>5 DEF Console, Caller, Codes
<1>7. u.inhibited = t.inhibited
  BY <1>5 DEF Console
<1>8. QueueOK(u) /\ (Writable(u) <=> Writable(t)) /\ SameOut(t, u)
  BY <1>3, <1>6, <1>7 DEF QueueOK, Writable, SameOut
<1>9. PICK pos : pos = 2 * c
  OBVIOUS
<1>10. pos \in 0 .. 2 * NR_CONSOLES /\ 0 \in Line
  <2>1. pos \in 0 .. 2 * NR_CONSOLES - 1 /\ NR_CONSOLES \in Nat
    BY <1>9, Places, Params
  <2> QED
    BY <2>1, Params
<1>11. PICK again : again = [Scan EXCEPT !.at = "again", !.pos = pos]
  OBVIOUS
<1>12. again = [at |-> "again", pos |-> pos, ctty |-> 0, after |-> "scan", msg |-> NoMsg, next |-> "scan"]
  BY <1>11 DEF Scan
<1>13. again \in Tasks
  <2>1. NoMsg \in Message
    BY DEF NoMsg, Message, Codes, Caller, Status
  <2> QED
    BY <1>10, <1>12, <2>1 DEF Tasks
<1>14. \/ (t.in_left > 0 \/ req.count = 0) /\ Answer(p, "error") /\ UNCHANGED tty
       \/ /\ t.in_left = 0 /\ req.count > 0 /\ CanTransfer(u)
          /\ tty' = [tty EXCEPT ![c] = Transferred(u)]
          /\ task' = [again EXCEPT !.at = "send", !.msg = TransferMsg(u), !.next = "again"]
       \/ /\ t.in_left = 0 /\ req.count > 0 /\ ~ CanTransfer(u)
          /\ tty' = [tty EXCEPT ![c] = u] /\ task' = again
  <2>1. u = [tty[req.line] EXCEPT !.in_left = req.count, !.in_proc = req.proc, !.in_code = "TASK_REPLY"]
    BY <1>1, <1>2, <1>3, <1>5
  <2>2. again = [Scan EXCEPT !.at = "again", !.pos = 2 * req.line]
    BY <1>1, <1>9, <1>11
  <2> QED
    BY <1>1, <1>2, <1>3, <2>1, <2>2 DEF do_read
<1>15. CASE (t.in_left > 0 \/ req.count = 0) /\ Answer(p, "error") /\ UNCHANGED tty
  <2>1. tty' = [tty EXCEPT ![c] = t] /\ SameOut(tty[c], t) /\ "error" \in Status
    BY <1>3, <1>15 DEF SameOut, Status
  <2> QED
    BY <1>2, <1>3, <1>15, <2>1, CallAnswered
<1>16. CASE /\ t.in_left = 0 /\ req.count > 0 /\ CanTransfer(u)
            /\ tty' = [tty EXCEPT ![c] = Transferred(u)]
            /\ task' = [again EXCEPT !.at = "send", !.msg = TransferMsg(u), !.next = "again"]
  <2>1. PICK v : v = Transferred(u)
    OBVIOUS
  <2>2. LineRead(u, v)
    BY <1>6, <1>8, <1>16, <2>1, TransferredIs
  <2>3. /\ v \in Console /\ QueueOK(v) /\ v.events = u.events /\ ~ CanTransfer(v)
        /\ Writable(v) <=> Writable(u)
    BY <2>2, ReadDone
  <2>4. PICK m : m = TransferMsg(u)
    OBVIOUS
  <2>5. m \in Message /\ m.proc = p /\ m.code = "TASK_REPLY" /\ m.status # "SUSPEND"
    BY <1>6, <2>4 DEF TransferMsg, Message, Codes, Caller, Status
  <2>6. /\ task' \in Tasks /\ task'.at = "send" /\ task'.next = "again" /\ task'.msg = m
        /\ task'.pos = pos
    BY <1>12, <1>13, <1>16, <2>4, <2>5 DEF Tasks
  <2>7. Doing' = "again" /\ line' = c
    <3>1. (2 * c) \div 2 = c
      BY Places
    <3> QED
      BY <1>9, <2>6, <3>1 DEF Doing, Sending, line
  <2>8. BaseInv' /\ WakeInv' /\ tty'[c] = v /\ \A d \in Line : d # c => tty'[d] = tty[d]
    <3>1. tty' = [tty EXCEPT ![c] = v] /\ v.events = tty[c].events /\ (Writable(v) => Writable(tty[c]))
      BY <1>3, <1>6, <1>8, <1>16, <2>1, <2>3
    <3> QED
      BY <1>4, <1>9, <2>3, <2>6, <2>7, <3>1, Afresh
  <2>9. OweInv'
    <3>1. SameIn(tty[c], v) /\ SameOut(tty[c], v) /\ v.in_left = 0
      BY <1>3, <1>6, <1>16, <2>2 DEF SameIn, SameOut, LineRead
    <3>2. \A d \in Line : SameIn(tty[d], tty'[d])
      BY <2>8, <3>1 DEF SameIn
    <3>3. \A d \in Line : d # c => SameOut(tty[d], tty'[d])
      BY <2>8 DEF SameOut
    <3>4. task'.msg.proc = p /\ task'.msg.code = "TASK_REPLY" /\ task'.msg.status # "SUSPEND"
      BY <2>5, <2>6
    <3>5. SameOut(tty[c], tty'[c]) /\ tty'[line'].in_left = 0
      BY <2>7, <2>8, <3>1
    <3> QED
      BY <1>2, <1>4, <2>6, <3>2, <3>3, <3>4, <3>5, OweAnswer
  <2> QED
    BY <2>8, <2>9 DEF IInv
<1>17. CASE /\ t.in_left = 0 /\ req.count > 0 /\ ~ CanTransfer(u)
            /\ tty' = [tty EXCEPT ![c] = u] /\ task' = again
  <2>1. task' \in Tasks /\ task'.at = "again" /\ task'.pos = pos /\ task'.msg = NoMsg
    BY <1>12, <1>13, <1>17
  <2>2. Doing' = "again" /\ line' = c
    <3>1. (2 * c) \div 2 = c
      BY Places
    <3> QED
      BY <1>9, <2>1, <3>1 DEF Doing, Sending, line
  <2>3. BaseInv' /\ WakeInv' /\ tty'[c] = u /\ \A d \in Line : d # c => tty'[d] = tty[d]
    <3>1. u.events = tty[c].events /\ (Writable(u) => Writable(tty[c]))
      BY <1>3, <1>6, <1>8
    <3> QED
      BY <1>4, <1>6, <1>8, <1>9, <1>17, <2>1, <2>2, <3>1, Afresh
  <2>4. OweInv'
    <3>1. tty[c].in_left = 0 /\ Reads(tty'[c], p) /\ tty'[c].in_code = "TASK_REPLY" /\ SameOut(tty[c], tty'[c])
      BY <1>3, <1>6, <1>8, <1>17, <2>3 DEF Reads
    <3>2. \A d \in Line : d # c => SameIO(tty[d], tty'[d])
      BY <2>3 DEF SameIO
    <3> QED
      BY <1>2, <1>4, <2>1, <2>2, <3>1, <3>2, OweWaits
  <2> QED
    BY <2>3, <2>4 DEF IInv
<1> QED
  BY <1>14, <1>15, <1>16, <1>17

(* tty_receive.                                                            *)
LEMMA TtyReceive == IInv /\ tty_receive => IInv'
<1> SUFFICES ASSUME IInv, tty_receive PROVE IInv'
  OBVIOUS
<1>1. PICK req : req = fs.req
  OBVIOUS
<1>2. /\ halted = "no" /\ task.at = "receive" /\ fs.at = "sending" /\ fs' = [fs EXCEPT !.at = "await"]
      /\ UNCHANGED <<ring, current, wake, hard, suspended, halted>>
      /\ \/ req.kind = "open"  /\ do_open(req)
         \/ req.kind = "read"  /\ do_read(req)
         \/ req.kind = "write" /\ do_write(req)
  BY <1>1 DEF tty_receive, At, RunningSystem
<1>3. BaseInv /\ CallsHeld /\ 0 \in Line
  BY <1>2, Params DEF IInv, OweInv
<1>4. req \in Request \cup {NoReq} /\ req # NoReq
  BY <1>1, <1>2, <1>3 DEF CallsHeld, BaseInv, FileSystems
<1>5. req.proc \in Proc /\ req.line \in Line /\ (req.kind = "read" => req.count \in Counts)
  BY <1>4, Requests
<1>6. CASE do_open(req)
  <2>1. PICK p \in Proc : p = req.proc
    BY <1>5
  <2>2. PICK t \in Console : t = tty[0] /\ QueueOK(t) /\ tty \in [Line -> Console]
    BY <1>3 DEF BaseInv
  <2>3. tty' = [tty EXCEPT ![0] = t] /\ Answer(p, "done") /\ "done" \in Status /\ SameOut(tty[0], t)
    BY <1>3, <1>6, <2>1, <2>2 DEF do_open, SameOut, Status
  <2>4. p = fs.req.proc
    BY <1>1, <2>1
  <2> QED
    BY <1>2, <1>3, <2>2, <2>3, <2>4, CallAnswered
<1>7. CASE req.kind = "read" /\ do_read(req)
  BY <1>1, <1>2, <1>5, <1>7, ReadCall
<1>8. CASE do_write(req)
  BY <1>1, <1>2, <1>5, <1>8, WriteCall
<1> QED
  BY <1>2, <1>6, <1>7, <1>8

-----------------------------------------------------------------------------
(* The invariant holds at first.                                           *)
LEMMA InitIInv == Init => IInv
<1> SUFFICES ASSUME Init PROVE IInv
  OBVIOUS
<1>1. /\ ring = << >> /\ current = 0 /\ wake = FALSE /\ hard = FALSE /\ tty = [c \in Line |-> Idle]
      /\ task = Receive /\ fs = Free /\ suspended = [p \in Proc |-> FALSE] /\ halted = "no"
  BY DEF Init
<1>2. /\ task.at = "receive" /\ task.pos = 0 /\ task.msg = NoMsg /\ task \in Tasks
  <2>1. NoMsg \in Message
    BY DEF NoMsg, Message, Codes, Caller, Status
  <2>2. 0 \in 0 .. 2 * NR_CONSOLES /\ 0 \in Line
    BY Params
  <2>3. task = [at |-> "receive", pos |-> 0, ctty |-> 0, after |-> "scan", msg |-> NoMsg, next |-> "scan"]
    BY <1>1 DEF Receive, Scan
  <2> QED
    BY <2>1, <2>2, <2>3 DEF Tasks
<1>3. ~ Sending /\ Doing = "receive" /\ ~ Answering
  BY <1>2 DEF Sending, Doing, Answering
<1>4. fs.at = "receive" /\ fs.req = NoReq /\ fs.req.proc = NoOne /\ fs \in FileSystems
  BY <1>1 DEF Free, NoReq, FileSystems, Status
<1>5. Idle \in Console /\ QueueOK(Idle) /\ Idle.events = {} /\ Idle.in_left = 0 /\ Idle.out_left = 0
  <2>1. << >> \in Seq(Chars) /\ Len(<< >>) = 0 /\ Ends(<< >>) = {}
    BY DEF Ends
  <2>2. Cardinality(Ends(<< >>)) = 0
    BY <2>1, FS_EmptySet
  <2>3. INPUT \in Nat
    BY Params
  <2>4. Idle.queue = << >> /\ Idle.eot_count = 0 /\ Idle.events = {} /\ Idle.in_left = 0 /\ Idle.out_left = 0
    BY DEF Idle
  <2>5. Idle \in Console
    BY <2>1 DEF Idle, Console, Caller, Codes
  <2> QED
    BY <2>1, <2>2, <2>3, <2>4, <2>5 DEF QueueOK
<1>6. \A c \in Line : tty[c] = Idle
  BY <1>1
<1>7. ~ (0 > 0)
  OBVIOUS
<1>8. BaseInv
  <2>1. ring \in Seq(Key) /\ Len(ring) <= RING /\ current \in Line
    BY <1>1, Params
  <2>2. wake \in BOOLEAN /\ hard \in BOOLEAN /\ suspended \in [Proc -> BOOLEAN]
    BY <1>1
  <2> QED
    BY <1>1, <1>2, <1>3, <1>4, <1>5, <1>6, <2>1, <2>2 DEF BaseInv
<1>9. WakeInv
  <2>1. KeysSeen
    BY <1>1, <1>3 DEF KeysSeen
  <2>2. WorkSeen
    BY <1>5, <1>6, <1>7 DEF WorkSeen, CanTransfer, Writable
  <2>3. EventsAhead
    BY <1>5, <1>6 DEF EventsAhead
  <2> QED
    BY <2>1, <2>2, <2>3 DEF WakeInv
<1>10. \A p \in Proc : OwedNothing(p)
  <2> SUFFICES ASSUME NEW p \in Proc PROVE OwedNothing(p)
    OBVIOUS
  <2>1. \A c \in Line : ~ Reads(tty[c], p) /\ ~ Writes(tty[c], p)
    BY <1>5, <1>6, <1>7 DEF Reads, Writes
  <2>2. MsgOf(task.msg, p) = {}
    BY <1>2, Params DEF MsgOf, NoMsg
  <2> QED
    BY <2>1, <2>2 DEF OwedNothing, OwedOf, InsOf, OutsOf
<1>11. CallsHeld
  BY <1>2, <1>3, <1>4, <1>5, <1>6, <1>7 DEF CallsHeld
<1>12. OthersOwed /\ CallerOwed
  BY <1>1, <1>4, <1>10, Params DEF OthersOwed, CallerOwed
<1> QED
  BY <1>8, <1>9, <1>11, <1>12 DEF IInv, OweInv

(* Every step keeps the invariant.                                         *)
LEMMA NextIInv == IInv /\ [Next]_vars => IInv'
<1> SUFFICES ASSUME IInv, [Next]_vars PROVE IInv'
  OBVIOUS
<1>1. CASE (\E key \in Key : keyboard_handler(key)) \/ tty_wakeup
  BY <1>1, KeySteps
<1>2. CASE (\E req \in Request \cup {NoReq} : fs_receive(req)) \/ FsStep
  BY <1>2, FsSteps DEF FsStep
<1>3. CASE do_revive \/ tty_reply
  BY <1>3, MessageSteps
<1>4. CASE scan
  BY <1>4, ScanStep
<1>5. CASE keyboard_read
  BY <1>5, KeyboardRead
<1>6. CASE tty_transfer
  BY <1>6, TtyTransfer
<1>7. CASE do_read_again \/ do_read_answer
  BY <1>7, ReadAgain, ReadAnswer
<1>8. CASE tty_receive
  BY <1>8, TtyReceive
<1>9. CASE tty_hard_int
  BY <1>9, HardInt
<1>10. CASE UNCHANGED vars
  <2>1. UNCHANGED <<ring, current, wake, hard, tty, task, fs, suspended, halted>>
    BY <1>10 DEF vars
  <2>2. BaseInv' /\ WakeInv' /\ Sending' = Sending /\ Answering' = Answering /\ line' = line
    BY <2>1, FsKeeps DEF IInv, BaseInv
  <2>3. OweInv'
    <3>1. CASE halted = "no"
      BY <2>1, <2>2, <3>1, OweSame DEF IInv, SameIO
    <3>2. CASE halted # "no"
      BY <2>1, <3>2 DEF OweInv
    <3> QED
      BY <3>1, <3>2
  <2> QED
    BY <2>2, <2>3 DEF IInv
<1> QED
  BY <1>1, <1>2, <1>3, <1>4, <1>5, <1>6, <1>7, <1>8, <1>9, <1>10 DEF Next, TtyStep

(* It holds in every state.                                                *)
LEMMA Invariance == Spec => []IInv
BY InitIInv, NextIInv, PTL DEF Spec

-----------------------------------------------------------------------------
(* Every field holds a value of its kind: above all, the ring never holds  *)
(* more than KEYBOARD_IN_BYTES scan codes and a queue never more than      *)
(* TTY_INPUT_BYTES characters.                                             *)
THEOREM TablesInBounds == Spec => []TypeOK
<1>1. IInv => TypeOK
  <2> SUFFICES ASSUME IInv PROVE TypeOK
    OBVIOUS
  <2>1. BaseInv
    BY DEF IInv
  <2>2. \A c \in Line : tty[c] \in Console /\ QueueOK(tty[c])
    BY <2>1 DEF BaseInv
  <2>3. \A c \in Line :
           /\ tty[c].events \subseteq {"READ", "WRITE"}
           /\ tty[c].queue \in Seq({"text", "newline", "eof"}) /\ Len(tty[c].queue) <= INPUT
           /\ tty[c].in_left \in Counts \cup {0} /\ tty[c].out_left \in {0, 1}
    BY <2>2 DEF Console, QueueOK, Chars
  <2>4. fs.at \in {"receive", "work", "sending", "await", "result"} /\ fs.req \in Request \cup {NoReq}
    BY <2>1 DEF BaseInv, FileSystems
  <2>5. wake \in BOOLEAN /\ hard \in BOOLEAN
    BY <2>1 DEF BaseInv
  <2> QED
    BY <2>1, <2>3, <2>4, <2>5 DEF TypeOK, BaseInv
<1> QED
  BY <1>1, Invariance, PTL

(* eot_count, by which in_transfer decides whether a read can be answered, *)
(* is the number of line ends in the queue, however a line was edited,     *)
(* erased or taken.                                                        *)
THEOREM LinesAlwaysCounted == Spec => []EotCounted
<1>1. IInv => EotCounted
  BY DEF IInv, BaseInv, QueueOK, Ends, EotCounted
<1> QED
  BY <1>1, Invariance, PTL

(* A process that the file system has suspended is owed exactly one        *)
(* revival, by one console or by one message, and nobody else is owed one: *)
(* as long as no send failed and no answer was taken for another.          *)
THEOREM OneRevivalEach == Spec => []EveryoneIsOwed
<1>1. IInv => EveryoneIsOwed
  <2> SUFFICES ASSUME IInv, halted = "no", NEW p \in Proc, fs.req.proc # p
               PROVE  Cardinality(Owed(p)) = IF suspended[p] THEN 1 ELSE 0
    BY DEF EveryoneIsOwed
  <2>1. IF suspended[p] THEN OwedOnce(p) ELSE OwedNothing(p)
    BY DEF IInv, OweInv, OthersOwed
  <2>2. Owed(p) = OwedOf(tty, task.msg, p)
    BY OwedIs
  <2>3. CASE suspended[p]
    <3>1. PICK x : Owed(p) = {x}
      BY <2>1, <2>2, <2>3 DEF OwedOnce
    <3>2. Cardinality({x}) = 1
      BY FS_Singleton
    <3> QED
      BY <2>3, <3>1, <3>2
  <2>4. CASE ~ suspended[p]
    <3>1. Owed(p) = {}
      BY <2>1, <2>2, <2>4 DEF OwedNothing
    <3>2. Cardinality({}) = 0
      BY FS_EmptySet
    <3> QED
      BY <2>4, <3>1, <3>2
  <2> QED
    BY <2>3, <2>4
<1> QED
  BY <1>1, Invariance, PTL

(* When the terminal task waits in receive and neither the clock nor an    *)
(* interrupt message is about to wake it, no key is unread, no event is    *)
(* pending, no reader has a whole line and no writer may go on.            *)
THEOREM NothingLeftBehind == Spec => []NothingForgotten
<1>1. IInv => NothingForgotten
  <2> SUFFICES ASSUME IInv, halted = "no", task.at = "receive", ~ hard, ~ wake
               PROVE  /\ ring = << >>
                      /\ \A c \in Line : tty[c].events = {} /\ ~ CanTransfer(tty[c]) /\ ~ Writable(tty[c])
    BY DEF NothingForgotten
  <2>1. Doing = "receive" /\ current \in Line
    BY DEF IInv, BaseInv, Doing, Sending
  <2>2. \A c \in Line : tty[c].events = {}
    BY DEF IInv, WakeInv, EventsAhead
  <2>3. ring = << >>
    BY <2>1, <2>2 DEF IInv, WakeInv, KeysSeen
  <2>4. \A c \in Line : ~ CanTransfer(tty[c]) /\ ~ Writable(tty[c])
    BY <2>1, <2>2 DEF IInv, WakeInv, WorkSeen
  <2> QED
    BY <2>2, <2>3, <2>4
<1> QED
  BY <1>1, Invariance, PTL
=============================================================================
