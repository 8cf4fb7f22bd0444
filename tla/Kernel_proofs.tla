---------------------------- MODULE Kernel_proofs ----------------------------
(***************************************************************************)
(* The invariants of Kernel hold for every machine: any finite or infinite *)
(* set of tasks, servers and user slots.  The inductive invariant IInv     *)
(* joins the invariants that TLC checks with five facts they need: which   *)
(* slot has which priority, exact tail pointers (in GoodRq), that a        *)
(* SEND_REC waits for the process it sends to, that only user processes    *)
(* wait for a memory map, and what holds between the two halves of a       *)
(* SEND_REC.                                                               *)
(***************************************************************************)
EXTENDS Kernel, SequenceTheorems, TLAPS

-----------------------------------------------------------------------------
(* Lists of processes and the ready queue operators                        *)

(* A list of elements of S in which nothing appears twice.                 *)
IsList(q, S) == q \in Seq(S) /\ IsInjective(q)

(* Appending an element that is not on a list.                             *)
LEMMA AppendList ==
    ASSUME NEW S, NEW q, IsList(q, S), NEW x \in S, x \notin ToSet(q)
    PROVE  /\ IsList(Append(q, x), S)
           /\ ToSet(Append(q, x)) = ToSet(q) \cup {x}
           /\ Append(q, x)[Len(Append(q, x))] = x
           /\ q # <<>> => Head(Append(q, x)) = Head(q)
           /\ Append(q, x) # <<>>
<1>1. q \in Seq(S) /\ Len(q) \in Nat /\ DOMAIN q = 1..Len(q)
  BY LenProperties DEF IsList
<1> DEFINE a == Append(q, x)
<1>2. /\ a \in Seq(S) /\ Len(a) = Len(q) + 1 /\ DOMAIN a = 1..Len(q)+1
      /\ \A i \in 1..Len(q) : a[i] = q[i]
      /\ a[Len(q) + 1] = x
  BY <1>1
<1>3. ToSet(a) = ToSet(q) \cup {x}
  BY <1>1, <1>2 DEF ToSet
<1>4. IsInjective(a)
  BY <1>1, <1>2 DEF IsInjective, IsList, ToSet
<1>5. a # <<>> /\ (q # <<>> => Head(a) = Head(q))
  <2>1. Len(a) # 0 /\ Head(a) = a[1] /\ Head(q) = q[1]
    BY <1>1, <1>2
  <2>2. q # <<>> => 1 \in 1..Len(q)
    BY <1>1, EmptySeq
  <2> QED
    BY <2>1, <2>2, <1>2, EmptySeq
<1> QED
  BY <1>2, <1>3, <1>4, <1>5 DEF IsList

(* Removing the element at position i of a list.                           *)
LEMMA RemoveAtList ==
    ASSUME NEW S, NEW q, IsList(q, S), NEW i \in DOMAIN q
    PROVE  /\ IsList(RemoveAt(q, i), S)
           /\ ToSet(RemoveAt(q, i)) = ToSet(q) \ {q[i]}
           /\ Len(RemoveAt(q, i)) = Len(q) - 1
           /\ \A j \in 1..Len(q)-1 : RemoveAt(q, i)[j] = IF j < i THEN q[j] ELSE q[j+1]
<1>1. q \in Seq(S) /\ Len(q) \in Nat /\ DOMAIN q = 1..Len(q) /\ i \in 1..Len(q)
  BY LenProperties DEF IsList
<1> DEFINE s1 == SubSeq(q, 1, i-1)
           s2 == SubSeq(q, i+1, Len(q))
           r  == RemoveAt(q, i)
<1>2. /\ s1 \in Seq(S) /\ Len(s1) = i - 1
      /\ \A j \in 1..i-1 : s1[j] = q[j]
  <2>1. \A j \in 1..i-1 : q[j] \in S
    BY <1>1, ElementOfSeq
  <2> QED
    BY <1>1, <2>1, SubSeqProperties
<1>3. /\ s2 \in Seq(S) /\ Len(s2) = Len(q) - i
      /\ \A j \in 1..Len(q)-i : s2[j] = q[i+j]
  <2>1. \A j \in i+1..Len(q) : q[j] \in S
    BY <1>1, ElementOfSeq
  <2>2. /\ s2 \in Seq(S)
        /\ Len(s2) = IF i+1 <= Len(q) THEN Len(q)-(i+1)+1 ELSE 0
        /\ \A j \in 1..Len(q)-(i+1)+1 : s2[j] = q[i+1+j-1]
    BY <1>1, <2>1, SubSeqProperties
  <2> QED
    BY <1>1, <2>2
<1>4. /\ r \in Seq(S) /\ Len(r) = Len(q) - 1
      /\ \A j \in 1..Len(q)-1 : r[j] = IF j <= i-1 THEN s1[j] ELSE s2[j-(i-1)]
  <2>1. /\ s1 \o s2 \in Seq(S) /\ Len(s1 \o s2) = Len(s1) + Len(s2)
        /\ \A j \in 1..Len(s1)+Len(s2) : (s1 \o s2)[j] =
              IF j <= Len(s1) THEN s1[j] ELSE s2[j - Len(s1)]
    BY <1>2, <1>3, ConcatProperties
  <2>2. Len(s1) + Len(s2) = Len(q) - 1 /\ r = s1 \o s2
    BY <1>1, <1>2, <1>3 DEF RemoveAt
  <2> HIDE DEF s1, s2, r
  <2> QED
    BY <2>1, <2>2, <1>2
<1> HIDE DEF s1, s2, r
<1>5. \A j \in 1..Len(q)-1 : r[j] = IF j < i THEN q[j] ELSE q[j+1]
  <2> TAKE j \in 1..Len(q)-1
  <2>1. CASE j < i
    <3>1. j <= i-1 /\ j \in 1..i-1
      BY <2>1, <1>1
    <3>2. r[j] = s1[j] /\ s1[j] = q[j]
      BY <3>1, <1>2, <1>4
    <3> QED
      BY <2>1, <3>2
  <2>2. CASE ~ (j < i)
    <3>1. j-(i-1) \in 1..Len(q)-i /\ i + (j-(i-1)) = j+1 /\ ~ (j <= i-1)
      BY <2>2, <1>1
    <3>2. r[j] = s2[j-(i-1)]
      BY <3>1, <1>4
    <3>3. s2[j-(i-1)] = q[i + (j-(i-1))]
      BY <3>1, <1>3
    <3> QED
      BY <3>1, <3>2, <3>3, <2>2
  <2> QED
    BY <2>1, <2>2
<1>6. DOMAIN r = 1..Len(q)-1
  BY <1>4, LenProperties
<1>7. IsInjective(r)
  <2> SUFFICES ASSUME NEW a \in 1..Len(q)-1, NEW b \in 1..Len(q)-1, r[a] = r[b]
               PROVE  a = b
    BY <1>6 DEF IsInjective
  <2>1. \A m, n \in 1..Len(q) : q[m] = q[n] => m = n
    BY <1>1 DEF IsInjective, IsList
  <2>2. /\ a \in 1..Len(q) /\ a+1 \in 1..Len(q)
        /\ b \in 1..Len(q) /\ b+1 \in 1..Len(q)
    BY <1>1
  <2>3. r[a] = (IF a < i THEN q[a] ELSE q[a+1]) /\ r[b] = (IF b < i THEN q[b] ELSE q[b+1])
    BY <1>5
  <2>4. \/ q[a] = q[b] /\ a < i /\ b < i
        \/ q[a] = q[b+1] /\ a < i /\ ~ (b < i)
        \/ q[a+1] = q[b] /\ ~ (a < i) /\ b < i
        \/ q[a+1] = q[b+1] /\ ~ (a < i) /\ ~ (b < i)
    BY <2>3
  <2>5. \/ a = b /\ a < i /\ b < i
        \/ a = b+1 /\ a < i /\ ~ (b < i)
        \/ a+1 = b /\ ~ (a < i) /\ b < i
        \/ a+1 = b+1 /\ ~ (a < i) /\ ~ (b < i)
    BY <2>1, <2>2, <2>4
  <2> QED
    BY <2>5, <1>1
<1>8. ToSet(r) = ToSet(q) \ {q[i]}
  <2>1. ASSUME NEW x \in ToSet(r) PROVE x \in ToSet(q) \ {q[i]}
    BY <2>1, <1>1, <1>5, <1>6 DEF ToSet, IsInjective, IsList
  <2>2. ASSUME NEW x \in ToSet(q) \ {q[i]} PROVE x \in ToSet(r)
    <3>1. PICK j \in 1..Len(q) : x = q[j] /\ j # i
      BY <1>1 DEF ToSet
    <3>2. CASE j < i
      BY <3>1, <3>2, <1>1, <1>5, <1>6 DEF ToSet
    <3>3. CASE j > i
      <4>1. j-1 \in 1..Len(q)-1 /\ ~ (j-1 < i) /\ (j-1)+1 = j
        BY <3>1, <3>3, <1>1
      <4>2. r[j-1] = q[j]
        BY <4>1, <1>5
      <4> QED
        BY <4>1, <4>2, <3>1, <1>6 DEF ToSet
    <3> QED
      BY <3>1, <3>2, <3>3, <1>1
  <2> QED
    BY <2>1, <2>2
<1> QED
  BY <1>4, <1>5, <1>7, <1>8 DEF IsList, r

(* Dropping the head of a list.                                            *)
LEMMA TailList ==
    ASSUME NEW S, NEW q, IsList(q, S), q # <<>>
    PROVE  /\ IsList(Tail(q), S)
           /\ ToSet(Tail(q)) = ToSet(q) \ {Head(q)}
           /\ Head(q) \in ToSet(q) /\ Head(q) \in S
           /\ Tail(q) # <<>> => Tail(q)[Len(Tail(q))] = q[Len(q)]
<1>1. q \in Seq(S) /\ Len(q) \in Nat \ {0} /\ DOMAIN q = 1..Len(q)
  BY LenProperties, EmptySeq DEF IsList
<1> DEFINE t == Tail(q)
<1>2. /\ t \in Seq(S) /\ Len(t) = Len(q) - 1 /\ DOMAIN t = 1..Len(q)-1
      /\ \A i \in 1..Len(q)-1 : t[i] = q[i+1]
  BY <1>1, HeadTailProperties, LenProperties
<1>3. Head(q) = q[1] /\ q[1] \in S
  BY <1>1, ElementOfSeq
<1> HIDE DEF t
<1>4. IsInjective(t)
  <2> SUFFICES ASSUME NEW a \in 1..Len(q)-1, NEW b \in 1..Len(q)-1, t[a] = t[b]
               PROVE  a = b
    BY <1>2 DEF IsInjective
  <2>1. a+1 \in DOMAIN q /\ b+1 \in DOMAIN q /\ q[a+1] = q[b+1]
    BY <1>1, <1>2
  <2> QED
    BY <2>1, <1>1 DEF IsInjective, IsList
<1>5. ToSet(t) = ToSet(q) \ {q[1]}
  <2>1. ASSUME NEW x \in ToSet(t) PROVE x \in ToSet(q) \ {q[1]}
    BY <2>1, <1>1, <1>2 DEF ToSet, IsInjective, IsList
  <2>2. ASSUME NEW x \in ToSet(q) \ {q[1]} PROVE x \in ToSet(t)
    <3>1. PICK j \in 1..Len(q) : x = q[j] /\ j # 1
      BY <1>1 DEF ToSet
    <3>2. j-1 \in 1..Len(q)-1 /\ t[j-1] = q[j]
      <4>1. j-1 \in 1..Len(q)-1 /\ (j-1)+1 = j
        BY <3>1, <1>1
      <4> QED
        BY <4>1, <1>2
    <3> QED
      BY <3>1, <3>2, <1>2 DEF ToSet
  <2> QED
    BY <2>1, <2>2
<1>6. q[1] \in ToSet(q)
  BY <1>1 DEF ToSet
<1>7. t # <<>> => t[Len(t)] = q[Len(q)]
  <2> SUFFICES ASSUME t # <<>> PROVE t[Len(t)] = q[Len(q)]
    OBVIOUS
  <2>1. Len(t) \in 1..Len(q)-1 /\ Len(t)+1 = Len(q)
    BY <1>1, <1>2, EmptySeq
  <2> QED
    BY <2>1, <1>2
<1> QED
  BY <1>2, <1>3, <1>4, <1>5, <1>6, <1>7 DEF IsList, t

(* Putting a new head on a list.                                           *)
LEMMA ConsList ==
    ASSUME NEW S, NEW q, IsList(q, S), NEW x \in S, x \notin ToSet(q)
    PROVE  /\ IsList(<<x>> \o q, S)
           /\ ToSet(<<x>> \o q) = ToSet(q) \cup {x}
           /\ <<x>> \o q # <<>> /\ Head(<<x>> \o q) = x
<1>1. q \in Seq(S) /\ Len(q) \in Nat /\ DOMAIN q = 1..Len(q)
  BY LenProperties DEF IsList
<1>2. <<x>> \in Seq(S) /\ Len(<<x>>) = 1 /\ <<x>>[1] = x
  OBVIOUS
<1> DEFINE c == <<x>> \o q
<1>3. /\ c \in Seq(S) /\ Len(c) = Len(q) + 1
      /\ \A i \in 1..Len(q)+1 : c[i] = IF i <= 1 THEN <<x>>[i] ELSE q[i-1]
  <2>1. /\ c \in Seq(S) /\ Len(c) = 1 + Len(q)
        /\ \A i \in 1..1+Len(q) : c[i] = IF i <= 1 THEN <<x>>[i] ELSE q[i-1]
    BY <1>1, <1>2, ConcatProperties
  <2> HIDE DEF c
  <2> QED
    BY <2>1, <1>1
<1> HIDE DEF c
<1>4. DOMAIN c = 1..Len(q)+1 /\ c[1] = x /\ \A i \in 2..Len(q)+1 : c[i] = q[i-1]
  BY <1>1, <1>2, <1>3, LenProperties
<1>5. IsInjective(c)
  <2> SUFFICES ASSUME NEW i \in 1..Len(q)+1, NEW j \in 1..Len(q)+1, c[i] = c[j]
               PROVE  i = j
    BY <1>4 DEF IsInjective
  <2>1. \A n \in 2..Len(q)+1 : c[n] \in ToSet(q)
    BY <1>1, <1>4 DEF ToSet
  <2>2. i = 1 <=> j = 1
    BY <2>1, <1>1, <1>4
  <2>3. CASE i # 1 /\ j # 1
    <3>1. i-1 \in DOMAIN q /\ j-1 \in DOMAIN q /\ q[i-1] = q[j-1]
      BY <2>3, <1>1, <1>4
    <3> QED
      BY <3>1, <1>1 DEF IsList, IsInjective
  <2> QED
    BY <2>2, <2>3
<1>6. ToSet(c) = ToSet(q) \cup {x}
  <2>1. \A n \in DOMAIN q : n+1 \in DOMAIN c /\ c[n+1] = q[n]
    BY <1>1, <1>4
  <2>2. \A n \in DOMAIN c : n = 1 \/ (n-1 \in DOMAIN q /\ c[n] = q[n-1])
    BY <1>1, <1>4
  <2>3. 1 \in DOMAIN c /\ c[1] = x
    BY <1>1, <1>4
  <2>4. ASSUME NEW y \in ToSet(c) PROVE y \in ToSet(q) \cup {x}
    BY <2>2, <2>3, <2>4 DEF ToSet
  <2>5. ASSUME NEW y \in ToSet(q) \cup {x} PROVE y \in ToSet(c)
    BY <2>1, <2>3, <2>5 DEF ToSet
  <2> QED
    BY <2>4, <2>5
<1>7. c # <<>> /\ Head(c) = x
  BY <1>1, <1>3, <1>4, EmptySeq
<1> QED
  BY <1>3, <1>5, <1>6, <1>7 DEF IsList, c

-----------------------------------------------------------------------------
(* Linking an element that is not on a list behind t: nothing else joins   *)
(* the list, and behind the last element it is Append.                     *)
LEMMA LinkBehindList ==
    ASSUME NEW S, NEW q, IsList(q, S), NEW t, NEW x \in S, x \notin ToSet(q)
    PROVE  /\ IsList(LinkBehind(q, t, x), S)
           /\ ToSet(LinkBehind(q, t, x)) \subseteq ToSet(q) \cup {x}
           /\ q # <<>> /\ t = q[Len(q)] => LinkBehind(q, t, x) = Append(q, x)
<1>1. q \in Seq(S) /\ Len(q) \in Nat /\ DOMAIN q = 1..Len(q)
  BY LenProperties DEF IsList
<1>2. CASE t \notin ToSet(q)
  <2>1. LinkBehind(q, t, x) = q
    BY <1>2 DEF LinkBehind
  <2>2. ~ (q # <<>> /\ t = q[Len(q)])
    <3>1. q # <<>> => Len(q) \in DOMAIN q
      BY <1>1, EmptySeq
    <3> QED
      BY <3>1, <1>2 DEF ToSet
  <2> QED
    BY <2>1, <2>2
<1>3. CASE t \in ToSet(q)
  <2> DEFINE i == Position(q, t)
             s == SubSeq(q, 1, i)
  <2>1. i \in 1..Len(q) /\ q[i] = t
    BY <1>1, <1>3 DEF ToSet, Position
  <2> HIDE DEF i
  <2>2. /\ s \in Seq(S) /\ Len(s) = i /\ DOMAIN s = 1..i
        /\ \A j \in 1..i : s[j] = q[j]
    <3>1. \A j \in 1..i : q[j] \in S
      BY <1>1, <2>1, ElementOfSeq
    <3>2. /\ s \in Seq(S) /\ Len(s) = IF 1 <= i THEN i-1+1 ELSE 0
          /\ \A j \in 1..i-1+1 : s[j] = q[1+j-1]
      BY <3>1, <2>1, SubSeqProperties
    <3>3. \A j \in 1..i : 1+j-1 = j
      BY <2>1
    <3>4. i-1+1 = i /\ 1 <= i
      BY <2>1
    <3> HIDE DEF s
    <3>5. Len(s) = i /\ \A j \in 1..i : s[j] = q[j]
      BY <3>2, <3>3, <3>4
    <3> QED
      BY <3>2, <3>5, LenProperties
  <2> HIDE DEF s
  <2>3. IsInjective(s)
    <3>1. \A a, b \in 1..i : a \in DOMAIN q /\ b \in DOMAIN q
      BY <1>1, <2>1
    <3> QED
      BY <2>2, <3>1 DEF IsInjective, IsList
  <2>4. ToSet(s) \subseteq ToSet(q)
    <3>1. \A a \in 1..i : a \in DOMAIN q
      BY <1>1, <2>1
    <3> QED
      BY <3>1, <2>2 DEF ToSet
  <2>5. IsList(s, S) /\ x \notin ToSet(s)
    BY <2>2, <2>3, <2>4 DEF IsList
  <2>6. LinkBehind(q, t, x) = Append(s, x)
    BY <1>3 DEF LinkBehind, s, i
  <2>7. t = q[Len(q)] => s = q
    <3> SUFFICES ASSUME t = q[Len(q)] PROVE s = q
      OBVIOUS
    <3>1. i = Len(q)
      <4>1. i \in DOMAIN q /\ Len(q) \in DOMAIN q /\ q[i] = q[Len(q)]
        BY <1>1, <2>1
      <4> QED
        BY <4>1 DEF IsInjective, IsList
    <3> QED
      BY <1>1, <2>2, <3>1, SeqEqual
  <2> QED
    BY <2>4, <2>5, <2>6, <2>7, AppendList
<1> QED
  BY <1>2, <1>3

-----------------------------------------------------------------------------
(***************************************************************************)
(* What a record of ready queues over a set P of processes satisfies:      *)
(* proper lists, exact tail pointers of the two system lists, and a        *)
(* running process that heads a list unless no process is queued.          *)
(***************************************************************************)
RQ(P) == [queue : [Classes -> Seq(P)], tail : [Classes -> P \cup {NIL}], curr : P \cup {IDLE}]

ListsOK(rqv, P) == rqv \in RQ(P) /\ \A k \in Classes : IsList(rqv.queue[k], P)

TailsExact(rqv) ==
    \A k \in {"task", "server"} :
        rqv.queue[k] # <<>> => rqv.tail[k] = rqv.queue[k][Len(rqv.queue[k])]

HeadRuns(rqv, k) == rqv.queue[k] # <<>> /\ rqv.curr = Head(rqv.queue[k])

SomeHeadRuns(rqv) ==
    IF rqv.curr = IDLE THEN \A k \in Classes : rqv.queue[k] = <<>>
    ELSE \E k \in Classes : HeadRuns(rqv, k)

GoodRq(rqv, P) == ListsOK(rqv, P) /\ TailsExact(rqv) /\ SomeHeadRuns(rqv)

(* hunter() restores the last part from the others.                        *)
LEMMA HunterGood ==
    ASSUME NEW P, IDLE \notin P, NEW r, ListsOK(r, P), TailsExact(r)
    PROVE  GoodRq(Hunter(r), P) /\ Hunter(r).queue = r.queue
<1> DEFINE h == Hunter(r)
<1>1. \A k \in Classes : r.queue[k] # <<>> => Head(r.queue[k]) \in P
  BY TailList DEF ListsOK
<1>2. /\ h \in RQ(P) /\ h.queue = r.queue /\ h.tail = r.tail
      /\ \/ h.curr = IDLE /\ \A k \in Classes : r.queue[k] = <<>>
         \/ \E k \in Classes : r.queue[k] # <<>> /\ h.curr = Head(r.queue[k])
  BY <1>1 DEF Hunter, Classes, RQ, ListsOK
<1> HIDE DEF h
<1>3. SomeHeadRuns(h)
  BY <1>1, <1>2 DEF SomeHeadRuns, HeadRuns
<1> QED
  BY <1>2, <1>3 DEF GoodRq, ListsOK, TailsExact, h

(* unready() takes p off its list, and nothing else.                       *)
LEMMA UnreadyGood ==
    ASSUME NEW P, IDLE \notin P, NEW r, GoodRq(r, P), NEW k \in Classes, NEW p \in P
    PROVE  /\ GoodRq(Unready(r, k, p), P)
           /\ ToSet(Unready(r, k, p).queue[k]) = ToSet(r.queue[k]) \ {p}
           /\ \A l \in Classes \ {k} : Unready(r, k, p).queue[l] = r.queue[l]
<1> DEFINE q == r.queue[k]
           u == Unready(r, k, p)
<1>1. IsList(q, P) /\ r \in RQ(P) /\ DOMAIN q = 1..Len(q) /\ Len(q) \in Nat
  BY LenProperties DEF GoodRq, ListsOK, IsList
<1>2. CASE p \notin ToSet(q)
  BY <1>2 DEF Unready, Queued
<1>3. CASE p \in ToSet(q) /\ Head(q) = p
  <2> DEFINE pop == [r EXCEPT !.queue[k] = Tail(@)]
  <2>1. q # <<>>
    BY <1>1, <1>3, EmptySeq DEF ToSet
  <2>2. /\ IsList(Tail(q), P) /\ ToSet(Tail(q)) = ToSet(q) \ {p}
        /\ Tail(q) # <<>> => Tail(q)[Len(Tail(q))] = q[Len(q)]
    BY <1>1, <1>3, <2>1, TailList
  <2>3. /\ pop \in RQ(P) /\ pop.queue[k] = Tail(q) /\ pop.tail = r.tail /\ pop.curr = r.curr
        /\ \A l \in Classes \ {k} : pop.queue[l] = r.queue[l]
    BY <1>1, <2>2 DEF RQ, IsList
  <2> HIDE DEF pop
  <2>4. ListsOK(pop, P) /\ TailsExact(pop)
    <3>1. ListsOK(pop, P)
      BY <2>2, <2>3 DEF ListsOK, GoodRq
    <3>2. TailsExact(pop)
      <4> SUFFICES ASSUME NEW l \in {"task", "server"}, pop.queue[l] # <<>>
                   PROVE  pop.tail[l] = pop.queue[l][Len(pop.queue[l])]
        BY DEF TailsExact
      <4>1. CASE l = k
        BY <4>1, <2>1, <2>2, <2>3 DEF GoodRq, TailsExact
      <4>2. CASE l # k
        BY <4>2, <2>3 DEF GoodRq, TailsExact, Classes
      <4> QED
        BY <4>1, <4>2
    <3> QED
      BY <3>1, <3>2
  <2>5. u = IF k = "task" /\ p # r.curr THEN pop ELSE Hunter(pop)
    BY <1>3 DEF Unready, Queued, pop
  <2>6. CASE k = "task" /\ p # r.curr
    <3>1. u = pop
      BY <2>5, <2>6
    <3>2. SomeHeadRuns(pop)
      <4>1. r.curr # IDLE /\ \E l \in Classes : HeadRuns(r, l)
        BY <2>1 DEF GoodRq, SomeHeadRuns
      <4>2. PICK l \in Classes : HeadRuns(r, l)
        BY <4>1
      <4>3. l # k
        BY <4>2, <1>3, <2>6 DEF HeadRuns
      <4> QED
        BY <4>1, <4>2, <4>3, <2>3 DEF SomeHeadRuns, HeadRuns
    <3> QED
      BY <3>1, <3>2, <2>2, <2>3, <2>4 DEF GoodRq
  <2>7. CASE ~ (k = "task" /\ p # r.curr)
    BY <2>2, <2>3, <2>4, <2>5, <2>7, HunterGood
  <2> QED
    BY <2>6, <2>7
<1>4. CASE p \in ToSet(q) /\ Head(q) # p
  <2> DEFINE i == Position(q, p)
  <2>1. i \in DOMAIN q /\ q[i] = p
    BY <1>4 DEF ToSet, Position
  <2>2. i # 1 /\ i \in 2..Len(q) /\ q # <<>>
    BY <2>1, <1>1, <1>4, EmptySeq
  <2>3. u = [r EXCEPT !.queue[k] = RemoveAt(q, i),
                      !.tail[k] = IF r.tail[k] = p THEN q[i - 1] ELSE r.tail[k]]
    BY <1>1, <1>4 DEF Unready, Queued, RQ
  <2> HIDE DEF i
  <2>4. /\ IsList(RemoveAt(q, i), P)
        /\ ToSet(RemoveAt(q, i)) = ToSet(q) \ {p}
        /\ Len(RemoveAt(q, i)) = Len(q) - 1
        /\ \A j \in 1..Len(q)-1 : RemoveAt(q, i)[j] = IF j < i THEN q[j] ELSE q[j+1]
    <3>1. IsList(q, P) /\ i \in DOMAIN q
      BY <1>1, <2>1
    <3> HIDE DEF q
    <3> QED
      BY <3>1, <2>1, RemoveAtList
  <2>5. q[i-1] \in P
    <3>1. i-1 \in 1..Len(q)
      BY <1>1, <2>2
    <3> QED
      BY <3>1, <1>1, ElementOfSeq DEF IsList
  <2>6. /\ u \in RQ(P) /\ u.queue[k] = RemoveAt(q, i) /\ u.curr = r.curr
        /\ u.tail[k] = IF r.tail[k] = p THEN q[i - 1] ELSE r.tail[k]
        /\ \A l \in Classes \ {k} : u.queue[l] = r.queue[l] /\ u.tail[l] = r.tail[l]
    <3> DEFINE s == RemoveAt(q, i)
               t == IF r.tail[k] = p THEN q[i - 1] ELSE r.tail[k]
    <3>1. s \in Seq(P) /\ t \in P \cup {NIL}
      BY <1>1, <2>4, <2>5 DEF RQ, IsList
    <3> HIDE DEF s, t
    <3>2. u = [r EXCEPT !.queue[k] = s, !.tail[k] = t]
      BY <2>3 DEF s, t
    <3> HIDE DEF u
    <3>3. /\ u \in RQ(P) /\ u.queue[k] = s /\ u.curr = r.curr /\ u.tail[k] = t
          /\ \A l \in Classes \ {k} : u.queue[l] = r.queue[l] /\ u.tail[l] = r.tail[l]
      BY <1>1, <3>1, <3>2 DEF RQ
    <3> QED
      BY <3>3 DEF s, t
  <2> HIDE DEF u
  <2>7. ListsOK(u, P)
    BY <2>4, <2>6 DEF ListsOK, GoodRq
  <2>8. TailsExact(u)
    <3> SUFFICES ASSUME NEW l \in {"task", "server"}, u.queue[l] # <<>>
                 PROVE  u.tail[l] = u.queue[l][Len(u.queue[l])]
      BY DEF TailsExact
    <3>1. CASE l # k
      BY <3>1, <2>6 DEF GoodRq, TailsExact, Classes
    <3>2. CASE l = k
      <4>1. r.tail[k] = q[Len(q)]
        BY <3>2, <2>2 DEF GoodRq, TailsExact
      <4>2. Len(q) - 1 \in 1..Len(q)-1
        BY <1>1, <2>2
      <4>3. CASE i = Len(q)
        <5>1. RemoveAt(q, i)[Len(q)-1] = q[i-1]
          BY <4>2, <4>3, <2>4, <1>1
        <5> QED
          BY <5>1, <4>1, <4>3, <3>2, <2>1, <2>4, <2>6
      <4>4. CASE i # Len(q)
        <5>1. ~ (Len(q)-1 < i) /\ (Len(q)-1)+1 = Len(q)
          BY <4>4, <2>2, <1>1
        <5>2. RemoveAt(q, i)[Len(q)-1] = q[Len(q)]
          BY <5>1, <4>2, <2>4
        <5>3. q[Len(q)] # p
          BY <4>4, <2>1, <2>2, <1>1 DEF IsList, IsInjective
        <5> QED
          BY <5>2, <5>3, <4>1, <3>2, <2>4, <2>6
      <4> QED
        BY <4>3, <4>4
    <3> QED
      BY <3>1, <3>2
  <2>9. SomeHeadRuns(u)
    <3>1. r.curr # IDLE /\ \E l \in Classes : HeadRuns(r, l)
      BY <2>2 DEF GoodRq, SomeHeadRuns
    <3>2. PICK l \in Classes : HeadRuns(r, l)
      BY <3>1
    <3>3. u.queue[k] # <<>> /\ Head(u.queue[k]) = Head(q)
      <4>1. 1 \in 1..Len(q)-1 /\ 1 < i
        BY <2>2, <1>1
      <4>2. RemoveAt(q, i)[1] = q[1]
        BY <4>1, <2>4
      <4>3. RemoveAt(q, i) # <<>>
        BY <4>1, <2>4, EmptySeq DEF IsList
      <4>4. Head(RemoveAt(q, i)) = RemoveAt(q, i)[1] /\ Head(q) = q[1]
        BY <1>1, <2>4 DEF IsList
      <4> QED
        BY <4>2, <4>3, <4>4, <2>6
    <3>4. HeadRuns(u, l)
      BY <3>2, <3>3, <2>6 DEF HeadRuns
    <3> QED
      BY <3>1, <3>4, <2>6 DEF SomeHeadRuns
  <2> QED
    BY <2>4, <2>6, <2>7, <2>8, <2>9 DEF GoodRq, u
<1> QED
  BY <1>2, <1>3, <1>4

(* ready() of a task or a server puts p on its list, and nothing else.     *)
LEMMA ReadySystemGood ==
    ASSUME NEW P, IDLE \notin P, NEW r, GoodRq(r, P), NEW k \in {"task", "server"},
           NEW p \in P, p \notin ToSet(r.queue[k])
    PROVE  /\ GoodRq(ReadySystem(r, k, p), P)
           /\ ToSet(ReadySystem(r, k, p).queue[k]) = ToSet(r.queue[k]) \cup {p}
           /\ \A l \in Classes \ {k} : ReadySystem(r, k, p).queue[l] = r.queue[l]
           /\ ReadySystem(r, k, p).curr # IDLE
<1> DEFINE q == r.queue[k]
           n == IF q = <<>> THEN <<p>> ELSE Append(q, p)
           u == ReadySystem(r, k, p)
<1>1. IsList(q, P) /\ r \in RQ(P) /\ k \in Classes
  BY DEF GoodRq, ListsOK, Classes
<1>2. /\ IsList(n, P) /\ ToSet(n) = ToSet(q) \cup {p} /\ n # <<>>
      /\ n[Len(n)] = p /\ Head(n) = IF q = <<>> THEN p ELSE Head(q)
  <2>1. IsList(q, P) /\ p \notin ToSet(q)
    BY <1>1
  <2> HIDE DEF q
  <2>2. CASE q = <<>>
    <3>1. n = <<p>> /\ n \in Seq(P) /\ Len(n) = 1 /\ n[1] = p /\ DOMAIN n = 1..1 /\ Head(n) = p
      BY <2>2
    <3>2. DOMAIN q = {}
      BY <2>2
    <3> QED
      BY <3>1, <3>2, <2>2, EmptySeq DEF IsList, IsInjective, ToSet
  <2>3. CASE q # <<>>
    BY <2>1, <2>3, AppendList
  <2> QED
    BY <2>2, <2>3
<1>3. q # <<>> => LinkBehind(q, r.tail[k], p) = n
  <2>1. q # <<>> => r.tail[k] = q[Len(q)]
    BY DEF GoodRq, TailsExact
  <2> QED
    BY <1>1, <2>1, LinkBehindList
<1>4. /\ u \in RQ(P) /\ u.queue[k] = n /\ u.tail[k] = p
      /\ u.curr = IF q = <<>> THEN p ELSE r.curr
      /\ \A l \in Classes \ {k} : u.queue[l] = r.queue[l] /\ u.tail[l] = r.tail[l]
  <2>1. u = IF q = <<>> THEN [r EXCEPT !.queue[k] = n, !.tail[k] = p, !.curr = p]
            ELSE [r EXCEPT !.queue[k] = n, !.tail[k] = p]
    BY <1>1, <1>3 DEF ReadySystem, RQ
  <2>2. n \in Seq(P)
    BY <1>2 DEF IsList
  <2> HIDE DEF n, u, q
  <2> QED
    BY <1>1, <2>1, <2>2 DEF RQ
<1> HIDE DEF u, n
<1>5. ListsOK(u, P)
  BY <1>2, <1>4 DEF ListsOK, GoodRq
<1>6. TailsExact(u)
  BY <1>2, <1>4 DEF TailsExact, GoodRq, Classes
<1>7. u.curr # IDLE /\ SomeHeadRuns(u)
  <2>1. CASE q = <<>>
    BY <2>1, <1>1, <1>2, <1>4 DEF SomeHeadRuns, HeadRuns
  <2>2. CASE q # <<>>
    <3>1. r.curr # IDLE /\ \E l \in Classes : HeadRuns(r, l)
      BY <2>2, <1>1 DEF GoodRq, SomeHeadRuns
    <3>2. PICK l \in Classes : HeadRuns(r, l)
      BY <3>1
    <3>3. HeadRuns(u, l)
      BY <3>2, <2>2, <1>2, <1>4 DEF HeadRuns
    <3> QED
      BY <3>1, <3>3, <2>2, <1>4 DEF SomeHeadRuns
  <2> QED
    BY <2>1, <2>2
<1> QED
  BY <1>2, <1>4, <1>5, <1>6, <1>7 DEF GoodRq, u

(* ready() of a user process, while a task or a server runs.               *)
LEMMA ReadyUserGood ==
    ASSUME NEW P, IDLE \notin P, NEW r, GoodRq(r, P),
           NEW p \in P, p \notin ToSet(r.queue["user"]),
           NEW c \in {"task", "server"}, HeadRuns(r, c), r.curr # IDLE
    PROVE  /\ GoodRq(ReadyUser(r, p), P)
           /\ ToSet(ReadyUser(r, p).queue["user"]) = ToSet(r.queue["user"]) \cup {p}
           /\ \A l \in Classes \ {"user"} : ReadyUser(r, p).queue[l] = r.queue[l]
           /\ ReadyUser(r, p).curr = r.curr
<1> DEFINE q == r.queue["user"]
           n == <<p>> \o q
           u == ReadyUser(r, p)
<1>1. IsList(q, P) /\ r \in RQ(P) /\ "user" \in Classes /\ c \in Classes \ {"user"}
  BY DEF GoodRq, ListsOK, Classes
<1>2. IsList(n, P) /\ ToSet(n) = ToSet(q) \cup {p}
  BY <1>1, ConsList
<1>3. /\ u \in RQ(P) /\ u.queue["user"] = n /\ u.curr = r.curr
      /\ \A l \in Classes \ {"user"} : u.queue[l] = r.queue[l] /\ u.tail[l] = r.tail[l]
  <2> DEFINE t == IF q # <<>> THEN p ELSE r.tail["user"]
  <2>1. u = [r EXCEPT !.queue["user"] = n, !.tail["user"] = t] /\ t \in P \cup {NIL}
    BY <1>1 DEF ReadyUser, RQ
  <2>2. n \in Seq(P)
    BY <1>2 DEF IsList
  <2> HIDE DEF n, u, q, t
  <2> QED
    BY <1>1, <2>1, <2>2 DEF RQ
<1> HIDE DEF u, n
<1>4. ListsOK(u, P)
  BY <1>2, <1>3 DEF ListsOK, GoodRq
<1>5. TailsExact(u)
  BY <1>3 DEF TailsExact, GoodRq, Classes
<1>6. SomeHeadRuns(u)
  <2>1. HeadRuns(u, c) /\ u.curr # IDLE
    BY <1>1, <1>3 DEF HeadRuns
  <2> QED
    BY <2>1, <1>1 DEF SomeHeadRuns
<1> QED
  BY <1>2, <1>3, <1>4, <1>5, <1>6 DEF GoodRq, u

(* schedule() may lose user processes from their list, but adds none, and  *)
(* leaves the lists of the tasks and the servers alone.                    *)
LEMMA ScheduleGood ==
    ASSUME NEW P, IDLE \notin P, NEW r, GoodRq(r, P)
    PROVE  /\ GoodRq(Schedule(r), P)
           /\ ToSet(Schedule(r).queue["user"]) \subseteq ToSet(r.queue["user"])
           /\ \A l \in Classes \ {"user"} : Schedule(r).queue[l] = r.queue[l]
<1> DEFINE q == r.queue["user"]
           h == Head(q)
           n == LinkBehind(Tail(q), r.tail["user"], h)
           m == [r EXCEPT !.queue["user"] = n, !.tail["user"] = h]
<1>1. IsList(q, P) /\ r \in RQ(P) /\ "user" \in Classes
  BY DEF GoodRq, ListsOK, Classes
<1>2. CASE q = <<>>
  BY <1>2 DEF Schedule
<1>3. CASE q # <<>>
  <2>1. /\ IsList(Tail(q), P) /\ ToSet(Tail(q)) = ToSet(q) \ {h}
        /\ h \in ToSet(q) /\ h \in P
    BY <1>1, <1>3, TailList
  <2>2. IsList(n, P) /\ ToSet(n) \subseteq ToSet(q)
    <3>1. h \notin ToSet(Tail(q))
      BY <2>1
    <3>2. IsList(n, P) /\ ToSet(n) \subseteq ToSet(Tail(q)) \cup {h}
      BY <2>1, <3>1, LinkBehindList
    <3> QED
      BY <2>1, <3>2
  <2>3. Schedule(r) = Hunter(m)
    BY <1>3 DEF Schedule
  <2>4. /\ m \in RQ(P) /\ m.queue["user"] = n
        /\ \A l \in Classes \ {"user"} : m.queue[l] = r.queue[l] /\ m.tail[l] = r.tail[l]
    <3>1. n \in Seq(P)
      BY <2>2 DEF IsList
    <3> DEFINE g == h
    <3>2. m = [r EXCEPT !.queue["user"] = n, !.tail["user"] = g] /\ g \in P
      BY <2>1
    <3> HIDE DEF n, m, q, g
    <3> QED
      BY <1>1, <3>1, <3>2 DEF RQ
  <2> HIDE DEF m, n
  <2>5. ListsOK(m, P) /\ TailsExact(m)
    BY <2>2, <2>4 DEF ListsOK, GoodRq, TailsExact, Classes
  <2>6. GoodRq(Hunter(m), P) /\ Hunter(m).queue = m.queue
    BY <2>5, HunterGood
  <2> QED
    BY <2>2, <2>3, <2>4, <2>6
<1> QED
  BY <1>2, <1>3

-----------------------------------------------------------------------------
(* The invariants                                                          *)

(* Tasks and servers keep their priority; a user slot is in use or free,   *)
(* and a free slot has no flags.                                           *)
Classified ==
    /\ \A t \in Task : priority[t] = "task"
    /\ \A s \in Server : priority[s] = "server"
    /\ \A u \in User : priority[u] \in {"user", "none"} /\ (priority[u] = "none" => flags[u] = {})

(* A process blocked in both halves of SEND_REC waits for the process it   *)
(* sends to.                                                               *)
SameProcess ==
    \A p \in Proc : {"SENDING", "RECEIVING"} \subseteq flags[p] => getFrom[p] = sendTo[p]

(* Between the halves the caller is at most blocked sending to the process *)
(* it will receive from, and only a user process calls a user process.     *)
BetweenHalves ==
    secondHalf # <<>> =>
        LET c == secondHalf[1]
            d == secondHalf[2]
        IN  /\ flags[c] = {} \/ (flags[c] = {"SENDING"} /\ sendTo[c] = d)
            /\ priority[c] # "none"
            /\ c \in User \/ d \in Task \cup Server

(* Only a forked child waits for its memory map.                           *)
MapsUser == \A p \in Proc : "NO_MAP" \in flags[p] => p \in User

IpcInv == CallersAreSenders /\ NoSendCycle /\ NoMissedRendezvous /\ SameProcess /\ MapsUser

SchedInv == Classified /\ GoodRq(rq, Proc) /\ ReadyListsExact

IInv == TypeOK /\ SchedInv /\ IpcInv /\ BetweenHalves

-----------------------------------------------------------------------------
(* The kinds of process have nothing in common.                            *)
LEMMA ClassesAreDisjoint ==
    /\ IDLE \notin Proc /\ ANY \notin Proc /\ HARDWARE \notin Proc /\ NIL \notin Proc
    /\ SYS \in Task /\ MM \in Server /\ IrqTask \subseteq Task
    /\ \A p \in Proc : p \in Task \/ p \in Server \/ p \in User
    /\ \A p \in Task : p \in Proc /\ p \notin User /\ p \notin Server
    /\ \A p \in Server : p \in Proc /\ p \notin User
    /\ \A p \in User : p \in Proc
BY ProcAssumption DEF Proc, Special

(* The running process is unblocked, and heads the list of its class.      *)
LEMMA RunningProcess ==
    ASSUME TypeOK, SchedInv, rq.curr \in Proc
    PROVE  /\ flags[rq.curr] = {} /\ priority[rq.curr] \in Classes
           /\ HeadRuns(rq, priority[rq.curr])
<1>1. rq.curr # IDLE
  BY ClassesAreDisjoint
<1>2. PICK k \in Classes : HeadRuns(rq, k)
  BY <1>1 DEF SchedInv, GoodRq, SomeHeadRuns
<1>3. rq.curr \in ToSet(rq.queue[k])
  BY <1>2, TailList DEF SchedInv, GoodRq, ListsOK, HeadRuns
<1>4. priority[rq.curr] = k /\ flags[rq.curr] = {}
  BY <1>3 DEF SchedInv, ReadyListsExact
<1> QED
  BY <1>2, <1>4

(* Clearing a flag, with ready() when it was the last one, keeps the ready *)
(* lists exact; a user process is readied only while a task or a server    *)
(* runs.                                                                   *)
LEMMA UnblockKeepsLists ==
    ASSUME TypeOK, SchedInv, NEW p \in Proc, NEW f \in Flag, f \in flags[p],
           p \in User => rq.curr \in Task \cup Server,
           Unblock(p, f), UNCHANGED priority
    PROVE  SchedInv' /\ flags' \in [Proc -> SUBSET Flag]
<1>1. /\ flags \in [Proc -> SUBSET Flag] /\ priority[p] \in Classes
      /\ flags' = [flags EXCEPT ![p] = @ \ {f}]
      /\ rq' = IF flags[p] = {f} THEN Ready(rq, priority[p], p) ELSE rq
  BY ClassesAreDisjoint DEF TypeOK, Unblock, SchedInv, Classified, Classes
<1>2. flags' \in [Proc -> SUBSET Flag] /\ flags'[p] = flags[p] \ {f}
  BY <1>1
<1>3. Classified'
  BY <1>1, ClassesAreDisjoint DEF SchedInv, Classified
<1>4. \A k \in Classes : p \notin ToSet(rq.queue[k])
  BY DEF SchedInv, ReadyListsExact
<1>5. CASE flags[p] # {f}
  <2>1. flags'[p] # {} /\ rq' = rq
    BY <1>1, <1>2, <1>5
  <2>2. ReadyListsExact'
    BY <2>1, <1>1, <1>4, ClassesAreDisjoint DEF SchedInv, ReadyListsExact, Queued
  <2> QED
    BY <2>1, <2>2, <1>2, <1>3 DEF SchedInv
<1>6. CASE flags[p] = {f}
  <2>0. PICK k \in Classes : k = priority[p]
    BY <1>1
  <2>1. /\ GoodRq(rq', Proc)
        /\ ToSet(rq'.queue[k]) = ToSet(rq.queue[k]) \cup {p}
        /\ \A l \in Classes \ {k} : rq'.queue[l] = rq.queue[l]
    <3>1. CASE p \in User
      <4>1. k = "user" /\ rq' = ReadyUser(rq, p)
        BY <2>0, <3>1, <1>1, <1>6 DEF Ready, SchedInv, Classified, Classes
      <4>2. rq.curr \in Proc /\ rq.curr # IDLE /\ priority[rq.curr] \in {"task", "server"}
        BY <3>1, ClassesAreDisjoint DEF SchedInv, Classified
      <4>3. HeadRuns(rq, priority[rq.curr])
        BY <4>2, RunningProcess
      <4>4. GoodRq(rq, Proc) /\ p \notin ToSet(rq.queue["user"])
        BY <1>4 DEF SchedInv, Classes
      <4>5. /\ GoodRq(ReadyUser(rq, p), Proc)
            /\ ToSet(ReadyUser(rq, p).queue["user"]) = ToSet(rq.queue["user"]) \cup {p}
            /\ \A l \in Classes \ {"user"} : ReadyUser(rq, p).queue[l] = rq.queue[l]
        BY <4>2, <4>3, <4>4, ClassesAreDisjoint, ReadyUserGood
      <4> QED
        BY <4>1, <4>5
    <3>2. CASE p \notin User
      <4>1. k \in {"task", "server"} /\ rq' = ReadySystem(rq, k, p)
        BY <2>0, <3>2, <1>1, <1>6, ClassesAreDisjoint DEF Ready, SchedInv, Classified
      <4>2. GoodRq(rq, Proc) /\ p \notin ToSet(rq.queue[k])
        BY <1>1, <1>4 DEF SchedInv
      <4>0. IDLE \notin Proc
        BY ClassesAreDisjoint
      <4>3. /\ GoodRq(ReadySystem(rq, k, p), Proc)
            /\ ToSet(ReadySystem(rq, k, p).queue[k]) = ToSet(rq.queue[k]) \cup {p}
            /\ \A l \in Classes \ {k} : ReadySystem(rq, k, p).queue[l] = rq.queue[l]
        BY <4>0, <4>1, <4>2, ReadySystemGood
      <4> QED
        BY <4>1, <4>3
    <3> QED
      BY <3>1, <3>2
  <2>2. flags'[p] = {}
    BY <1>2, <1>6
  <2>3. ReadyListsExact'
    <3>1. ASSUME NEW l \in Classes
          PROVE  /\ IsInjective(rq'.queue[l])
                 /\ ToSet(rq'.queue[l]) \subseteq {x \in Proc : priority'[x] = l /\ flags'[x] = {}}
      <4>1. IsInjective(rq'.queue[l])
        BY <2>1 DEF GoodRq, ListsOK, IsList
      <4>2. ToSet(rq.queue[l]) \subseteq {x \in Proc : priority[x] = l /\ flags[x] = {}}
        BY DEF SchedInv, ReadyListsExact
      <4>3. ToSet(rq'.queue[l]) \subseteq ToSet(rq.queue[l]) \cup {x \in {p} : l = k}
        BY <2>1
      <4> QED
        BY <2>0, <4>1, <4>2, <4>3, <2>2, <1>1
    <3>2. ASSUME NEW x \in Task \cup Server, flags'[x] = {}
          PROVE  Queued(rq', priority'[x], x)
      <4>1. priority[x] \in Classes /\ x \in Proc
        BY ClassesAreDisjoint DEF SchedInv, Classified, Classes
      <4>2. CASE x = p
        BY <2>0, <4>2, <1>1, <2>1 DEF Queued
      <4>3. CASE x # p
        <5>1. flags[x] = {}
          BY <4>1, <4>3, <3>2, <1>1
        <5>2. x \in ToSet(rq.queue[priority[x]])
          BY <5>1 DEF SchedInv, ReadyListsExact, Queued
        <5> QED
          BY <2>0, <5>2, <4>1, <2>1 DEF Queued
      <4> QED
        BY <4>2, <4>3
    <3> QED
      BY <3>1, <3>2 DEF ReadyListsExact
  <2> QED
    BY <2>1, <2>3, <1>2, <1>3 DEF SchedInv
<1> QED
  BY <1>5, <1>6

(* Setting a flag, with unready() when it is the first one.                *)
LEMMA BlockKeepsLists ==
    ASSUME TypeOK, SchedInv, NEW p \in Proc, NEW f \in Flag, priority[p] # "none",
           Block(p, f), UNCHANGED priority
    PROVE  SchedInv' /\ flags' \in [Proc -> SUBSET Flag]
<1>1. /\ flags \in [Proc -> SUBSET Flag] /\ priority[p] \in Classes
      /\ flags' = [flags EXCEPT ![p] = @ \cup {f}]
      /\ rq' = IF flags[p] = {} THEN Unready(rq, priority[p], p) ELSE rq
  BY ClassesAreDisjoint DEF TypeOK, Block, SchedInv, Classified, Classes
<1>2. flags' \in [Proc -> SUBSET Flag] /\ flags'[p] # {}
  BY <1>1
<1>3. Classified'
  BY <1>1, ClassesAreDisjoint DEF SchedInv, Classified
<1>k. PICK k \in Classes : k = priority[p]
  BY <1>1
<1>4. /\ GoodRq(rq', Proc)
      /\ ToSet(rq'.queue[k]) = ToSet(rq.queue[k]) \ {p}
      /\ \A l \in Classes \ {k} : rq'.queue[l] = rq.queue[l]
  <2>1. CASE flags[p] = {}
    <3>1. GoodRq(rq, Proc) /\ rq' = Unready(rq, k, p)
      BY <1>k, <2>1, <1>1 DEF SchedInv
    <3>2. IDLE \notin Proc
      BY ClassesAreDisjoint
    <3>3. /\ GoodRq(Unready(rq, k, p), Proc)
          /\ ToSet(Unready(rq, k, p).queue[k]) = ToSet(rq.queue[k]) \ {p}
          /\ \A l \in Classes \ {k} : Unready(rq, k, p).queue[l] = rq.queue[l]
      BY <3>1, <3>2, UnreadyGood
    <3> QED
      BY <3>1, <3>3
  <2>2. CASE flags[p] # {}
    <3>1. rq' = rq /\ p \notin ToSet(rq.queue[k])
      BY <1>k, <2>2, <1>1 DEF SchedInv, ReadyListsExact
    <3> QED
      BY <3>1 DEF SchedInv
  <2> QED
    BY <2>1, <2>2
<1>5. ReadyListsExact'
  <2>1. ASSUME NEW l \in Classes
        PROVE  /\ IsInjective(rq'.queue[l])
               /\ ToSet(rq'.queue[l]) \subseteq {x \in Proc : priority'[x] = l /\ flags'[x] = {}}
    <3>1. IsInjective(rq'.queue[l])
      BY <1>4 DEF GoodRq, ListsOK, IsList
    <3>2. ToSet(rq.queue[l]) \subseteq {x \in Proc : priority[x] = l /\ flags[x] = {}}
      BY DEF SchedInv, ReadyListsExact
    <3>3. ToSet(rq'.queue[l]) \subseteq ToSet(rq.queue[l]) \ {p}
      <4>1. CASE l = k
        BY <4>1, <1>4
      <4>2. CASE l # k
        BY <1>k, <4>2, <3>2, <1>4
      <4> QED
        BY <4>1, <4>2
    <3> QED
      BY <3>1, <3>2, <3>3, <1>1
  <2>2. ASSUME NEW x \in Task \cup Server, flags'[x] = {}
        PROVE  Queued(rq', priority'[x], x)
    <3>1. x # p /\ x \in Proc /\ flags[x] = {} /\ priority[x] \in Classes
      BY <2>2, <1>1, <1>2, ClassesAreDisjoint DEF SchedInv, Classified, Classes
    <3>2. x \in ToSet(rq.queue[priority[x]])
      BY <3>1 DEF SchedInv, ReadyListsExact, Queued
    <3> QED
      BY <1>1, <1>k, <3>1, <3>2, <1>4 DEF Queued
  <2> QED
    BY <2>1, <2>2 DEF ReadyListsExact
<1> QED
  BY <1>2, <1>3, <1>4, <1>5 DEF SchedInv

-----------------------------------------------------------------------------
(* Fewer senders, each with the destination it had, make no new cycle.     *)
LEMMA FewerSenders ==
    ASSUME NoSendCycle,
           \A p \in Proc : "SENDING" \in flags'[p] =>
               "SENDING" \in flags[p] /\ sendTo'[p] = sendTo[p]
    PROVE  NoSendCycle'
<1> SUFFICES ASSUME NEW S \in SUBSET Proc, S # {}, \A p \in S : "SENDING" \in flags'[p]
             PROVE  \E p \in S : sendTo'[p] \notin S
  BY DEF NoSendCycle
<1>1. \A p \in S : "SENDING" \in flags[p] /\ sendTo'[p] = sendTo[p]
  OBVIOUS
<1>2. \E p \in S : sendTo[p] \notin S
  BY <1>1 DEF NoSendCycle
<1> QED
  BY <1>1, <1>2

(***************************************************************************)
(* The walk of flyanx_send is enough: when it does not meet c, queueing c  *)
(* at d closes no cycle.  A cycle through c would run through d, and its   *)
(* part inside a set that holds the walk but not c was a cycle before.     *)
(***************************************************************************)
LEMMA WalkPreventsCycle ==
    ASSUME NoSendCycle, NEW c \in Proc, NEW d \in Proc, ~ Locked(c, d),
           \A p \in Proc \ {c} : flags'[p] = flags[p] /\ sendTo'[p] = sendTo[p],
           sendTo'[c] = d
    PROVE  NoSendCycle'
<1> SUFFICES ASSUME NEW S \in SUBSET Proc, S # {}, \A p \in S : "SENDING" \in flags'[p],
                    \A p \in S : sendTo'[p] \in S
             PROVE  FALSE
  BY DEF NoSendCycle
<1>1. PICK R \in SUBSET Proc : d \in R /\ ChainClosed(R) /\ c \notin R
  BY DEF Locked
<1>2. CASE c \notin S
  <2>1. \A p \in S : "SENDING" \in flags[p] /\ sendTo[p] \in S
    BY <1>2
  <2> QED
    BY <2>1 DEF NoSendCycle
<1>3. CASE c \in S
  <2> DEFINE T == S \cap R
  <2>1. d \in T /\ T \in SUBSET Proc
    BY <1>1, <1>3
  <2>2. \A p \in T : "SENDING" \in flags[p] /\ sendTo[p] \in T
    BY <1>1 DEF ChainClosed
  <2> HIDE DEF T
  <2> QED
    BY <2>1, <2>2 DEF NoSendCycle
<1> QED
  BY <1>2, <1>3

-----------------------------------------------------------------------------
(* What flyanx_send and flyanx_receive leave true, apart from secondHalf.  *)
StepTypes ==
    /\ priority \in [Proc -> Priority] /\ flags \in [Proc -> SUBSET Flag]
    /\ sendTo \in [Proc -> Proc \cup {NIL}] /\ getFrom \in [Proc -> Source \cup {NIL}]
    /\ callers \in [Proc -> Seq(Proc)] /\ intBlocked \in [Proc -> BOOLEAN]

(* flyanx_send of a running process to one that a user may call and to     *)
(* which it does not queue unless that is a task or a server.              *)
LEMMA SendStep ==
    ASSUME TypeOK, SchedInv, IpcInv, NEW c \in Proc, NEW d \in Proc \ {c},
           c = rq.curr, flyanx_send(c, d),
           d \in User => c \in Server /\ WillTake(d, c)
    PROVE  /\ StepTypes' /\ SchedInv' /\ IpcInv'
           /\ UNCHANGED priority
           /\ flags'[c] = {} \/ (flags'[c] = {"SENDING"} /\ sendTo'[c] = d)
<1>1. flags[c] = {} /\ priority[c] # "none"
  BY RunningProcess DEF Classes
<1>2. StepTypes
  BY DEF TypeOK, StepTypes
<1>3. CASE SendDeliver(c, d)
  <2>1. /\ "RECEIVING" \in flags[d] /\ "SENDING" \notin flags[d]
        /\ flags' = [flags EXCEPT ![d] = @ \ {"RECEIVING"}]
        /\ UNCHANGED <<priority, sendTo, getFrom, callers, intBlocked>>
    BY <1>3 DEF SendDeliver, WillTake, Unblock
  <2>2. SchedInv' /\ flags' \in [Proc -> SUBSET Flag]
    <3>1. d \in User => rq.curr \in Task \cup Server
      OBVIOUS
    <3>2. Unblock(d, "RECEIVING") /\ UNCHANGED priority /\ "RECEIVING" \in Flag
      BY <1>3 DEF SendDeliver, Flag
    <3> QED
      BY <2>1, <3>1, <3>2, UnblockKeepsLists
  <2>3. StepTypes'
    BY <2>1, <2>2, <1>2 DEF StepTypes
  <2>4. \A p \in Proc : /\ flags'[p] \subseteq flags[p]
                        /\ "SENDING" \in flags[p] => "SENDING" \in flags'[p]
    BY <2>1, <1>2 DEF StepTypes
  <2>5. NoSendCycle'
    BY <2>1, <2>4, FewerSenders DEF IpcInv
  <2>6. CallersAreSenders'
    BY <2>1, <2>4 DEF IpcInv, CallersAreSenders
  <2>7. NoMissedRendezvous'
    BY <2>1, <2>4, <1>2 DEF IpcInv, NoMissedRendezvous, StepTypes
  <2>8. SameProcess' /\ MapsUser'
    BY <2>1, <2>4 DEF IpcInv, SameProcess, MapsUser
  <2>9. flags'[c] = {}
    BY <1>1, <2>4
  <2> QED
    BY <2>1, <2>2, <2>3, <2>5, <2>6, <2>7, <2>8, <2>9 DEF IpcInv
<1>4. CASE SendQueue(c, d)
  <2>1. /\ ~ WillTake(d, c) /\ ~ Locked(c, d)
        /\ flags' = [flags EXCEPT ![c] = @ \cup {"SENDING"}]
        /\ sendTo' = [sendTo EXCEPT ![c] = d]
        /\ callers' = [callers EXCEPT ![d] = Append(@, c)]
        /\ UNCHANGED <<priority, getFrom, intBlocked>>
    BY <1>4 DEF SendQueue, Block, flyanx_send, SendAllowed
  <2>2. SchedInv' /\ flags' \in [Proc -> SUBSET Flag]
    <3>1. Block(c, "SENDING") /\ UNCHANGED priority /\ "SENDING" \in Flag
      BY <1>4 DEF SendQueue, Flag
    <3> QED
      BY <3>1, <1>1, BlockKeepsLists
  <2>3. /\ flags'[c] = {"SENDING"} /\ sendTo'[c] = d
        /\ \A p \in Proc \ {c} : flags'[p] = flags[p] /\ sendTo'[p] = sendTo[p]
    BY <2>1, <1>1, <1>2 DEF StepTypes
  <2>4. /\ callers'[d] = Append(callers[d], c)
        /\ \A q \in Proc \ {d} : callers'[q] = callers[q]
    BY <2>1, <1>2 DEF StepTypes
  <2>5. \A q \in Proc : /\ IsList(callers[q], Proc) /\ c \notin ToSet(callers[q])
                        /\ ToSet(callers[q]) = {p \in Proc : "SENDING" \in flags[p] /\ sendTo[p] = q}
    BY <1>1, <1>2 DEF IpcInv, CallersAreSenders, StepTypes, IsList
  <2>6. IsList(callers'[d], Proc) /\ ToSet(callers'[d]) = ToSet(callers[d]) \cup {c}
    BY <2>4, <2>5, AppendList
  <2>7. StepTypes'
    <3>1. callers' \in [Proc -> Seq(Proc)]
      BY <2>1, <1>2 DEF StepTypes
    <3> QED
      BY <3>1, <2>1, <2>2, <1>2 DEF StepTypes
  <2>8. CallersAreSenders'
    <3>1. ASSUME NEW q \in Proc
          PROVE  /\ IsInjective(callers'[q])
                 /\ ToSet(callers'[q]) = {p \in Proc : "SENDING" \in flags'[p] /\ sendTo'[p] = q}
      <4>1. CASE q = d
        BY <4>1, <2>3, <2>5, <2>6 DEF IsList
      <4>2. CASE q # d
        BY <4>2, <2>3, <2>4, <2>5 DEF IsList
      <4> QED
        BY <4>1, <4>2
    <3>2. d \in Task \cup Server
      BY <2>1, ClassesAreDisjoint
    <3>3. priority[d] \in {"task", "server"}
      BY <3>2 DEF SchedInv, Classified
    <3>4. \A p \in Proc : "SENDING" \in flags'[p] =>
              sendTo'[p] \in Proc /\ priority'[sendTo'[p]] \in {"task", "server"}
      BY <3>3, <2>1, <2>3 DEF IpcInv, CallersAreSenders
    <3> QED
      BY <3>1, <3>4 DEF CallersAreSenders
  <2>9. NoSendCycle'
    BY <2>1, <2>3, WalkPreventsCycle DEF IpcInv
  <2>10. NoMissedRendezvous'
    <3>1. ASSUME NEW p \in Proc, flags'[p] \cap {"SENDING", "RECEIVING"} = {"RECEIVING"},
                 NEW s \in ToSet(callers'[p])
          PROVE  ~ Matches(getFrom[p], s)
      <4>1. p # c /\ flags[p] \cap {"SENDING", "RECEIVING"} = {"RECEIVING"}
        BY <3>1, <2>3
      <4>2. CASE s = c /\ p = d
        BY <4>1, <4>2, <2>1 DEF WillTake, Matches
      <4>3. CASE s \in ToSet(callers[p])
        BY <4>1, <4>3 DEF IpcInv, NoMissedRendezvous
      <4> QED
        BY <4>2, <4>3, <2>4, <2>6
    <3>2. \A p \in Proc : flags'[p] \cap {"SENDING", "RECEIVING"} = {"RECEIVING"} =>
             (intBlocked[p] => getFrom[p] \notin {ANY, HARDWARE})
      BY <2>3 DEF IpcInv, NoMissedRendezvous
    <3> QED
      BY <3>1, <3>2, <2>1 DEF NoMissedRendezvous
  <2>11. SameProcess' /\ MapsUser'
    BY <2>1, <2>3 DEF IpcInv, SameProcess, MapsUser
  <2> QED
    BY <2>1, <2>2, <2>3, <2>7, <2>8, <2>9, <2>10, <2>11 DEF IpcInv
<1> QED
  BY <1>3, <1>4 DEF flyanx_send

(* flyanx_receive of a process that is unblocked or, in a SEND_REC, still  *)
(* sending to the process it receives from.                                *)
LEMMA ReceiveStep ==
    ASSUME TypeOK, SchedInv, IpcInv, NEW c \in Proc, NEW src \in Source, priority[c] # "none",
           flags[c] = {} \/ (flags[c] = {"SENDING"} /\ sendTo[c] = src),
           flyanx_receive(c, src),
           \A i \in Candidates(c, src) : callers[c][i] \in User => rq.curr \in Task \cup Server
    PROVE  StepTypes' /\ SchedInv' /\ IpcInv' /\ UNCHANGED priority
<1>1. StepTypes
  BY DEF TypeOK, StepTypes
<1>2. \A q \in Proc : /\ IsList(callers[q], Proc)
                      /\ ToSet(callers[q]) = {p \in Proc : "SENDING" \in flags[p] /\ sendTo[p] = q}
  BY <1>1 DEF IpcInv, CallersAreSenders, StepTypes, IsList
<1>3. CASE ReceiveQueued(c, src)
  <2>1. PICK i \in Candidates(c, src) :
             /\ Unblock(callers[c][i], "SENDING")
             /\ callers' = [callers EXCEPT ![c] = RemoveAt(@, i)]
             /\ UNCHANGED <<priority, sendTo, getFrom, intBlocked>>
    BY <1>3 DEF ReceiveQueued
  <2>2. PICK s \in Proc : s = callers[c][i] /\ s \in ToSet(callers[c])
    BY <1>2 DEF Candidates, IsList, ToSet
  <2>3. flags[c] = {} /\ i \in DOMAIN callers[c]
    BY <2>1 DEF Candidates
  <2>4. "SENDING" \in flags[s] /\ sendTo[s] = c /\ s # c
    BY <2>2, <2>3, <1>2
  <2>5. flags' = [flags EXCEPT ![s] = @ \ {"SENDING"}]
    BY <2>1, <2>2 DEF Unblock
  <2>6. SchedInv' /\ flags' \in [Proc -> SUBSET Flag]
    <3>1. Unblock(s, "SENDING") /\ UNCHANGED priority /\ "SENDING" \in Flag
      BY <2>1, <2>2 DEF Flag
    <3>2. s \in User => rq.curr \in Task \cup Server
      BY <2>1, <2>2
    <3> QED
      BY <2>4, <3>1, <3>2, UnblockKeepsLists
  <2>7. /\ "SENDING" \notin flags'[s] /\ flags'[s] \subseteq flags[s]
        /\ \A p \in Proc \ {s} : flags'[p] = flags[p]
    BY <2>5, <1>1 DEF StepTypes
  <2>8. /\ IsList(callers'[c], Proc) /\ ToSet(callers'[c]) = ToSet(callers[c]) \ {s}
        /\ \A q \in Proc \ {c} : callers'[q] = callers[q]
    <3>1. callers'[c] = RemoveAt(callers[c], i)
      BY <2>1, <1>1 DEF StepTypes
    <3>2. IsList(RemoveAt(callers[c], i), Proc)
          /\ ToSet(RemoveAt(callers[c], i)) = ToSet(callers[c]) \ {callers[c][i]}
      BY <1>2, <2>3, RemoveAtList
    <3> QED
      BY <3>1, <3>2, <2>1, <2>2, <1>1 DEF StepTypes
  <2>9. StepTypes'
    <3>1. callers' \in [Proc -> Seq(Proc)]
      BY <2>1, <2>8, <1>1 DEF StepTypes, IsList
    <3> QED
      BY <3>1, <2>1, <2>6, <1>1 DEF StepTypes
  <2>10. CallersAreSenders'
    <3>1. ASSUME NEW q \in Proc
          PROVE  /\ IsInjective(callers'[q])
                 /\ ToSet(callers'[q]) = {p \in Proc : "SENDING" \in flags'[p] /\ sendTo'[p] = q}
      <4>1. sendTo' = sendTo /\ (q # c => s \notin ToSet(callers[q]))
        BY <2>1, <2>4, <1>2
      <4>2. CASE q = c
        BY <4>1, <4>2, <2>4, <2>7, <2>8, <1>2 DEF IsList
      <4>3. CASE q # c
        BY <4>1, <4>3, <2>4, <2>7, <2>8, <1>2 DEF IsList
      <4> QED
        BY <4>2, <4>3
    <3>2. \A p \in Proc : "SENDING" \in flags'[p] =>
              sendTo'[p] \in Proc /\ priority'[sendTo'[p]] \in {"task", "server"}
      BY <2>1, <2>7 DEF IpcInv, CallersAreSenders
    <3> QED
      BY <3>1, <3>2 DEF CallersAreSenders
  <2>11. NoSendCycle'
    BY <2>1, <2>7, FewerSenders DEF IpcInv
  <2>12. NoMissedRendezvous'
    <3> SUFFICES ASSUME NEW p \in Proc, flags'[p] \cap {"SENDING", "RECEIVING"} = {"RECEIVING"}
                 PROVE  /\ \A x \in ToSet(callers'[p]) : ~ Matches(getFrom[p], x)
                        /\ intBlocked[p] => getFrom[p] \notin {ANY, HARDWARE}
      BY <2>1 DEF NoMissedRendezvous
    <3>1. CASE p = s
      <4>1. {"SENDING", "RECEIVING"} \subseteq flags[s]
        BY <3>1, <2>4, <2>7
      <4>2. getFrom[p] = c
        BY <4>1, <3>1, <2>4 DEF IpcInv, SameProcess
      <4>3. c \notin ToSet(callers[p])
        BY <2>3, <1>2
      <4> QED
        BY <4>2, <4>3, <3>1, <2>4, <2>8, ClassesAreDisjoint DEF Matches
    <3>2. CASE p # s
      <4>1. flags[p] \cap {"SENDING", "RECEIVING"} = {"RECEIVING"} /\ p # c
        BY <3>2, <2>7, <2>3, <2>4
      <4> QED
        BY <4>1, <2>8 DEF IpcInv, NoMissedRendezvous
    <3> QED
      BY <3>1, <3>2
  <2>13. SameProcess' /\ MapsUser'
    <3>1. \A p \in Proc : flags'[p] \subseteq flags[p]
      BY <2>7
    <3> QED
      BY <3>1, <2>1 DEF IpcInv, SameProcess, MapsUser
  <2> QED
    BY <2>1, <2>6, <2>9, <2>10, <2>11, <2>12, <2>13 DEF IpcInv
<1>4. CASE ReceiveInterrupt(c, src)
  <2>1. /\ UNCHANGED <<priority, flags, sendTo, getFrom, callers, rq>>
        /\ intBlocked' \in [Proc -> BOOLEAN]
        /\ \A p \in Proc : intBlocked'[p] => intBlocked[p]
    BY <1>4, <1>1 DEF ReceiveInterrupt, StepTypes
  <2>2. StepTypes'
    BY <2>1, <1>1 DEF StepTypes
  <2>3. SchedInv'
    BY <2>1 DEF SchedInv, Classified, ReadyListsExact, Queued
  <2>4. CallersAreSenders' /\ NoSendCycle' /\ SameProcess' /\ MapsUser'
    BY <2>1 DEF IpcInv, CallersAreSenders, NoSendCycle, SameProcess, MapsUser
  <2>5. NoMissedRendezvous'
    BY <2>1 DEF IpcInv, NoMissedRendezvous
  <2> QED
    BY <2>1, <2>2, <2>3, <2>4, <2>5 DEF IpcInv
<1>5. CASE ReceiveBlock(c, src)
  <2>1. /\ Candidates(c, src) = {} /\ ~ TakesInterrupt(c, src)
        /\ getFrom' = [getFrom EXCEPT ![c] = src]
        /\ flags' = [flags EXCEPT ![c] = @ \cup {"RECEIVING"}]
        /\ UNCHANGED <<priority, sendTo, callers, intBlocked>>
    BY <1>5 DEF ReceiveBlock, Block
  <2>2. SchedInv' /\ flags' \in [Proc -> SUBSET Flag]
    <3>1. Block(c, "RECEIVING") /\ UNCHANGED priority /\ "RECEIVING" \in Flag
      BY <1>5 DEF ReceiveBlock, Flag
    <3> QED
      BY <3>1, BlockKeepsLists
  <2>3. /\ getFrom'[c] = src /\ flags'[c] = flags[c] \cup {"RECEIVING"}
        /\ \A p \in Proc \ {c} : flags'[p] = flags[p] /\ getFrom'[p] = getFrom[p]
    BY <2>1, <1>1 DEF StepTypes
  <2>4. StepTypes'
    BY <2>1, <2>2, <1>1 DEF StepTypes
  <2>5. \A p \in Proc : "SENDING" \in flags'[p] <=> "SENDING" \in flags[p]
    BY <2>3
  <2>6. CallersAreSenders'
    BY <2>1, <2>5 DEF IpcInv, CallersAreSenders
  <2>7. NoSendCycle'
    BY <2>1, <2>5, FewerSenders DEF IpcInv
  <2>8. NoMissedRendezvous'
    <3> SUFFICES ASSUME NEW p \in Proc, flags'[p] \cap {"SENDING", "RECEIVING"} = {"RECEIVING"}
                 PROVE  /\ \A x \in ToSet(callers[p]) : ~ Matches(getFrom'[p], x)
                        /\ intBlocked[p] => getFrom'[p] \notin {ANY, HARDWARE}
      BY <2>1 DEF NoMissedRendezvous
    <3>1. CASE p = c
      <4>1. "SENDING" \notin flags[c]
        BY <3>1, <2>3
      <4>2. \A i \in DOMAIN callers[c] : ~ Matches(src, callers[c][i])
        BY <4>1, <2>1 DEF Candidates
      <4> QED
        BY <3>1, <4>1, <4>2, <2>1, <2>3 DEF ToSet, TakesInterrupt
    <3>2. CASE p # c
      BY <3>2, <2>3 DEF IpcInv, NoMissedRendezvous
    <3> QED
      BY <3>1, <3>2
  <2>9. SameProcess' /\ MapsUser'
    BY <2>1, <2>3 DEF IpcInv, SameProcess, MapsUser
  <2> QED
    BY <2>1, <2>2, <2>4, <2>6, <2>7, <2>8, <2>9 DEF IpcInv
<1> QED
  BY <1>3, <1>4, <1>5 DEF flyanx_receive

-----------------------------------------------------------------------------
(* The type invariant from its parts.                                      *)
LEMMA TypesTogether ==
    ASSUME StepTypes', SchedInv', secondHalf' \in {<<>>} \cup (Proc \X Proc)
    PROVE  TypeOK'
BY DEF StepTypes, SchedInv, GoodRq, ListsOK, RQ, TypeOK

(* The first state.                                                        *)
LEMMA InitImpliesIInv == Init => IInv
<1> SUFFICES ASSUME Init PROVE IInv
  OBVIOUS
<1>1. /\ \A t \in Task : priority[t] = "task"
      /\ \A t \in Server : priority[t] = "server"
      /\ \A u \in User : priority[u] \in {"user", "none"}
      /\ priority[ORIGIN] = "user"
      /\ priority \in [Proc -> Priority]
  <2>1. \A p \in Proc : priority[p] = CASE p \in Task -> "task"
                                       [] p \in Server -> "server"
                                       [] p = ORIGIN -> "user"
                                       [] OTHER -> "none"
    BY Zenon DEF Init
  <2>2. priority = [p \in Proc |-> priority[p]]
    BY DEF Init
  <2>3. \A t \in Task : priority[t] = "task"
    BY <2>1, ClassesAreDisjoint, ProcAssumption
  <2>4. \A t \in Server : priority[t] = "server"
    BY <2>1, ClassesAreDisjoint, ProcAssumption
  <2>5. \A u \in User : priority[u] \in {"user", "none"}
    BY <2>1, ClassesAreDisjoint, ProcAssumption
  <2>6. priority[ORIGIN] = "user"
    BY <2>1, ClassesAreDisjoint, ProcAssumption
  <2>7. \A p \in Proc : priority[p] \in Priority
    BY <2>3, <2>4, <2>5, ClassesAreDisjoint DEF Priority, Classes
  <2> QED
    BY <2>2, <2>3, <2>4, <2>5, <2>6, <2>7
<1> USE DEF Init
<1>2. \A p \in Proc : flags[p] = {} /\ callers[p] = <<>>
  OBVIOUS
<1>3. StepTypes
  <2>1. <<>> \in Seq(Proc)
    OBVIOUS
  <2> QED
    BY <2>1, <1>1, <1>2 DEF StepTypes
<1>4. /\ rq.queue["task"] = BootTasks /\ rq.queue["server"] = BootServers
      /\ rq.queue["user"] = <<ORIGIN>>
      /\ rq.tail["task"] = BootTasks[Len(BootTasks)]
      /\ rq.tail["server"] = BootServers[Len(BootServers)] /\ rq.tail["user"] = NIL
      /\ rq.curr = BootTasks[1]
  BY DEF Classes
<1>5. ORIGIN \in User /\ SYS \in Task /\ MM \in Server
  BY ProcAssumption
<1>6. /\ IsList(BootTasks, Task) /\ ToSet(BootTasks) = Task
      /\ IsList(BootServers, Server) /\ ToSet(BootServers) = Server
  BY BootAssumption DEF IsList
<1>7. /\ BootTasks # <<>> /\ BootTasks[1] \in Task /\ BootTasks[Len(BootTasks)] \in Task
      /\ Head(BootTasks) = BootTasks[1] /\ BootServers[Len(BootServers)] \in Server
  <2>1. BootTasks # <<>> /\ BootServers # <<>>
    BY <1>5, <1>6 DEF ToSet
  <2>2. Len(BootTasks) \in Nat \ {0} /\ Len(BootServers) \in Nat \ {0}
    BY <2>1, <1>6, EmptySeq, LenProperties DEF IsList
  <2>3. DOMAIN BootTasks = 1..Len(BootTasks) /\ DOMAIN BootServers = 1..Len(BootServers)
    BY <1>6, LenProperties DEF IsList
  <2>4. 1 \in 1..Len(BootTasks) /\ Len(BootTasks) \in 1..Len(BootTasks)
        /\ Len(BootServers) \in 1..Len(BootServers)
    BY <2>2
  <2>5. Head(BootTasks) = BootTasks[1]
    OBVIOUS
  <2> QED
    BY <2>1, <2>3, <2>4, <2>5, <1>6 DEF ToSet
<1>8. /\ IsList(BootTasks, Proc) /\ IsList(BootServers, Proc)
      /\ IsList(<<ORIGIN>>, Proc) /\ ToSet(<<ORIGIN>>) = {ORIGIN}
  <2>1. Task \subseteq Proc /\ Server \subseteq Proc /\ ORIGIN \in Proc
    BY <1>5 DEF Proc
  <2>2. BootTasks \in Seq(Proc) /\ BootServers \in Seq(Proc)
    <3>1. BootTasks \in Seq(Task) /\ BootServers \in Seq(Server)
      BY <1>6 DEF IsList
    <3> QED
      BY ONLY <2>1, <3>1, SeqMonotonic
  <2>3. IsInjective(<<ORIGIN>>) /\ ToSet(<<ORIGIN>>) = {ORIGIN}
    BY DEF IsInjective, ToSet
  <2>4. <<ORIGIN>> \in Seq(Proc)
    BY <2>1
  <2>5. IsInjective(BootTasks) /\ IsInjective(BootServers)
    BY BootAssumption
  <2> QED
    BY ONLY <2>2, <2>3, <2>4, <2>5 DEF IsList
<1>9. ListsOK(rq, Proc)
  <2>1. rq.queue \in [Classes -> Seq(Proc)] /\ rq.tail \in [Classes -> Proc \cup {NIL}]
    BY <1>7, <1>8 DEF IsList, Classes, Proc
  <2>2. rq.curr \in Proc
    BY <1>4, <1>7 DEF Proc
  <2>3. rq = [queue |-> rq.queue, tail |-> rq.tail, curr |-> rq.curr]
    OBVIOUS
  <2>4. rq \in RQ(Proc)
    BY <2>1, <2>2, <2>3 DEF RQ
  <2> QED
    BY <2>4, <1>4, <1>8 DEF ListsOK, Classes
<1>10. GoodRq(rq, Proc)
  <2>1. HeadRuns(rq, "task")
    BY <1>4, <1>7 DEF HeadRuns
  <2>2. rq.curr # IDLE
    BY <1>4, <1>7, ClassesAreDisjoint
  <2> QED
    BY <2>1, <2>2, <1>9, <1>4 DEF GoodRq, TailsExact, SomeHeadRuns, Classes
<1>11. ReadyListsExact
  <2>1. \A k \in Classes : IsInjective(rq.queue[k])
    BY <1>9 DEF ListsOK, IsList
  <2>2. \A k \in Classes : ToSet(rq.queue[k]) \subseteq {p \in Proc : priority[p] = k /\ flags[p] = {}}
    BY <1>1, <1>2, <1>4, <1>5, <1>6, <1>8, ClassesAreDisjoint DEF Classes
  <2>3. \A p \in Task \cup Server : Queued(rq, priority[p], p)
    <3>1. ToSet(rq.queue["task"]) = Task /\ ToSet(rq.queue["server"]) = Server
      BY ONLY <1>4, <1>6
    <3> QED
      BY ONLY <1>1, <3>1 DEF Queued
  <2> QED
    BY <2>1, <2>2, <2>3 DEF ReadyListsExact
<1>12. SchedInv
  BY <1>1, <1>2, <1>10, <1>11, ClassesAreDisjoint DEF SchedInv, Classified
<1>13. IpcInv
  <2>1. \A q \in Proc : IsInjective(callers[q]) /\ ToSet(callers[q]) = {}
    BY <1>2 DEF IsInjective, ToSet
  <2> QED
    BY <2>1, <1>2 DEF IpcInv, CallersAreSenders, NoSendCycle, NoMissedRendezvous, SameProcess, MapsUser
<1>14. TypeOK
  BY <1>3, <1>9 DEF StepTypes, ListsOK, RQ, TypeOK
<1> QED
  BY <1>12, <1>13, <1>14 DEF IInv, BetweenHalves

-----------------------------------------------------------------------------
(* A change that leaves every flag that matters to message passing, and    *)
(* what the flags point at, alone.                                         *)
LEMMA IpcUndisturbed ==
    ASSUME IpcInv, sendTo' = sendTo, getFrom' = getFrom, callers' = callers,
           intBlocked' = intBlocked,
           \A p \in Proc : "SENDING" \in flags'[p] <=> "SENDING" \in flags[p],
           \A p \in Proc : "RECEIVING" \in flags'[p] => "RECEIVING" \in flags[p],
           \A p \in Proc : "NO_MAP" \in flags'[p] => "NO_MAP" \in flags[p],
           \A p \in Proc : priority[p] \in {"task", "server"} => priority'[p] = priority[p]
    PROVE  IpcInv'
<1>1. CallersAreSenders'
  BY DEF IpcInv, CallersAreSenders
<1>2. NoSendCycle'
  BY FewerSenders DEF IpcInv
<1>3. NoMissedRendezvous'
  BY DEF IpcInv, NoMissedRendezvous
<1>4. SameProcess' /\ MapsUser'
  BY DEF IpcInv, SameProcess, MapsUser
<1> QED
  BY <1>1, <1>2, <1>3, <1>4 DEF IpcInv

(* A sys_call without a second half.                                       *)
LEMMA CallSendKeepsIInv ==
    ASSUME IInv, CallSend
    PROVE  IInv'
<1>1. PICK d \in ReplyTargets(rq.curr) : flyanx_send(rq.curr, d)
  BY DEF CallSend, Caller
<1>2. /\ rq.curr \in Proc /\ priority[rq.curr] # "user"
      /\ secondHalf = <<>> /\ secondHalf' = <<>>
  BY DEF CallSend, InProcess, Caller, IsUser
<1>3. d \in Proc \ {rq.curr}
  BY <1>1, <1>2, ClassesAreDisjoint DEF ReplyTargets, Proc
<1>4. d \in User => rq.curr \in Server /\ WillTake(d, rq.curr)
  <2> SUFFICES ASSUME d \in User PROVE rq.curr \in Server /\ WillTake(d, rq.curr)
    OBVIOUS
  <2>1. rq.curr \notin Task /\ WaitingFor(d, rq.curr)
    BY <1>1, ClassesAreDisjoint DEF ReplyTargets
  <2>2. rq.curr \in Server
    <3>1. rq.curr \in User => flags[rq.curr] = {} /\ priority[rq.curr] \in Classes
      BY <1>2, RunningProcess DEF IInv
    <3> QED
      BY <1>2, <2>1, <3>1, ClassesAreDisjoint DEF IInv, SchedInv, Classified, Classes
  <2> QED
    BY <2>1, <2>2 DEF WaitingFor, WillTake
<1>5. StepTypes' /\ SchedInv' /\ IpcInv'
  BY <1>1, <1>2, <1>3, <1>4, SendStep DEF IInv
<1> QED
  BY <1>2, <1>5, TypesTogether DEF IInv, BetweenHalves

(* The call of a process that receives.                                    *)
LEMMA CallReceiveKeepsIInv ==
    ASSUME IInv, CallReceive
    PROVE  IInv'
<1>1. PICK src \in ReceiveSource(rq.curr) : flyanx_receive(rq.curr, src)
  BY DEF CallReceive, Caller
<1>2. /\ rq.curr \in Proc /\ priority[rq.curr] # "user"
      /\ secondHalf = <<>> /\ secondHalf' = <<>>
  BY DEF CallReceive, InProcess, Caller, IsUser
<1>3. src \in Source
  BY DEF ReceiveSource, Source
<1>4. flags[rq.curr] = {} /\ priority[rq.curr] # "none"
  BY <1>2, RunningProcess DEF IInv, Classes
<1>5. rq.curr \in Task \cup Server
  BY <1>2, <1>4, ClassesAreDisjoint DEF IInv, SchedInv, Classified
<1>6. StepTypes' /\ SchedInv' /\ IpcInv'
  BY <1>1, <1>2, <1>3, <1>4, <1>5, ReceiveStep DEF IInv
<1> QED
  BY <1>2, <1>6, TypesTogether DEF IInv, BetweenHalves

(* The two halves of SEND_REC.                                             *)
LEMMA CallSendRecKeepsIInv ==
    ASSUME IInv, CallSendRec
    PROVE  IInv'
<1>1. PICK d \in CallTargets(rq.curr) :
           flyanx_send(rq.curr, d) /\ secondHalf' = <<rq.curr, d>>
  BY DEF CallSendRec, Caller
<1>2. rq.curr \in Proc
  BY DEF CallSendRec, InProcess, Caller
<1>3. d \in Proc \ {rq.curr}
  BY <1>1, ClassesAreDisjoint DEF CallTargets
<1>4. priority[rq.curr] # "none" /\ (rq.curr \in User => priority[rq.curr] = "user")
  BY <1>2, RunningProcess DEF IInv, Classes, SchedInv, Classified
<1>5. d \in Task \cup Server
  <2>1. CASE rq.curr \in User
    BY <2>1, <1>1, <1>4 DEF flyanx_send, SendAllowed, IsUser
  <2>2. CASE rq.curr \notin User
    <3>1. priority[rq.curr] # "user"
      BY <2>2, <1>2, ClassesAreDisjoint DEF IInv, SchedInv, Classified
    <3> QED
      BY <3>1, <1>1 DEF CallTargets, IsUser
  <2> QED
    BY <2>1, <2>2
<1>6. d \notin User
  BY <1>5, ClassesAreDisjoint
<1>7. /\ StepTypes' /\ SchedInv' /\ IpcInv' /\ UNCHANGED priority
      /\ flags'[rq.curr] = {} \/ (flags'[rq.curr] = {"SENDING"} /\ sendTo'[rq.curr] = d)
  BY <1>1, <1>2, <1>3, <1>6, SendStep DEF IInv
<1>8. TypeOK'
  BY <1>1, <1>2, <1>3, <1>7, TypesTogether
<1>9. BetweenHalves'
  <2>1. secondHalf'[1] = rq.curr /\ secondHalf'[2] = d
    BY <1>1
  <2> QED
    BY <2>1, <1>4, <1>5, <1>7 DEF BetweenHalves
<1> QED
  BY <1>7, <1>8, <1>9 DEF IInv

(* The second half of a send_rec.                                          *)
LEMMA CallSendRecReceiveKeepsIInv ==
    ASSUME IInv, CallSendRecReceive
    PROVE  IInv'
<1>1. PICK c \in Proc, d \in Proc : secondHalf = <<c, d>>
  BY DEF IInv, TypeOK, CallSendRecReceive
<1>2. flyanx_receive(c, d) /\ secondHalf' = <<>>
  BY <1>1 DEF CallSendRecReceive
<1>3. /\ flags[c] = {} \/ (flags[c] = {"SENDING"} /\ sendTo[c] = d)
      /\ priority[c] # "none" /\ (c \in User \/ d \in Task \cup Server)
  <2>1. secondHalf # <<>> /\ secondHalf[1] = c /\ secondHalf[2] = d
    BY <1>1 DEF CallSendRecReceive
  <2> QED
    BY <2>1 DEF IInv, BetweenHalves
<1>4. \A i \in Candidates(c, d) : callers[c][i] \notin User
  <2> SUFFICES ASSUME NEW i \in Candidates(c, d), callers[c][i] \in User PROVE FALSE
    OBVIOUS
  <2>1. callers[c][i] = d /\ d \in ToSet(callers[c])
    <3>1. i \in DOMAIN callers[c] /\ Matches(d, callers[c][i])
      BY DEF Candidates
    <3>2. callers[c][i] = d
      BY <3>1, <1>1, ClassesAreDisjoint DEF Matches
    <3> QED
      BY <3>1, <3>2 DEF ToSet
  <2>2. "SENDING" \in flags[d] /\ sendTo[d] = c
    BY <2>1 DEF IInv, IpcInv, CallersAreSenders
  <2>3. c \notin User
    BY <2>2 DEF IInv, IpcInv, CallersAreSenders, SchedInv, Classified
  <2> QED
    BY <2>1, <2>3, <1>3, ClassesAreDisjoint
<1>5. d \in Source
  BY DEF Source
<1>6. StepTypes' /\ SchedInv' /\ IpcInv'
  BY <1>2, <1>3, <1>4, <1>5, ReceiveStep DEF IInv
<1> QED
  BY <1>2, <1>6, TypesTogether DEF IInv, BetweenHalves

-----------------------------------------------------------------------------
(* An interrupt wakes the task that waits for it, or is remembered.        *)
LEMMA InterruptKeepsIInv ==
    ASSUME IInv, NEW t \in IrqTask, Interrupt(t)
    PROVE  IInv'
<1>1. /\ t \in Task /\ t \in Proc /\ priority[t] = "task" /\ "task" \in Classes
      /\ "NO_MAP" \notin flags[t]
  BY ClassesAreDisjoint DEF IInv, SchedInv, Classified, IpcInv, MapsUser, Classes
<1>2. UNCHANGED <<priority, sendTo, getFrom, callers, secondHalf>> /\ secondHalf = <<>>
  BY DEF Interrupt
<1>3. StepTypes
  BY DEF IInv, TypeOK, StepTypes
<1>4. CASE ~ WaitsForInterrupt(t)
  <2>1. intBlocked' = [intBlocked EXCEPT ![t] = TRUE] /\ UNCHANGED <<flags, rq>>
    BY <1>4 DEF Interrupt
  <2>2. SchedInv'
    BY <1>2, <2>1 DEF IInv, SchedInv, Classified, ReadyListsExact, Queued
  <2>3. CallersAreSenders' /\ NoSendCycle' /\ SameProcess' /\ MapsUser'
    BY <1>2, <2>1 DEF IInv, IpcInv, CallersAreSenders, NoSendCycle, SameProcess, MapsUser
  <2>4. NoMissedRendezvous'
    <3>1. \A p \in Proc \ {t} : intBlocked'[p] = intBlocked[p]
      BY <1>3, <2>1 DEF StepTypes
    <3>2. flags[t] \cap {"SENDING", "RECEIVING"} = {"RECEIVING"} => getFrom[t] \notin {ANY, HARDWARE}
      BY <1>4 DEF WaitsForInterrupt
    <3> QED
      BY <1>2, <2>1, <3>1, <3>2 DEF IInv, IpcInv, NoMissedRendezvous
  <2>5. StepTypes'
    BY <1>2, <1>3, <2>1 DEF StepTypes
  <2> QED
    BY <1>2, <2>2, <2>3, <2>4, <2>5, TypesTogether DEF IInv, IpcInv, BetweenHalves
<1>5. CASE WaitsForInterrupt(t)
  <2>1. /\ flags' = [flags EXCEPT ![t] = @ \ {"RECEIVING"}]
        /\ intBlocked' = [intBlocked EXCEPT ![t] = FALSE]
        /\ rq' = ReadySystem(rq, "task", t)
    BY <1>5 DEF Interrupt
  <2>2. flags[t] = {"RECEIVING"}
    BY <1>1, <1>3, <1>5 DEF WaitsForInterrupt, StepTypes, Flag
  <2>3. /\ flags'[t] = {} /\ flags' \in [Proc -> SUBSET Flag]
        /\ \A p \in Proc \ {t} : flags'[p] = flags[p]
    BY <1>1, <1>3, <2>1, <2>2 DEF StepTypes
  <2>4. t \notin ToSet(rq.queue["task"]) /\ GoodRq(rq, Proc) /\ IDLE \notin Proc
    BY <1>1, <2>2, ClassesAreDisjoint DEF IInv, SchedInv, ReadyListsExact
  <2>5. /\ GoodRq(rq', Proc)
        /\ ToSet(rq'.queue["task"]) = ToSet(rq.queue["task"]) \cup {t}
        /\ \A l \in Classes \ {"task"} : rq'.queue[l] = rq.queue[l]
    <3>1. /\ GoodRq(ReadySystem(rq, "task", t), Proc)
          /\ ToSet(ReadySystem(rq, "task", t).queue["task"]) = ToSet(rq.queue["task"]) \cup {t}
          /\ \A l \in Classes \ {"task"} : ReadySystem(rq, "task", t).queue[l] = rq.queue[l]
      BY ONLY <1>1, <2>4, ReadySystemGood
    <3> QED
      BY <2>1, <3>1
  <2>6. ReadyListsExact'
    <3>1. \A l \in Classes : IsInjective(rq'.queue[l])
      BY <2>5 DEF GoodRq, ListsOK, IsList
    <3>2. \A l \in Classes : ToSet(rq.queue[l]) \subseteq {x \in Proc : priority[x] = l /\ flags[x] = {}}
      BY DEF IInv, SchedInv, ReadyListsExact
    <3>3. \A l \in Classes : ToSet(rq'.queue[l]) \subseteq {x \in Proc : priority'[x] = l /\ flags'[x] = {}}
      BY <3>2, <2>5, <2>3, <1>1, <1>2
    <3>4. ASSUME NEW x \in Task \cup Server, flags'[x] = {} PROVE Queued(rq', priority'[x], x)
      <4>1. x \in Proc /\ priority[x] \in Classes
        BY ClassesAreDisjoint DEF IInv, SchedInv, Classified, Classes
      <4>2. x # t => Queued(rq, priority[x], x)
        BY <2>3, <3>4, <4>1 DEF IInv, SchedInv, ReadyListsExact
      <4> QED
        BY <4>1, <4>2, <2>5, <1>1, <1>2 DEF Queued
    <3> QED
      BY <3>1, <3>3, <3>4 DEF ReadyListsExact
  <2>7. Classified'
    BY <1>1, <1>2, <2>3, ClassesAreDisjoint DEF IInv, SchedInv, Classified
  <2>8. \A p \in Proc : /\ "SENDING" \in flags'[p] <=> "SENDING" \in flags[p]
                        /\ flags'[p] # {} => flags'[p] = flags[p]
                        /\ intBlocked'[p] => intBlocked[p]
    BY <2>2, <2>3, <2>1, <1>3 DEF StepTypes
  <2>9. CallersAreSenders' /\ NoSendCycle'
    BY <1>2, <2>8, FewerSenders DEF IInv, IpcInv, CallersAreSenders
  <2>10. NoMissedRendezvous'
    BY <1>2, <2>8 DEF IInv, IpcInv, NoMissedRendezvous
  <2>11. SameProcess' /\ MapsUser'
    BY <1>2, <2>2, <2>3 DEF IInv, IpcInv, SameProcess, MapsUser
  <2>12. StepTypes'
    BY <1>2, <1>3, <2>1, <2>3 DEF StepTypes
  <2>13. SchedInv'
    BY <2>5, <2>6, <2>7 DEF SchedInv
  <2> QED
    BY <1>2, <2>9, <2>10, <2>11, <2>12, <2>13, TypesTogether DEF IInv, IpcInv, BetweenHalves
<1> QED
  BY <1>4, <1>5

(* The rotation of the user list may lose its head, never anything else.   *)
LEMMA QuantumEndKeepsIInv ==
    ASSUME IInv, QuantumEnd
    PROVE  IInv'
<1>1. rq' = Schedule(rq) /\ UNCHANGED <<priority, flags, sendTo, getFrom, callers, intBlocked, secondHalf>>
  BY DEF QuantumEnd, ipcVars
<1>2. GoodRq(rq, Proc) /\ IDLE \notin Proc
  BY ClassesAreDisjoint DEF IInv, SchedInv
<1>3. /\ GoodRq(rq', Proc)
      /\ ToSet(rq'.queue["user"]) \subseteq ToSet(rq.queue["user"])
      /\ \A l \in Classes \ {"user"} : rq'.queue[l] = rq.queue[l]
  BY <1>1, <1>2, ScheduleGood
<1>4. ReadyListsExact'
  <2>1. \A l \in Classes : IsInjective(rq'.queue[l])
    BY <1>3 DEF GoodRq, ListsOK, IsList
  <2>2. \A l \in Classes : ToSet(rq'.queue[l]) \subseteq ToSet(rq.queue[l])
    BY <1>3
  <2>3. \A p \in Task \cup Server : priority[p] \in Classes \ {"user"}
    BY DEF IInv, SchedInv, Classified, Classes
  <2> QED
    BY <2>1, <2>2, <2>3, <1>1, <1>3 DEF IInv, SchedInv, ReadyListsExact, Queued
<1>5. SchedInv'
  BY <1>1, <1>3, <1>4 DEF IInv, SchedInv, Classified
<1>6. IpcInv'
  BY <1>1, IpcUndisturbed DEF IInv
<1>7. StepTypes' /\ secondHalf' \in {<<>>} \cup (Proc \X Proc)
  BY <1>1 DEF IInv, TypeOK, StepTypes
<1> QED
  BY <1>1, <1>5, <1>6, <1>7, TypesTogether DEF IInv, BetweenHalves

-----------------------------------------------------------------------------
(* A user process blocked in a call to MM: nobody sends to it and it is on *)
(* no ready list.                                                          *)
LEMMA ClientFacts ==
    ASSUME IInv, NEW u \in MmClients
    PROVE  /\ u \in User /\ u \in Proc /\ priority[u] = "user"
           /\ flags[u] = {"RECEIVING"} /\ getFrom[u] = MM
           /\ \A p \in Proc : "SENDING" \in flags[p] => sendTo[p] # u
           /\ ToSet(callers[u]) = {}
           /\ \A k \in Classes : u \notin ToSet(rq.queue[k])
<1>1. u \in User /\ u \in Proc /\ priority[u] = "user" /\ flags[u] = {"RECEIVING"} /\ getFrom[u] = MM
  BY ClassesAreDisjoint DEF MmClients, WaitingFor
<1>2. \A p \in Proc : "SENDING" \in flags[p] => sendTo[p] # u
  BY <1>1 DEF IInv, IpcInv, CallersAreSenders
<1>3. ToSet(callers[u]) = {}
  BY <1>1, <1>2 DEF IInv, IpcInv, CallersAreSenders
<1>4. \A k \in Classes : u \notin ToSet(rq.queue[k])
  BY <1>1 DEF IInv, SchedInv, ReadyListsExact
<1> QED
  BY <1>1, <1>2, <1>3, <1>4

(* A process is put into an empty slot.                                    *)
LEMMA ForkKeepsIInv ==
    ASSUME IInv, NEW parent \in User, NEW child \in User, do_fork(parent, child)
    PROVE  IInv'
<1>1. /\ parent \in MmClients /\ priority[child] = "none" /\ child \in Proc
      /\ UNCHANGED <<rq, secondHalf>> /\ secondHalf = <<>>
  BY ClassesAreDisjoint DEF do_fork, Serving
<1>2. StepTypes
  BY DEF IInv, TypeOK, StepTypes
<1>3. /\ parent \in Proc /\ priority[parent] = "user" /\ flags[parent] = {"RECEIVING"}
      /\ getFrom[parent] = MM /\ ToSet(callers[parent]) = {}
  BY <1>1, ClientFacts
<1>4. flags[child] = {}
  BY <1>1 DEF IInv, SchedInv, Classified
<1>5. /\ priority'[child] = "user" /\ flags'[child] = {"RECEIVING", "NO_MAP"}
      /\ getFrom'[child] = MM /\ callers'[child] = callers[parent]
      /\ \A p \in Proc \ {child} :
            /\ priority'[p] = priority[p] /\ flags'[p] = flags[p] /\ sendTo'[p] = sendTo[p]
            /\ getFrom'[p] = getFrom[p] /\ callers'[p] = callers[p] /\ intBlocked'[p] = intBlocked[p]
  BY <1>1, <1>2, <1>3 DEF do_fork, StepTypes
<1>6. StepTypes'
  BY <1>1, <1>2, <1>3 DEF do_fork, StepTypes, Flag
<1>7. \A p \in Proc : "SENDING" \in flags'[p] =>
          p # child /\ "SENDING" \in flags[p] /\ sendTo'[p] = sendTo[p] /\ sendTo[p] # child
  BY <1>1, <1>5 DEF IInv, IpcInv, CallersAreSenders
<1>8. CallersAreSenders'
  <2>1. ASSUME NEW q \in Proc
        PROVE  /\ IsInjective(callers'[q])
               /\ ToSet(callers'[q]) = {p \in Proc : "SENDING" \in flags'[p] /\ sendTo'[p] = q}
    <3>1. CASE q = child
      <4>1. {p \in Proc : "SENDING" \in flags'[p] /\ sendTo'[p] = q} = {}
        BY <3>1, <1>7
      <4> QED
        BY <3>1, <4>1, <1>3, <1>5 DEF IInv, IpcInv, CallersAreSenders
    <3>2. CASE q # child
      <4>1. {p \in Proc : "SENDING" \in flags'[p] /\ sendTo'[p] = q}
            = {p \in Proc : "SENDING" \in flags[p] /\ sendTo[p] = q}
        BY <1>4, <1>5, <1>7
      <4> QED
        BY <3>2, <4>1, <1>5 DEF IInv, IpcInv, CallersAreSenders
    <3> QED
      BY <3>1, <3>2
  <2>2. \A p \in Proc : "SENDING" \in flags'[p] =>
            sendTo'[p] \in Proc /\ priority'[sendTo'[p]] \in {"task", "server"}
    BY <1>5, <1>7 DEF IInv, IpcInv, CallersAreSenders
  <2> QED
    BY <2>1, <2>2 DEF CallersAreSenders
<1>9. NoSendCycle'
  BY <1>7, FewerSenders DEF IInv, IpcInv
<1>10. NoMissedRendezvous'
  <2>1. MM \notin {ANY, HARDWARE} /\ ToSet(callers'[child]) = {}
    BY <1>3, <1>5, ClassesAreDisjoint
  <2> QED
    BY <2>1, <1>5 DEF IInv, IpcInv, NoMissedRendezvous
<1>11. SameProcess' /\ MapsUser'
  BY <1>5, <1>7 DEF IInv, IpcInv, SameProcess, MapsUser
<1>12. SchedInv'
  <2>1. Classified'
    BY <1>5, ClassesAreDisjoint DEF IInv, SchedInv, Classified
  <2>2. \A k \in Classes : child \notin ToSet(rq.queue[k])
    BY <1>1 DEF IInv, SchedInv, ReadyListsExact, Classes
  <2>3. child \notin Task \cup Server
    BY ClassesAreDisjoint
  <2>4. ReadyListsExact'
    BY <1>1, <1>5, <2>2, <2>3, ClassesAreDisjoint DEF IInv, SchedInv, ReadyListsExact, Queued
  <2> QED
    BY <2>1, <2>4, <1>1 DEF IInv, SchedInv
<1> QED
  BY <1>1, <1>6, <1>8, <1>9, <1>10, <1>11, <1>12, TypesTogether DEF IInv, IpcInv, BetweenHalves

(* The system task runs, so a user process that it lets go is readied      *)
(* while a task is running.                                                *)
LEMMA ReleaseKeepsIInv ==
    ASSUME IInv, NEW u \in User, NEW f \in {"NO_MAP", "RECEIVING"}, f \in flags[u],
           Serving, Unblock(u, f),
           UNCHANGED <<priority, sendTo, getFrom, callers, intBlocked, secondHalf>>
    PROVE  IInv'
<1>1. u \in Proc /\ f \in Flag /\ secondHalf = <<>>
  BY ClassesAreDisjoint DEF Flag, Serving
<1>2. rq.curr \in Task
  BY ProcAssumption DEF Serving, Caller
<1>3. SchedInv' /\ flags' \in [Proc -> SUBSET Flag]
  BY <1>1, <1>2, UnblockKeepsLists DEF IInv
<1>4. StepTypes'
  BY <1>3 DEF IInv, TypeOK, StepTypes
<1>5. flags' = [flags EXCEPT ![u] = @ \ {f}] /\ flags \in [Proc -> SUBSET Flag]
  BY DEF Unblock, IInv, TypeOK
<1>6. IpcInv'
  BY <1>5, IpcUndisturbed DEF IInv
<1> QED
  BY <1>1, <1>3, <1>4, <1>6, TypesTogether DEF IInv, BetweenHalves

(* A process leaves its slot, and every queue of senders.                  *)
LEMMA ExitKeepsIInv ==
    ASSUME IInv, NEW u \in User, do_exit(u)
    PROVE  IInv'
<1>1. u \in MmClients /\ secondHalf = <<>> /\ secondHalf' = <<>>
  BY DEF do_exit, Serving
<1>2. /\ u \in Proc /\ priority[u] = "user" /\ flags[u] = {"RECEIVING"}
      /\ \A p \in Proc : "SENDING" \in flags[p] => sendTo[p] # u
      /\ \A k \in Classes : u \notin ToSet(rq.queue[k])
  BY <1>1, ClientFacts
<1>3. /\ rq' = rq /\ callers' = callers /\ UNCHANGED <<sendTo, getFrom, intBlocked>>
      /\ flags' = [flags EXCEPT ![u] = {}] /\ priority' = [priority EXCEPT ![u] = "none"]
  BY <1>2 DEF do_exit
<1>4. StepTypes
  BY DEF IInv, TypeOK, StepTypes
<1>5. /\ flags'[u] = {} /\ priority'[u] = "none"
      /\ \A p \in Proc \ {u} : flags'[p] = flags[p] /\ priority'[p] = priority[p]
  BY <1>2, <1>3, <1>4 DEF StepTypes
<1>6. StepTypes'
  BY <1>3, <1>4 DEF StepTypes, Priority
<1>7. SchedInv'
  <2>1. Classified'
    BY <1>5, ClassesAreDisjoint DEF IInv, SchedInv, Classified
  <2>2. u \notin Task \cup Server
    BY ClassesAreDisjoint
  <2>3. ReadyListsExact'
    BY <1>2, <1>3, <1>5, <2>2, ClassesAreDisjoint DEF IInv, SchedInv, ReadyListsExact, Queued
  <2> QED
    BY <2>1, <2>3, <1>3 DEF IInv, SchedInv
<1>8. IpcInv'
  BY <1>2, <1>3, <1>5, IpcUndisturbed DEF IInv
<1> QED
  BY <1>1, <1>6, <1>7, <1>8, TypesTogether DEF IInv, BetweenHalves

-----------------------------------------------------------------------------
(* The inductive invariant holds in every reachable state.                 *)
THEOREM InductiveInvariant == Spec => []IInv
<1>1. IInv /\ [Next]_vars => IInv'
  <2> SUFFICES ASSUME IInv, [Next]_vars PROVE IInv'
    OBVIOUS
  <2>1. CASE CallSend
    BY <2>1, CallSendKeepsIInv
  <2>2. CASE CallReceive
    BY <2>2, CallReceiveKeepsIInv
  <2>3. CASE CallSendRec
    BY <2>3, CallSendRecKeepsIInv
  <2>4. CASE CallSendRecReceive
    BY <2>4, CallSendRecReceiveKeepsIInv
  <2>5. ASSUME NEW t \in IrqTask, Interrupt(t) PROVE IInv'
    BY <2>5, InterruptKeepsIInv
  <2>6. CASE QuantumEnd
    BY <2>6, QuantumEndKeepsIInv
  <2>7. ASSUME NEW p \in User, NEW c \in User, do_fork(p, c) PROVE IInv'
    BY <2>7, ForkKeepsIInv
  <2>8. ASSUME NEW u \in User, do_new_map(u) PROVE IInv'
    BY <2>8, ReleaseKeepsIInv DEF do_new_map
  <2>9. ASSUME NEW u \in User, do_exec(u) PROVE IInv'
    <3>1. u \in MmClients
      BY <2>9 DEF do_exec
    <3>2. "RECEIVING" \in flags[u]
      BY <3>1, ClientFacts
    <3> QED
      BY <2>9, <3>2, ReleaseKeepsIInv DEF do_exec
  <2>10. ASSUME NEW u \in User, do_exit(u) PROVE IInv'
    BY <2>10, ExitKeepsIInv
  <2>11. CASE UNCHANGED vars
    <3>1. UNCHANGED <<priority, flags, sendTo, getFrom, callers, intBlocked, rq, secondHalf>>
      BY <2>11 DEF vars, ipcVars
    <3>2. TypeOK' /\ BetweenHalves'
      BY <3>1 DEF IInv, TypeOK, BetweenHalves
    <3>3. SchedInv'
      BY <3>1 DEF IInv, SchedInv, Classified, ReadyListsExact, Queued
    <3>4. IpcInv'
      BY <3>1, IpcUndisturbed DEF IInv
    <3> QED
      BY <3>2, <3>3, <3>4 DEF IInv
  <2> QED
    BY <2>1, <2>2, <2>3, <2>4, <2>5, <2>6, <2>7, <2>8, <2>9, <2>10, <2>11 DEF Next
<1> QED
  BY <1>1, InitImpliesIInv, PTL DEF Spec

(* Type correctness, for every machine.                                    *)
THEOREM TypeCorrect == Spec => []TypeOK
<1>1. IInv => TypeOK
  BY DEF IInv
<1> QED
  BY <1>1, InductiveInvariant, PTL

(* A process is on the caller list of q exactly when it is SENDING to q.   *)
THEOREM CallerListsCorrect == Spec => []CallersAreSenders
<1>1. IInv => CallersAreSenders
  BY DEF IInv, IpcInv
<1> QED
  BY <1>1, InductiveInvariant, PTL

(* Senders never wait in a circle: the chain walk of flyanx_send finds     *)
(* every cycle that a send would close.                                    *)
THEOREM NoCycleOfSenders == Spec => []NoSendCycle
<1>1. IInv => NoSendCycle
  BY DEF IInv, IpcInv
<1> QED
  BY <1>1, InductiveInvariant, PTL

(* Sender and receiver never both sleep on a rendezvous they agree on, and *)
(* no task sleeps on an interrupt that has come.                           *)
THEOREM RendezvousNotMissed == Spec => []NoMissedRendezvous
<1>1. IInv => NoMissedRendezvous
  BY DEF IInv, IpcInv
<1> QED
  BY <1>1, InductiveInvariant, PTL

(* The ready lists hold unblocked processes of their class, each once, and *)
(* every unblocked task and server.                                        *)
THEOREM ReadyListsCorrect == Spec => []ReadyListsExact
<1>1. IInv => ReadyListsExact
  BY DEF IInv, SchedInv
<1> QED
  BY <1>1, InductiveInvariant, PTL

(* The CPU is given to the head of a ready list, and is idle only when all *)
(* of them are empty.                                                      *)
THEOREM RunningProcessHeadsAList == Spec => []CpuAtListHead
<1>1. IInv => CpuAtListHead
  <2> SUFFICES ASSUME IInv PROVE CpuAtListHead
    OBVIOUS
  <2>1. CASE rq.curr = IDLE
    BY <2>1 DEF IInv, SchedInv, GoodRq, SomeHeadRuns, CpuAtListHead
  <2>2. CASE rq.curr # IDLE
    <3>1. rq.curr \in Proc
      BY <2>2 DEF IInv, TypeOK
    <3>2. HeadRuns(rq, priority[rq.curr])
      BY <3>1, RunningProcess DEF IInv
    <3> QED
      BY <2>2, <3>2 DEF HeadRuns, CpuAtListHead
  <2> QED
    BY <2>1, <2>2
<1> QED
  BY <1>1, InductiveInvariant, PTL

-----------------------------------------------------------------------------
(* A receive drops no message and no interrupt.                            *)
LEMMA ReceiveTakes ==
    ASSUME TypeOK, IpcInv, NEW c \in Proc, NEW src \in Source,
           flags[c] = {} \/ (flags[c] = {"SENDING"} /\ sendTo[c] = src),
           flyanx_receive(c, src)
    PROVE  Taken
<1>1. StepTypes
  BY DEF TypeOK, StepTypes
<1>2. CASE ReceiveQueued(c, src)
  <2>1. PICK i \in Candidates(c, src) :
             /\ Unblock(callers[c][i], "SENDING")
             /\ callers' = [callers EXCEPT ![c] = RemoveAt(@, i)]
             /\ UNCHANGED <<priority, sendTo, getFrom, intBlocked>>
    BY <1>2 DEF ReceiveQueued
  <2>2. flags[c] = {} /\ i \in DOMAIN callers[c]
    BY <2>1 DEF Candidates
  <2>3. IsList(callers[c], Proc)
    BY <1>1 DEF IpcInv, CallersAreSenders, StepTypes, IsList
  <2>4. PICK s \in Proc : s = callers[c][i] /\ s \in ToSet(callers[c])
    BY <2>2, <2>3 DEF IsList, ToSet
  <2>5. sendTo[s] = c
    BY <2>4 DEF IpcInv, CallersAreSenders
  <2>6. \A p \in Proc \ {s} : flags'[p] = flags[p]
    BY <1>1, <2>1, <2>4 DEF Unblock, StepTypes
  <2>7. Len(callers'[c]) = Len(callers[c]) - 1
    <3>1. callers'[c] = RemoveAt(callers[c], i)
      BY <2>1, <1>1 DEF StepTypes
    <3>2. Len(RemoveAt(callers[c], i)) = Len(callers[c]) - 1
      BY <2>2, <2>3, RemoveAtList
    <3> QED
      BY <3>1, <3>2
  <2> QED
    BY <2>1, <2>2, <2>5, <2>6, <2>7 DEF Taken
<1>3. CASE ReceiveInterrupt(c, src)
  <2>1. flags[c] = {} /\ flags' = flags
    BY <1>3 DEF ReceiveInterrupt, TakesInterrupt
  <2>2. \A p \in Proc \ {c} : intBlocked'[p] = intBlocked[p]
    BY <1>1, <1>3 DEF ReceiveInterrupt, StepTypes
  <2> QED
    BY <2>1, <2>2, ClassesAreDisjoint DEF Taken
<1>4. CASE ReceiveBlock(c, src)
  <2>1. intBlocked' = intBlocked /\ \A p \in Proc : "SENDING" \in flags[p] => "SENDING" \in flags'[p]
    BY <1>1, <1>4 DEF ReceiveBlock, Block, StepTypes
  <2> QED
    BY <2>1 DEF Taken
<1> QED
  BY <1>2, <1>3, <1>4 DEF flyanx_receive

(* A step that lets nobody stop SENDING and takes no pending interrupt.    *)
LEMMA NothingToTake ==
    ASSUME \A p \in Proc : "SENDING" \in flags[p] => "SENDING" \in flags'[p],
           \A t \in Task : intBlocked[t] => intBlocked'[t]
    PROVE  Taken
BY DEF Taken

(* A send takes no message that another process offers.                    *)
LEMMA SendTakesNothing ==
    ASSUME TypeOK, NEW c \in Proc, NEW d \in Proc, flyanx_send(c, d)
    PROVE  Taken
<1>1. intBlocked' = intBlocked /\ flags \in [Proc -> SUBSET Flag]
  BY DEF TypeOK, flyanx_send, SendDeliver, SendQueue
<1>2. \A p \in Proc : "SENDING" \in flags[p] => "SENDING" \in flags'[p]
  BY <1>1 DEF flyanx_send, SendDeliver, SendQueue, WillTake, Unblock, Block
<1> QED
  BY <1>1, <1>2, NothingToTake

(* No message and no interrupt is ever dropped.                            *)
THEOREM MessagesAreTaken == Spec => NothingDropped
<1>1. IInv /\ [Next]_vars => [Taken]_vars
  <2> SUFFICES ASSUME IInv, Next PROVE Taken
    BY DEF vars, ipcVars
  <2>0. StepTypes
    BY DEF IInv, TypeOK, StepTypes
  <2>1. CASE CallSend
    <3>1. PICK d \in ReplyTargets(rq.curr) : flyanx_send(rq.curr, d)
      BY <2>1 DEF CallSend, Caller
    <3>2. rq.curr \in Proc /\ d \in Proc
      BY <2>1, <3>1, ClassesAreDisjoint DEF CallSend, InProcess, Caller, ReplyTargets, Proc
    <3> QED
      BY <3>1, <3>2, SendTakesNothing DEF IInv
  <2>2. CASE CallReceive
    <3>1. PICK src \in ReceiveSource(rq.curr) : flyanx_receive(rq.curr, src)
      BY <2>2 DEF CallReceive, Caller
    <3>2. rq.curr \in Proc /\ src \in Source
      BY <2>2 DEF CallReceive, InProcess, Caller, ReceiveSource, Source
    <3>3. flags[rq.curr] = {}
      BY <3>2, RunningProcess DEF IInv
    <3> QED
      BY <3>1, <3>2, <3>3, ReceiveTakes DEF IInv
  <2>3. CASE CallSendRec
    <3>1. PICK d \in CallTargets(rq.curr) : flyanx_send(rq.curr, d)
      BY <2>3 DEF CallSendRec, Caller
    <3>2. rq.curr \in Proc /\ d \in Proc
      BY <2>3, <3>1, ClassesAreDisjoint DEF CallSendRec, InProcess, Caller, CallTargets, Proc
    <3> QED
      BY <3>1, <3>2, SendTakesNothing DEF IInv
  <2>4. CASE CallSendRecReceive
    <3>1. PICK c \in Proc, d \in Proc : secondHalf = <<c, d>>
      BY <2>4 DEF IInv, TypeOK, CallSendRecReceive
    <3>2. flyanx_receive(c, d) /\ d \in Source
      BY <2>4, <3>1 DEF CallSendRecReceive, Source
    <3>3. flags[c] = {} \/ (flags[c] = {"SENDING"} /\ sendTo[c] = d)
      <4>1. secondHalf # <<>> /\ secondHalf[1] = c /\ secondHalf[2] = d
        BY <2>4, <3>1 DEF CallSendRecReceive
      <4> QED
        BY <4>1 DEF IInv, BetweenHalves
    <3> QED
      BY <3>2, <3>3, ReceiveTakes DEF IInv
  <2>5. ASSUME NEW t \in IrqTask, Interrupt(t) PROVE Taken
    <3>1. \A p \in Proc : "SENDING" \in flags[p] => "SENDING" \in flags'[p]
      BY <2>0, <2>5 DEF Interrupt, StepTypes
    <3>2. \A x \in Task \ {t} : intBlocked'[x] = intBlocked[x]
      BY <2>0, <2>5, ClassesAreDisjoint DEF Interrupt, StepTypes
    <3>3. WaitsForInterrupt(t) => ~ intBlocked[t]
      BY ClassesAreDisjoint DEF WaitsForInterrupt, IInv, IpcInv, NoMissedRendezvous
    <3>4. intBlocked[t] => intBlocked'[t]
      BY <2>0, <2>5, <3>3, ClassesAreDisjoint DEF Interrupt, StepTypes
    <3> QED
      BY <3>1, <3>2, <3>4, NothingToTake
  <2>6. CASE QuantumEnd
    BY <2>6, NothingToTake DEF QuantumEnd, ipcVars
  <2>7. ASSUME NEW parent \in User, NEW child \in User, do_fork(parent, child) PROVE Taken
    <3>1. flags[child] = {} /\ child \notin Task /\ child \in Proc
      BY <2>7, ClassesAreDisjoint DEF do_fork, IInv, SchedInv, Classified
    <3>2. \A p \in Proc \ {child} : flags'[p] = flags[p] /\ intBlocked'[p] = intBlocked[p]
      BY <2>0, <2>7 DEF do_fork, StepTypes
    <3> QED
      BY <3>1, <3>2, NothingToTake, ClassesAreDisjoint
  <2>8. ASSUME NEW u \in User, do_new_map(u) PROVE Taken
    BY <2>0, <2>8, NothingToTake DEF do_new_map, Unblock, StepTypes
  <2>9. ASSUME NEW u \in User, do_exec(u) PROVE Taken
    BY <2>0, <2>9, NothingToTake DEF do_exec, Unblock, StepTypes
  <2>10. ASSUME NEW u \in User, do_exit(u) PROVE Taken
    <3>1. u \in MmClients /\ u \in Proc /\ intBlocked' = intBlocked
          /\ flags' = [flags EXCEPT ![u] = {}]
      BY <2>10, ClassesAreDisjoint DEF do_exit
    <3>2. flags[u] = {"RECEIVING"}
      BY <3>1, ClientFacts
    <3>3. \A p \in Proc : "SENDING" \in flags[p] => "SENDING" \in flags'[p]
      BY <2>0, <3>1, <3>2 DEF StepTypes
    <3> QED
      BY <3>1, <3>3, NothingToTake
  <2> QED
    BY <2>1, <2>2, <2>3, <2>4, <2>5, <2>6, <2>7, <2>8, <2>9, <2>10 DEF Next
<1> QED
  BY <1>1, InductiveInvariant, PTL DEF Spec, NothingDropped
=============================================================================
