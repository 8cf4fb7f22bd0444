---------------------------- MODULE Holes_proofs ----------------------------
(***************************************************************************)
(* The hole list is right for any memory and any sizes of images, and for  *)
(* images of one size it keeps the promise of Memory: a request is refused *)
(* only when there is no room, although holes that touch are not always    *)
(* merged.                                                                 *)
(***************************************************************************)
EXTENDS Holes, SequenceTheorems, FiniteSetTheorems, TLAPS

HoleKind == [base : Clicks, length : 1 .. TOTAL]
END == BASE + TOTAL
EndOf(h) == h.base + h.length
FreeOf(h) == UNION {Extent(h[i]) : i \in DOMAIN h}

(* A list in the order of the addresses, inside the memory.                *)
Listed(h) ==
    /\ h \in Seq(HoleKind)
    /\ \A i \in 1 .. Len(h) : EndOf(h[i]) <= END
    /\ \A i, j \in 1 .. Len(h) : i < j => EndOf(h[i]) <= h[j].base

ClicksOf(image) == Extent(Hole(image[1], image[2]))

(* What images have is theirs alone, and all the rest is free.             *)
Shared(h, imgs) ==
    /\ imgs \subseteq Clicks \X Sizes
    /\ \A a \in imgs : ClicksOf(a) \subseteq Clicks \ FreeOf(h)
    /\ \A a, b \in imgs : a # b => ClicksOf(a) \cap ClicksOf(b) = {}
    /\ FreeOf(h) \cup UNION {ClicksOf(a) : a \in imgs} = Clicks

IInv ==
    /\ Listed(hole) /\ Shared(hole, images)
    /\ free_slots \in Nat /\ free_slots = NR_HOLES - Len(hole)
    /\ merge_count \in 0 .. MERGE_LIMIT - 1
    /\ result \in Clicks \cup {NO_MEM}

-----------------------------------------------------------------------------
(* The parameters.                                                         *)
LEMMA Params ==
    /\ BASE \in Nat \ {0} /\ TOTAL \in Nat \ {0} /\ END \in Nat /\ NR_HOLES \in Nat \ {0}
    /\ MaxImages \in Nat /\ END = BASE + TOTAL /\ MERGE_LIMIT = 5
    /\ \A k \in Sizes : k \in Nat /\ k >= 1
    /\ \A x : x \in Clicks <=> x \in Nat /\ BASE <= x /\ x < END
BY HolesAssumption DEF END, Clicks, MERGE_LIMIT

(* The least number of a set of numbers.                                   *)
LEMMA NatLeast == ASSUME NEW T \in SUBSET Nat, T # {} PROVE Min(T) \in T /\ \A y \in T : Min(T) <= y
<1>1. \E x \in T : \A y \in T : x <= y
  <2> DEFINE R == OpToRel(<, Nat)
  <2>1. IsWellFoundedOn(R, Nat)
    BY NatLessThanWellFounded
  <2>2. T \subseteq Nat
    OBVIOUS
  <2> HIDE DEF R
  <2>3. PICK x \in T : \A y \in T : ~ (<<y, x>> \in R)
    BY <2>1, <2>2, WFMin
  <2>4. \A y \in T : ~ (y < x)
    BY <2>2, <2>3 DEF R, OpToRel
  <2> QED
    BY <2>2, <2>4
<1> QED
  BY <1>1 DEF Min

-----------------------------------------------------------------------------
(* Lists                                                                   *)

(* Taking out the hole at place i.                                         *)
LEMMA RemoveFields ==
    ASSUME NEW S, NEW h \in Seq(S), NEW i \in 1 .. Len(h), NEW u, u = RemoveAt(h, i)
    PROVE  /\ u \in Seq(S) /\ Len(u) = Len(h) - 1
           /\ \A j \in 1 .. Len(u) : u[j] = IF j < i THEN h[j] ELSE h[j + 1]
<1>1. Len(h) \in Nat /\ \A j \in 1 .. Len(h) : h[j] \in S
  OBVIOUS
<1> DEFINE a == SubSeq(h, 1, i - 1)
<1> DEFINE b == SubSeq(h, i + 1, Len(h))
<1>2. /\ a \in Seq(S) /\ Len(a) = i - 1
      /\ \A j \in 1 .. i - 1 : a[j] = h[j]
  <2>1. \A j \in 1 .. i - 1 : h[j] \in S
    BY <1>1
  <2>2. /\ a \in Seq(S) /\ Len(a) = IF 1 <= i - 1 THEN i - 1 - 1 + 1 ELSE 0
        /\ \A j \in 1 .. i - 1 - 1 + 1 : a[j] = h[1 + j - 1]
    BY <2>1, SubSeqProperties
  <2> QED
    BY <2>2
<1>3. /\ b \in Seq(S) /\ Len(b) = Len(h) - i
      /\ \A j \in 1 .. Len(h) - i : b[j] = h[i + j]
  <2>1. \A j \in i + 1 .. Len(h) : h[j] \in S
    BY <1>1
  <2>2. /\ b \in Seq(S) /\ Len(b) = IF i + 1 <= Len(h) THEN Len(h) - (i + 1) + 1 ELSE 0
        /\ \A j \in 1 .. Len(h) - (i + 1) + 1 : b[j] = h[i + 1 + j - 1]
    BY <1>1, <2>1, SubSeqProperties
  <2> QED
    BY <1>1, <2>2
<1>4. u = a \o b
  BY DEF RemoveAt
<1> HIDE DEF a, b
<1>5. /\ u \in Seq(S) /\ Len(u) = Len(a) + Len(b)
      /\ \A j \in 1 .. Len(a) + Len(b) : u[j] = IF j <= Len(a) THEN a[j] ELSE b[j - Len(a)]
  <2>1. a \in Seq(S) /\ b \in Seq(S)
    BY <1>2, <1>3
  <2>2. /\ a \o b \in Seq(S) /\ Len(a \o b) = Len(a) + Len(b)
        /\ \A j \in 1 .. Len(a) + Len(b) : (a \o b)[j] = IF j <= Len(a) THEN a[j] ELSE b[j - Len(a)]
    BY <2>1, ConcatProperties
  <2> QED
    BY <1>4, <2>2
<1>6. Len(u) = Len(h) - 1
  BY <1>1, <1>2, <1>3, <1>5
<1>7. ASSUME NEW j \in 1 .. Len(u) PROVE u[j] = IF j < i THEN h[j] ELSE h[j + 1]
  <2>1. CASE j < i
    <3>1. j \in 1 .. i - 1 /\ j <= Len(a) /\ j \in 1 .. Len(a) + Len(b)
      BY <1>1, <1>2, <1>3, <1>6, <2>1
    <3> QED
      BY <1>2, <1>5, <2>1, <3>1
  <2>2. CASE ~ (j < i)
    <3>1. /\ j - Len(a) \in 1 .. Len(h) - i /\ ~ (j <= Len(a)) /\ j \in 1 .. Len(a) + Len(b)
          /\ i + (j - Len(a)) = j + 1
      BY <1>1, <1>2, <1>3, <1>6, <2>2
    <3>2. u[j] = b[j - Len(a)]
      BY <1>5, <3>1
    <3>3. b[j - Len(a)] = h[i + (j - Len(a))]
      BY <1>3, <3>1
    <3> QED
      BY <2>2, <3>1, <3>2, <3>3
  <2> QED
    BY <2>1, <2>2
<1> QED
  BY <1>5, <1>6, <1>7

(* The list with a hole put in at place p.                                 *)
WithHole(u, h, p, e) ==
    /\ u \in Seq(HoleKind) /\ Len(u) = Len(h) + 1
    /\ \A j \in 1 .. Len(u) : u[j] = IF j < p THEN h[j] ELSE IF j = p THEN e ELSE h[j - 1]

(* InsertAt puts the hole in.                                              *)
LEMMA InsertFields ==
    ASSUME NEW h \in Seq(HoleKind), NEW i \in 1 .. Len(h) + 1, NEW e \in HoleKind,
           NEW u, u = InsertAt(h, i, e)
    PROVE  WithHole(u, h, i, e)
<1>1. Len(h) \in Nat /\ \A j \in 1 .. Len(h) : h[j] \in HoleKind
  OBVIOUS
<1> DEFINE a == SubSeq(h, 1, i - 1)
<1> DEFINE b == SubSeq(h, i, Len(h))
<1>2. /\ a \in Seq(HoleKind) /\ Len(a) = i - 1
      /\ \A j \in 1 .. i - 1 : a[j] = h[j]
  <2>1. \A j \in 1 .. i - 1 : h[j] \in HoleKind
    BY <1>1
  <2>2. /\ a \in Seq(HoleKind) /\ Len(a) = IF 1 <= i - 1 THEN i - 1 - 1 + 1 ELSE 0
        /\ \A j \in 1 .. i - 1 - 1 + 1 : a[j] = h[1 + j - 1]
    BY <2>1, SubSeqProperties
  <2> QED
    BY <2>2
<1>3. /\ b \in Seq(HoleKind) /\ Len(b) = Len(h) - i + 1
      /\ \A j \in 1 .. Len(h) - i + 1 : b[j] = h[i + j - 1]
  <2>1. \A j \in i .. Len(h) : h[j] \in HoleKind
    BY <1>1
  <2>2. /\ b \in Seq(HoleKind) /\ Len(b) = IF i <= Len(h) THEN Len(h) - i + 1 ELSE 0
        /\ \A j \in 1 .. Len(h) - i + 1 : b[j] = h[i + j - 1]
    BY <1>1, <2>1, SubSeqProperties
  <2> QED
    BY <1>1, <2>2
<1> DEFINE c == a \o <<e>>
<1>4. u = c \o b
  BY DEF InsertAt
<1>5. <<e>> \in Seq(HoleKind) /\ Len(<<e>>) = 1 /\ <<e>>[1] = e
  OBVIOUS
<1> HIDE DEF a, b
<1>6. /\ c \in Seq(HoleKind) /\ Len(c) = i
      /\ \A j \in 1 .. i : c[j] = IF j < i THEN h[j] ELSE e
  <2>1. /\ c \in Seq(HoleKind) /\ Len(c) = Len(a) + Len(<<e>>)
        /\ \A j \in 1 .. Len(a) + Len(<<e>>) : c[j] = IF j <= Len(a) THEN a[j] ELSE <<e>>[j - Len(a)]
    BY <1>2, <1>5, ConcatProperties
  <2> QED
    BY <1>1, <1>2, <1>5, <2>1
<1> HIDE DEF c
<1>7. /\ u \in Seq(HoleKind) /\ Len(u) = Len(c) + Len(b)
      /\ \A j \in 1 .. Len(c) + Len(b) : u[j] = IF j <= Len(c) THEN c[j] ELSE b[j - Len(c)]
  BY <1>3, <1>4, <1>6, ConcatProperties
<1>8. u \in Seq(HoleKind) /\ Len(u) = Len(h) + 1
  BY <1>1, <1>3, <1>6, <1>7
<1>9. ASSUME NEW j \in 1 .. Len(u)
      PROVE  u[j] = IF j < i THEN h[j] ELSE IF j = i THEN e ELSE h[j - 1]
  <2>1. CASE j <= i
    BY <1>1, <1>3, <1>6, <1>7, <1>8, <2>1
  <2>2. CASE j > i
    <3>1. u[j] = b[j - i] /\ j - i \in 1 .. Len(h) - i + 1
      BY <1>1, <1>3, <1>6, <1>7, <1>8, <2>2
    <3> QED
      BY <1>1, <1>3, <2>2, <3>1
  <2> QED
    BY <2>1, <2>2
<1> QED
  BY <1>8, <1>9 DEF WithHole

(* The numbers of a hole.                                                  *)
LEMMA HoleNumbers ==
    ASSUME NEW h \in Seq(HoleKind)
    PROVE  /\ Len(h) \in Nat /\ DOMAIN h = 1 .. Len(h)
           /\ \A i \in 1 .. Len(h) :
                 /\ h[i] \in HoleKind /\ h[i].base \in Nat /\ h[i].base >= BASE /\ h[i].base < END
                 /\ h[i].length \in Nat /\ h[i].length >= 1
                 /\ EndOf(h[i]) \in Nat /\ EndOf(h[i]) = h[i].base + h[i].length
<1>1. Len(h) \in Nat /\ DOMAIN h = 1 .. Len(h) /\ \A i \in 1 .. Len(h) : h[i] \in HoleKind
  OBVIOUS
<1>2. ASSUME NEW e \in HoleKind
      PROVE  /\ e.base \in Nat /\ e.base >= BASE /\ e.base < END
             /\ e.length \in Nat /\ e.length >= 1
  <2>1. e.base \in Clicks /\ e.length \in 1 .. TOTAL
    BY DEF HoleKind
  <2> QED
    BY <2>1, Params
<1>3. \A e \in HoleKind : EndOf(e) \in Nat /\ EndOf(e) = e.base + e.length
  BY <1>2 DEF EndOf
<1> QED
  BY <1>1, <1>2, <1>3

(* A click is free when it lies in one of the holes.                       *)
LEMMA FreeMember ==
    ASSUME NEW h \in Seq(HoleKind), NEW x
    PROVE  x \in FreeOf(h) <=>
              /\ x \in Int
              /\ \E i \in 1 .. Len(h) : h[i].base <= x /\ x < EndOf(h[i])
<1>1. Len(h) \in Nat /\ DOMAIN h = 1 .. Len(h)
  OBVIOUS
<1>2. ASSUME NEW i \in 1 .. Len(h)
      PROVE  x \in Extent(h[i]) <=> x \in Int /\ h[i].base <= x /\ x < EndOf(h[i])
  BY HoleNumbers DEF Extent
<1> QED
  BY <1>1, <1>2 DEF FreeOf

(* What an image has.                                                      *)
LEMMA ImageMember ==
    ASSUME NEW b \in Nat, NEW k \in Nat, NEW x
    PROVE  x \in ClicksOf(<<b, k>>) <=> x \in Int /\ b <= x /\ x < b + k
BY DEF ClicksOf, Extent, Hole

-----------------------------------------------------------------------------
(* The steps of the list                                                   *)

(* The holes of a list are apart, and the order of the places is the order *)
(* of the addresses.                                                       *)
LEMMA Apart ==
    ASSUME NEW h, Listed(h), NEW i \in 1 .. Len(h), NEW j \in 1 .. Len(h)
    PROVE  /\ i < j => EndOf(h[i]) <= h[j].base /\ h[i].base < h[j].base
           /\ h[i].base < h[j].base => i < j
<1>1. h \in Seq(HoleKind)
  BY DEF Listed
<1>2. /\ i \in Nat /\ j \in Nat
      /\ h[i].base \in Nat /\ h[i].length >= 1 /\ h[i].length \in Nat /\ EndOf(h[i]) = h[i].base + h[i].length
      /\ h[j].base \in Nat /\ h[j].length >= 1 /\ h[j].length \in Nat /\ EndOf(h[j]) = h[j].base + h[j].length
  BY <1>1, HoleNumbers
<1>3. i < j => EndOf(h[i]) <= h[j].base
  BY DEF Listed
<1>4. j < i => EndOf(h[j]) <= h[i].base
  BY DEF Listed
<1> QED
  BY <1>2, <1>3, <1>4

(* What is left of one hole.                                               *)
LEMMA CutHole ==
    ASSUME NEW c \in HoleKind, NEW k \in Nat, k >= 1, c.length > k, EndOf(c) <= END,
           NEW e, e = Hole(c.base + k, c.length - k)
    PROVE  /\ e \in HoleKind /\ e.base = c.base + k /\ e.length = c.length - k
           /\ EndOf(e) = EndOf(c) /\ e.base \in Nat
<1>1. c.base \in Clicks /\ c.length \in 1 .. TOTAL
  BY DEF HoleKind
<1>2. c.base \in Nat /\ BASE <= c.base /\ c.length \in Nat /\ c.length <= TOTAL /\ EndOf(c) = c.base + c.length
  BY <1>1, Params DEF EndOf
<1>3. e.base = c.base + k /\ e.length = c.length - k /\ EndOf(e) = e.base + e.length
  BY DEF Hole, EndOf
<1>4. /\ e.base \in Nat /\ BASE <= e.base /\ e.base < END
      /\ e.length \in 1 .. TOTAL /\ EndOf(e) = EndOf(c)
  <2>1. TOTAL \in Nat /\ BASE \in Nat /\ END \in Nat
    BY Params
  <2> QED
    BY <1>2, <1>3, <2>1
<1>5. e.base \in Clicks
  BY <1>4, Params
<1>6. e = [base |-> c.base + k, length |-> c.length - k]
  BY DEF Hole
<1>7. e \in HoleKind
  BY <1>3, <1>4, <1>5, <1>6 DEF HoleKind
<1> QED
  BY <1>3, <1>4, <1>7

(* Cutting clicks from the low end of a hole.                              *)
CutAt(h, i, k) == [h EXCEPT ![i] = Hole(@.base + k, @.length - k)]

(* A hole that is cut at its low end keeps its place and its end.          *)
LEMMA Carve ==
    ASSUME NEW h, Listed(h), NEW i \in 1 .. Len(h), NEW k \in Nat, k >= 1, h[i].length > k,
           NEW u, u = CutAt(h, i, k)
    PROVE  /\ Listed(u) /\ Len(u) = Len(h)
           /\ \A j \in 1 .. Len(h) : j # i => u[j] = h[j]
           /\ u[i].base = h[i].base + k /\ EndOf(u[i]) = EndOf(h[i])
           /\ \A x : x \in FreeOf(u) <=> x \in FreeOf(h) /\ ~ (h[i].base <= x /\ x < h[i].base + k)
<1>1. /\ h \in Seq(HoleKind) /\ Len(h) \in Nat
      /\ \A j \in 1 .. Len(h) : EndOf(h[j]) <= END
      /\ \A j, m \in 1 .. Len(h) : j < m => EndOf(h[j]) <= h[m].base
  BY DEF Listed
<1>2. /\ h[i].base \in Nat /\ h[i].base >= BASE /\ h[i].length \in Nat /\ h[i].length \in 1 .. TOTAL
      /\ EndOf(h[i]) = h[i].base + h[i].length /\ EndOf(h[i]) <= END
  <2>1. h[i] \in HoleKind
    BY <1>1, HoleNumbers
  <2> QED
    BY <1>1, <2>1, HoleNumbers DEF HoleKind
<1> DEFINE e == Hole(h[i].base + k, h[i].length - k)
<1>3. /\ e \in HoleKind /\ e.base = h[i].base + k /\ e.length = h[i].length - k
      /\ EndOf(e) = EndOf(h[i]) /\ e.base \in Nat
  <2>1. h[i] \in HoleKind
    BY <1>1, HoleNumbers
  <2> QED
    BY <1>2, <2>1, CutHole
<1>6. u = [h EXCEPT ![i] = e]
  BY DEF CutAt
<1> HIDE DEF e
<1>7. /\ u \in Seq(HoleKind) /\ Len(u) = Len(h) /\ u[i] = e
      /\ \A j \in 1 .. Len(h) : j # i => u[j] = h[j]
  BY <1>1, <1>3, <1>6, ExceptSeq
<1>8. /\ \A j \in 1 .. Len(h) : EndOf(u[j]) = EndOf(h[j])
      /\ \A j \in 1 .. Len(h) : u[j].base >= h[j].base
  <2>1. ASSUME NEW j \in 1 .. Len(h) PROVE EndOf(u[j]) = EndOf(h[j]) /\ u[j].base >= h[j].base
    <3>1. CASE j = i
      BY <1>2, <1>3, <1>7, <3>1
    <3>2. CASE j # i
      BY <1>1, <1>7, <3>2, HoleNumbers
    <3> QED
      BY <3>1, <3>2
  <2> QED
    BY <2>1
<1>9. Listed(u)
  <2>1. ASSUME NEW j \in 1 .. Len(u), NEW m \in 1 .. Len(u), j < m PROVE EndOf(u[j]) <= u[m].base
    <3>1. EndOf(h[j]) <= h[m].base /\ EndOf(u[j]) = EndOf(h[j]) /\ u[m].base >= h[m].base
      BY <1>1, <1>7, <1>8, <2>1
    <3>2. EndOf(h[j]) \in Nat /\ h[m].base \in Nat /\ u[m].base \in Nat
      BY <1>1, <1>7, HoleNumbers
    <3> QED
      BY <3>1, <3>2
  <2> QED
    BY <1>1, <1>7, <1>8, <2>1 DEF Listed
<1>10. ASSUME NEW x
       PROVE  x \in FreeOf(u) <=> x \in FreeOf(h) /\ ~ (h[i].base <= x /\ x < h[i].base + k)
  <2>1. ASSUME x \in FreeOf(u)
        PROVE  x \in FreeOf(h) /\ ~ (h[i].base <= x /\ x < h[i].base + k)
    <3>1. PICK j \in 1 .. Len(h) : u[j].base <= x /\ x < EndOf(u[j])
      BY <1>7, <2>1, FreeMember
    <3>2. x \in Int
      BY <1>7, <2>1, FreeMember
    <3>3. h[j].base \in Nat /\ u[j].base \in Nat /\ u[j].base >= h[j].base /\ EndOf(u[j]) = EndOf(h[j]) /\ EndOf(h[j]) \in Nat
      BY <1>1, <1>7, <1>8, HoleNumbers
    <3>4. x \in FreeOf(h)
      BY <1>1, <3>1, <3>2, <3>3, FreeMember
    <3>5. ~ (h[i].base <= x /\ x < h[i].base + k)
      <4>1. CASE j = i
        BY <1>2, <1>3, <1>7, <3>1, <3>2, <4>1
      <4>2. CASE j < i
        <5>1. EndOf(h[j]) <= h[i].base
          BY <1>1, <4>2
        <5> QED
          BY <1>2, <3>1, <3>2, <3>3, <5>1
      <4>3. CASE j > i
        <5>1. EndOf(h[i]) <= h[j].base
          BY <1>1, <4>3
        <5> QED
          BY <1>2, <3>1, <3>2, <3>3, <5>1
      <4> QED
        BY <4>1, <4>2, <4>3
    <3> QED
      BY <3>4, <3>5
  <2>2. ASSUME x \in FreeOf(h), ~ (h[i].base <= x /\ x < h[i].base + k)
        PROVE  x \in FreeOf(u)
    <3>1. PICK j \in 1 .. Len(h) : h[j].base <= x /\ x < EndOf(h[j])
      BY <1>1, <2>2, FreeMember
    <3>2. x \in Int
      BY <1>1, <2>2, FreeMember
    <3>3. u[j].base <= x /\ x < EndOf(u[j])
      <4>1. CASE j = i
        BY <1>2, <1>3, <1>7, <1>8, <2>2, <3>1, <3>2, <4>1
      <4>2. CASE j # i
        BY <1>7, <3>1, <4>2
      <4> QED
        BY <4>1, <4>2
    <3> QED
      BY <1>7, <3>2, <3>3, FreeMember
  <2> QED
    BY <2>1, <2>2
<1> QED
  BY <1>3, <1>7, <1>9, <1>10

(* A hole that is used up is taken out.                                    *)
LEMMA TakeOut ==
    ASSUME NEW h, Listed(h), NEW i \in 1 .. Len(h), NEW u, u = RemoveAt(h, i)
    PROVE  /\ Listed(u) /\ Len(u) = Len(h) - 1
           /\ \A j \in 1 .. Len(u) : u[j] = IF j < i THEN h[j] ELSE h[j + 1]
           /\ \A x : x \in FreeOf(u) <=> x \in FreeOf(h) /\ ~ (h[i].base <= x /\ x < EndOf(h[i]))
<1>1. /\ h \in Seq(HoleKind) /\ Len(h) \in Nat
      /\ \A j \in 1 .. Len(h) : EndOf(h[j]) <= END
      /\ \A j, m \in 1 .. Len(h) : j < m => EndOf(h[j]) <= h[m].base
  BY DEF Listed
<1>2. /\ u \in Seq(HoleKind) /\ Len(u) = Len(h) - 1
      /\ \A j \in 1 .. Len(u) : u[j] = IF j < i THEN h[j] ELSE h[j + 1]
  BY <1>1, RemoveFields
<1> DEFINE old(j) == IF j < i THEN j ELSE j + 1
<1>3. /\ \A j \in 1 .. Len(u) : old(j) \in 1 .. Len(h) /\ old(j) # i /\ u[j] = h[old(j)]
      /\ \A j, m \in 1 .. Len(u) : j < m => old(j) < old(m)
      /\ \A m \in 1 .. Len(h) : m # i => \E j \in 1 .. Len(u) : old(j) = m
  <2>1. ASSUME NEW m \in 1 .. Len(h), m # i PROVE \E j \in 1 .. Len(u) : old(j) = m
    <3>1. CASE m < i
      BY <1>1, <1>2, <3>1
    <3>2. CASE m > i
      <4>1. m - 1 \in 1 .. Len(u) /\ old(m - 1) = m
        BY <1>1, <1>2, <3>2
      <4> QED
        BY <4>1
    <3> QED
      BY <2>1, <3>1, <3>2
  <2>2. ASSUME NEW j \in 1 .. Len(u) PROVE old(j) \in 1 .. Len(h) /\ old(j) # i /\ u[j] = h[old(j)]
    <3>1. old(j) \in 1 .. Len(h) /\ old(j) # i
      BY <1>1, <1>2
    <3>2. u[j] = h[old(j)]
      BY <1>2
    <3> QED
      BY <3>1, <3>2
  <2>3. ASSUME NEW j \in 1 .. Len(u), NEW m \in 1 .. Len(u), j < m PROVE old(j) < old(m)
    BY <1>1, <1>2, <2>3
  <2> HIDE DEF old
  <2> QED
    BY <2>1, <2>2, <2>3
<1> HIDE DEF old
<1>4. Listed(u)
  BY <1>1, <1>2, <1>3 DEF Listed
<1>5. ASSUME NEW x
      PROVE  x \in FreeOf(u) <=> x \in FreeOf(h) /\ ~ (h[i].base <= x /\ x < EndOf(h[i]))
  <2>1. ASSUME x \in FreeOf(u)
        PROVE  x \in FreeOf(h) /\ ~ (h[i].base <= x /\ x < EndOf(h[i]))
    <3>1. PICK j \in 1 .. Len(u) : u[j].base <= x /\ x < EndOf(u[j])
      BY <1>2, <2>1, FreeMember
    <3>2. x \in Int
      BY <1>2, <2>1, FreeMember
    <3>3. PICK m \in 1 .. Len(h) : m # i /\ h[m].base <= x /\ x < EndOf(h[m])
      BY <1>3, <3>1
    <3>4. x \in FreeOf(h)
      BY <1>1, <3>2, <3>3, FreeMember
    <3>5. /\ h[m].base \in Nat /\ EndOf(h[m]) \in Nat /\ h[i].base \in Nat /\ EndOf(h[i]) \in Nat
          /\ m < i => EndOf(h[m]) <= h[i].base
          /\ i < m => EndOf(h[i]) <= h[m].base
      BY <1>1, HoleNumbers
    <3> QED
      BY <3>2, <3>3, <3>4, <3>5
  <2>2. ASSUME x \in FreeOf(h), ~ (h[i].base <= x /\ x < EndOf(h[i]))
        PROVE  x \in FreeOf(u)
    <3>1. PICK m \in 1 .. Len(h) : h[m].base <= x /\ x < EndOf(h[m])
      BY <1>1, <2>2, FreeMember
    <3>2. x \in Int
      BY <1>1, <2>2, FreeMember
    <3>3. m # i
      BY <2>2, <3>1
    <3>4. PICK j \in 1 .. Len(u) : old(j) = m
      BY <1>3, <3>3
    <3>5. u[j].base <= x /\ x < EndOf(u[j])
      BY <1>3, <3>1, <3>4
    <3> QED
      BY <1>2, <3>2, <3>5, FreeMember
  <2> QED
    BY <2>1, <2>2
<1> QED
  BY <1>2, <1>4, <1>5

(* The holes that begin below an address are the first of the list.        *)
LEMMA PlaceSplits ==
    ASSUME NEW h, Listed(h), NEW b \in Nat, NEW n, n = Cardinality({i \in DOMAIN h : h[i].base < b})
    PROVE  n \in 0 .. Len(h) /\ \A i \in 1 .. Len(h) : h[i].base < b <=> i <= n
<1>1. h \in Seq(HoleKind) /\ Len(h) \in Nat /\ DOMAIN h = 1 .. Len(h)
  BY DEF Listed
<1> DEFINE N == Len(h)
<1> DEFINE below == {i \in 1 .. N : h[i].base < b}
<1> DEFINE above == 1 .. N \ below
<1>2. n = Cardinality(below)
  BY <1>1
<1>3. ASSUME NEW i \in 1 .. N, NEW j \in 1 .. N, i < j, j \in below PROVE i \in below
  <2>1. h[i].base < h[j].base /\ h[i].base \in Nat /\ h[j].base \in Nat
    BY <1>1, <1>3, Apart, HoleNumbers
  <2> QED
    BY <1>3, <2>1
<1>4. \E m \in 0 .. N : below = 1 .. m
  <2>1. CASE above = {}
    BY <1>1, <2>1
  <2>2. CASE above # {}
    <3>1. above \in SUBSET Nat
      BY <1>1
    <3> DEFINE m == Min(above)
    <3>2. m \in above /\ \A y \in above : m <= y
      BY <2>2, <3>1, NatLeast
    <3> HIDE DEF m
    <3>3. m \in 1 .. N /\ m - 1 \in 0 .. N
      BY <1>1, <3>2
    <3>4. \A i \in 1 .. N : i < m => i \in below
      BY <1>1, <3>2, <3>3
    <3>5. \A i \in below : i < m
      <4>1. SUFFICES ASSUME NEW i \in below, ~ (i < m) PROVE FALSE
        OBVIOUS
      <4>2. i = m \/ m < i
        BY <1>1, <3>3, <4>1
      <4> QED
        BY <1>3, <3>2, <3>3, <4>1, <4>2
    <3>6. below = 1 .. m - 1
      <4>1. below \subseteq 1 .. m - 1
        BY <1>1, <3>3, <3>5
      <4>2. 1 .. m - 1 \subseteq below
        BY <1>1, <3>3, <3>4
      <4> QED
        BY <4>1, <4>2
    <3> QED
      BY <3>3, <3>6
  <2> QED
    BY <2>1, <2>2
<1>5. PICK m \in 0 .. N : below = 1 .. m
  BY <1>4
<1>6. Cardinality(1 .. m) = m
  BY <1>1, FS_Interval
<1>7. n = m
  BY <1>2, <1>5, <1>6
<1>8. \A i \in 1 .. N : h[i].base < b <=> i \in 1 .. m
  BY <1>5
<1> HIDE DEF below, above
<1>9. \A i \in 1 .. N : i \in 1 .. m <=> i <= m
  BY <1>1
<1> QED
  BY <1>7, <1>8, <1>9

(* Where a hole would go: behind those that end before it, in front of the *)
(* others.                                                                 *)
Gap(h, p, e) == \A i \in 1 .. Len(h) : IF i < p THEN EndOf(h[i]) <= e.base ELSE EndOf(e) <= h[i].base

(* A hole that holds nothing free lies in a gap of the list.               *)
LEMMA InGap ==
    ASSUME NEW h, Listed(h), NEW b \in Nat, NEW k \in Nat, k >= 1,
           ClicksOf(<<b, k>>) \cap FreeOf(h) = {}, NEW i \in 1 .. Len(h)
    PROVE  IF h[i].base < b THEN EndOf(h[i]) <= b ELSE b + k <= h[i].base
<1>1. h \in Seq(HoleKind)
  BY DEF Listed
<1>2. /\ h[i].base \in Nat /\ EndOf(h[i]) \in Nat /\ EndOf(h[i]) = h[i].base + h[i].length
      /\ h[i].length >= 1 /\ h[i].length \in Nat
  BY <1>1, HoleNumbers
<1>3. CASE h[i].base < b
  <2>1. b \notin FreeOf(h)
    BY ImageMember
  <2>2. ~ (h[i].base <= b /\ b < EndOf(h[i]))
    BY <1>1, <2>1, FreeMember
  <2> QED
    BY <1>2, <1>3, <2>2
<1>4. CASE ~ (h[i].base < b)
  <2>1. \E j \in 1 .. Len(h) : h[j].base <= h[i].base /\ h[i].base < EndOf(h[j])
    BY <1>2
  <2>2. h[i].base \in FreeOf(h)
    BY <1>1, <1>2, <2>1, FreeMember
  <2>3. h[i].base \notin ClicksOf(<<b, k>>)
    BY <2>2
  <2>4. ~ (b <= h[i].base /\ h[i].base < b + k)
    BY <1>2, <2>3, ImageMember
  <2> QED
    BY <1>2, <1>4, <2>4
<1> QED
  BY <1>3, <1>4

(* The holes of the list with one more.                                    *)
LEMMA PlacesMoved ==
    ASSUME NEW h \in Seq(HoleKind), NEW e, NEW p \in 1 .. Len(h) + 1, NEW u, WithHole(u, h, p, e)
    PROVE  /\ Len(h) \in Nat /\ Len(u) = Len(h) + 1 /\ u \in Seq(HoleKind)
           /\ p \in 1 .. Len(u) /\ u[p] = e
           /\ \A j \in 1 .. Len(u) : j < p => j \in 1 .. Len(h) /\ u[j] = h[j]
           /\ \A j \in 1 .. Len(u) : j > p => j - 1 \in 1 .. Len(h) /\ j - 1 >= p /\ u[j] = h[j - 1]
           /\ \A i \in 1 .. Len(h) : \E j \in 1 .. Len(u) : u[j] = h[i]
<1>1. Len(h) \in Nat /\ Len(u) = Len(h) + 1 /\ u \in Seq(HoleKind)
  BY DEF WithHole
<1>2. p \in 1 .. Len(u) /\ u[p] = e
  BY <1>1 DEF WithHole
<1>3. \A j \in 1 .. Len(u) : j < p => j \in 1 .. Len(h) /\ u[j] = h[j]
  BY <1>1 DEF WithHole
<1>4. \A j \in 1 .. Len(u) : j > p => j - 1 \in 1 .. Len(h) /\ j - 1 >= p /\ u[j] = h[j - 1]
  BY <1>1 DEF WithHole
<1>5. ASSUME NEW i \in 1 .. Len(h) PROVE \E j \in 1 .. Len(u) : u[j] = h[i]
  <2>1. CASE i < p
    <3>1. i \in 1 .. Len(u) /\ u[i] = h[i]
      BY <1>1, <2>1 DEF WithHole
    <3> QED
      BY <3>1
  <2>2. CASE ~ (i < p)
    <3>1. i + 1 \in 1 .. Len(u) /\ u[i + 1] = h[i]
      BY <1>1, <2>2 DEF WithHole
    <3> QED
      BY <3>1
  <2> QED
    BY <2>1, <2>2
<1> QED
  BY <1>1, <1>2, <1>3, <1>4, <1>5

(* A hole put into a gap keeps the order, and its clicks become free.      *)
LEMMA PutAt ==
    ASSUME NEW h, Listed(h), NEW e \in HoleKind, EndOf(e) <= END, NEW p \in 1 .. Len(h) + 1,
           Gap(h, p, e), NEW u, WithHole(u, h, p, e)
    PROVE  /\ Listed(u)
           /\ \A x : x \in FreeOf(u) <=> x \in FreeOf(h) \/ (x \in Int /\ e.base <= x /\ x < EndOf(e))
<1>1. /\ h \in Seq(HoleKind)
      /\ \A j \in 1 .. Len(h) : EndOf(h[j]) <= END
      /\ \A j, m \in 1 .. Len(h) : j < m => EndOf(h[j]) <= h[m].base
  BY DEF Listed
<1>2. /\ Len(h) \in Nat /\ Len(u) = Len(h) + 1 /\ u \in Seq(HoleKind)
      /\ p \in 1 .. Len(u) /\ u[p] = e
      /\ \A j \in 1 .. Len(u) : j < p => j \in 1 .. Len(h) /\ u[j] = h[j]
      /\ \A j \in 1 .. Len(u) : j > p => j - 1 \in 1 .. Len(h) /\ j - 1 >= p /\ u[j] = h[j - 1]
      /\ \A i \in 1 .. Len(h) : \E j \in 1 .. Len(u) : u[j] = h[i]
  BY <1>1, PlacesMoved
<1>3. \A j \in 1 .. Len(u) : j < p \/ j = p \/ j > p
  BY <1>2
<1>4. ASSUME NEW j \in 1 .. Len(u) PROVE EndOf(u[j]) <= END
  <2>1. CASE j < p
    BY <1>1, <1>2, <2>1
  <2>2. CASE j = p
    BY <1>2, <2>2
  <2>3. CASE j > p
    BY <1>1, <1>2, <2>3
  <2> QED
    BY <1>3, <2>1, <2>2, <2>3
<1>5. ASSUME NEW j \in 1 .. Len(u), NEW m \in 1 .. Len(u), j < m
      PROVE  EndOf(u[j]) <= u[m].base
  <2>1. CASE m < p
    <3>1. j < p
      BY <1>2, <1>5, <2>1
    <3> QED
      BY <1>1, <1>2, <1>5, <2>1, <3>1
  <2>2. CASE m = p
    <3>1. j < p /\ u[j] = h[j] /\ j \in 1 .. Len(h)
      BY <1>2, <1>5, <2>2
    <3>2. EndOf(h[j]) <= e.base
      BY <3>1 DEF Gap
    <3> QED
      BY <1>2, <2>2, <3>1, <3>2
  <2>3. CASE m > p
    <3> DEFINE q == m - 1
    <3>1. q \in 1 .. Len(h) /\ q >= p /\ u[m] = h[q]
      BY <1>2, <2>3
    <3>2. CASE j < p
      <4>1. u[j] = h[j] /\ j \in 1 .. Len(h) /\ j < q
        BY <1>2, <3>1, <3>2
      <4> QED
        BY <1>1, <3>1, <4>1
    <3>3. CASE j = p
      <4>1. u[j] = e /\ q \in 1 .. Len(h) /\ ~ (q < p)
        BY <1>2, <3>1, <3>3
      <4>2. EndOf(e) <= h[q].base
        BY <4>1 DEF Gap
      <4> QED
        BY <3>1, <4>1, <4>2
    <3>4. CASE j > p
      <4>1. u[j] = h[j - 1] /\ j - 1 \in 1 .. Len(h) /\ j - 1 < q
        BY <1>2, <1>5, <3>4
      <4> QED
        BY <1>1, <3>1, <4>1
    <3> QED
      BY <1>3, <3>2, <3>3, <3>4
  <2> QED
    BY <1>3, <2>1, <2>2, <2>3
<1>6. Listed(u)
  BY <1>2, <1>4, <1>5 DEF Listed
<1>7. ASSUME NEW x
      PROVE  x \in FreeOf(u) <=> x \in FreeOf(h) \/ (x \in Int /\ e.base <= x /\ x < EndOf(e))
  <2>1. ASSUME x \in FreeOf(u) PROVE x \in FreeOf(h) \/ (x \in Int /\ e.base <= x /\ x < EndOf(e))
    <3>1. x \in Int /\ \E j \in 1 .. Len(u) : u[j].base <= x /\ x < EndOf(u[j])
      BY <1>2, <2>1, FreeMember
    <3>2. PICK j \in 1 .. Len(u) : u[j].base <= x /\ x < EndOf(u[j])
      BY <3>1
    <3>3. u[j] = e \/ \E i \in 1 .. Len(h) : u[j] = h[i]
      BY <1>2, <1>3
    <3> QED
      BY <1>1, <3>1, <3>2, <3>3, FreeMember
  <2>2. ASSUME x \in FreeOf(h) PROVE x \in FreeOf(u)
    <3>1. x \in Int /\ \E i \in 1 .. Len(h) : h[i].base <= x /\ x < EndOf(h[i])
      BY <1>1, <2>2, FreeMember
    <3> QED
      BY <1>2, <3>1, FreeMember
  <2>3. ASSUME x \in Int, e.base <= x, x < EndOf(e) PROVE x \in FreeOf(u)
    BY <1>2, <2>3, FreeMember
  <2> QED
    BY <2>1, <2>2, <2>3
<1> QED
  BY <1>6, <1>7

(* Giving clicks back: the new hole goes in where its address says.        *)
LEMMA PutIn ==
    ASSUME NEW h, Listed(h), NEW b \in Nat, b >= BASE, NEW k \in Nat, k >= 1, b + k <= END,
           ClicksOf(<<b, k>>) \cap FreeOf(h) = {},
           NEW n, n = Cardinality({i \in DOMAIN h : h[i].base < b}), NEW p, p = n + 1,
           NEW u, u = InsertAt(h, p, Hole(b, k))
    PROVE  /\ p \in 1 .. Len(h) + 1 /\ \A i \in 1 .. Len(h) : h[i].base < b <=> i < p
           /\ Listed(u) /\ WithHole(u, h, p, Hole(b, k))
           /\ Gap(h, p, Hole(b, k))
           /\ \A x : x \in FreeOf(u) <=> x \in FreeOf(h) \/ x \in ClicksOf(<<b, k>>)
<1>1. h \in Seq(HoleKind) /\ Len(h) \in Nat
  BY DEF Listed
<1>2. n \in 0 .. Len(h) /\ \A i \in 1 .. Len(h) : h[i].base < b <=> i <= n
  BY PlaceSplits
<1>3. p \in 1 .. Len(h) + 1 /\ \A i \in 1 .. Len(h) : i <= n <=> i < p
  <2>1. PICK m \in 0 .. Len(h) : m = n
    BY <1>2
  <2>2. PICK q \in 1 .. Len(h) + 1 : q = m + 1
    BY <1>1
  <2>3. \A i \in 1 .. Len(h) : i <= m <=> i < q
    BY <1>1, <2>2
  <2>4. q = p
    BY <2>1, <2>2
  <2> QED
    BY <2>1, <2>3, <2>4
<1>4. \A i \in 1 .. Len(h) : h[i].base < b <=> i < p
  BY <1>2, <1>3
<1>5. PICK e : e = Hole(b, k)
  OBVIOUS
<1>6. e.base = b /\ e.length = k /\ EndOf(e) = b + k /\ e = [base |-> b, length |-> k]
  BY <1>5 DEF Hole, EndOf
<1>7. e \in HoleKind
  <2>1. b \in Clicks /\ k \in 1 .. TOTAL
    BY Params
  <2> QED
    BY <1>6, <2>1 DEF HoleKind
<1>8. \A i \in 1 .. Len(h) : IF h[i].base < b THEN EndOf(h[i]) <= b ELSE b + k <= h[i].base
  BY InGap
<1>9. Gap(h, p, e)
  BY <1>4, <1>6, <1>8 DEF Gap
<1>10. u = InsertAt(h, p, e)
  BY <1>5
<1>11. WithHole(u, h, p, e)
  BY <1>1, <1>3, <1>7, <1>10, InsertFields
<1>12. EndOf(e) <= END
  BY <1>6
<1>13. /\ Listed(u)
       /\ \A x : x \in FreeOf(u) <=> x \in FreeOf(h) \/ (x \in Int /\ e.base <= x /\ x < EndOf(e))
  BY <1>3, <1>7, <1>9, <1>11, <1>12, PutAt
<1>14. \A x : x \in ClicksOf(<<b, k>>) <=> (x \in Int /\ e.base <= x /\ x < EndOf(e))
  BY <1>6, ImageMember
<1> QED
  BY <1>3, <1>4, <1>5, <1>9, <1>11, <1>13, <1>14

(* The hole at place j swallows the next one.                              *)
Swallowed(u, h, j) ==
    /\ u \in Seq(HoleKind) /\ Len(u) = Len(h) - 1 /\ j \in 1 .. Len(u)
    /\ u[j].base = h[j].base /\ EndOf(u[j]) = EndOf(h[j + 1])
    /\ \A q \in 1 .. Len(u) : q < j => u[q] = h[q]
    /\ \A q \in 1 .. Len(u) : q > j => u[q] = h[q + 1]

(* One hole made of two that touch.                                        *)
LEMMA JoinedHole ==
    ASSUME NEW c \in HoleKind, NEW d \in HoleKind, c.base + c.length = d.base, EndOf(d) <= END
    PROVE  /\ [c EXCEPT !.length = c.length + d.length] \in HoleKind
           /\ [c EXCEPT !.length = c.length + d.length].base = c.base
           /\ EndOf([c EXCEPT !.length = c.length + d.length]) = EndOf(d)
<1> DEFINE e == [c EXCEPT !.length = c.length + d.length]
<1>1. /\ c.base \in Clicks /\ c.length \in 1 .. TOTAL /\ d.base \in Clicks /\ d.length \in 1 .. TOTAL
      /\ e = [base |-> c.base, length |-> c.length + d.length]
  BY DEF HoleKind
<1>2. e.base = c.base /\ e.length = c.length + d.length /\ EndOf(e) = e.base + e.length
      /\ EndOf(d) = d.base + d.length
  BY <1>1 DEF EndOf
<1> HIDE DEF e
<1>3. c.base \in Nat /\ BASE <= c.base /\ c.length \in Nat /\ d.length \in Nat /\ d.length >= 1 /\ c.length >= 1
  BY <1>1, Params
<1>4. EndOf(e) = EndOf(d)
  BY <1>2, <1>3
<1>5. c.length + d.length \in 1 .. TOTAL
  <2>1. BASE \in Nat /\ TOTAL \in Nat /\ END = BASE + TOTAL
    BY Params
  <2> QED
    BY <1>2, <1>3, <2>1
<1>6. e \in HoleKind
  BY <1>1, <1>5 DEF HoleKind
<1> QED
  BY <1>2, <1>4, <1>6 DEF e

(* The list with the hole at place j grown over the one at place m.        *)
Grown(v, h, j, m) ==
    /\ v \in Seq(HoleKind) /\ Len(v) = Len(h)
    /\ v[j].base = h[j].base /\ EndOf(v[j]) = EndOf(h[m])
    /\ \A q \in 1 .. Len(h) : q # j => v[q] = h[q]

(* Growing a hole over one that it touches.                                *)
LEMMA JoinFields ==
    ASSUME NEW h, Listed(h), NEW j \in 1 .. Len(h), NEW m \in 1 .. Len(h),
           h[j].base + h[j].length = h[m].base
    PROVE  Grown([h EXCEPT ![j].length = @ + h[m].length], h, j, m)
<1>1. h \in Seq(HoleKind) /\ EndOf(h[m]) <= END
  BY DEF Listed
<1>2. h[j] \in HoleKind /\ h[m] \in HoleKind
  BY <1>1, HoleNumbers
<1> DEFINE e == [h[j] EXCEPT !.length = h[j].length + h[m].length]
<1>3. e \in HoleKind /\ e.base = h[j].base /\ EndOf(e) = EndOf(h[m])
  BY <1>1, <1>2, JoinedHole
<1> DEFINE v == [h EXCEPT ![j] = e]
<1>4. [h EXCEPT ![j].length = @ + h[m].length] = v
  OBVIOUS
<1> HIDE DEF e
<1>5. /\ v \in Seq(HoleKind) /\ Len(v) = Len(h)
      /\ \A q \in 1 .. Len(h) : v[q] = IF q = j THEN e ELSE h[q]
  BY <1>1, <1>3, ExceptSeq
<1> HIDE DEF v
<1>6. v[j] = e
  BY <1>5
<1>7. Grown(v, h, j, m)
  BY <1>3, <1>5, <1>6 DEF Grown
<1> QED
  BY <1>4, <1>7

(* Growing a hole over the next and taking that out is swallowing it.      *)
LEMMA TwoInOne ==
    ASSUME NEW h, Listed(h), NEW j \in 1 .. Len(h), NEW m \in 1 .. Len(h), m = j + 1,
           NEW v, Grown(v, h, j, m), NEW u, u = RemoveAt(v, m)
    PROVE  Swallowed(u, h, j)
<1>1. h \in Seq(HoleKind) /\ Len(h) \in Nat
  BY DEF Listed
<1>2. /\ v \in Seq(HoleKind) /\ Len(v) = Len(h) /\ m \in 1 .. Len(v)
      /\ v[j].base = h[j].base /\ EndOf(v[j]) = EndOf(h[m])
      /\ \A q \in 1 .. Len(h) : q # j => v[q] = h[q]
  BY DEF Grown
<1>3. /\ u \in Seq(HoleKind) /\ Len(u) = Len(v) - 1
      /\ \A q \in 1 .. Len(u) : u[q] = IF q < m THEN v[q] ELSE v[q + 1]
  BY <1>2, RemoveFields
<1>4. Len(u) = Len(h) - 1 /\ j \in Nat /\ j \in 1 .. Len(u) /\ j < m
  BY <1>1, <1>2, <1>3
<1>5. u[j] = v[j]
  BY <1>3, <1>4
<1>6. ASSUME NEW q \in 1 .. Len(u), q < j PROVE u[q] = h[q]
  <2>1. q \in 1 .. Len(h) /\ q # j /\ q < m
    BY <1>1, <1>4, <1>6
  <2> QED
    BY <1>2, <1>3, <2>1
<1>7. ASSUME NEW q \in 1 .. Len(u), q > j PROVE u[q] = h[q + 1]
  <2>1. q + 1 \in 1 .. Len(h) /\ q + 1 # j /\ ~ (q < m)
    BY <1>1, <1>4, <1>7
  <2> QED
    BY <1>2, <1>3, <2>1
<1> QED
  BY <1>2, <1>3, <1>4, <1>5, <1>6, <1>7 DEF Swallowed

(* Swallowing leaves the same clicks free.                                 *)
LEMMA SameFree ==
    ASSUME NEW h, Listed(h), NEW j \in 1 .. Len(h), Adjacent(h, j), NEW u, Swallowed(u, h, j)
    PROVE  Listed(u) /\ \A x : x \in FreeOf(u) <=> x \in FreeOf(h)
<1>1. /\ h \in Seq(HoleKind) /\ Len(h) \in Nat
      /\ \A q \in 1 .. Len(h) : EndOf(h[q]) <= END
      /\ \A q, r \in 1 .. Len(h) : q < r => EndOf(h[q]) <= h[r].base
  BY DEF Listed
<1>2. u \in Seq(HoleKind) /\ Len(u) = Len(h) - 1 /\ j \in 1 .. Len(u) /\ j \in Nat
  BY DEF Swallowed
<1> DEFINE first(q) == IF q <= j THEN q ELSE q + 1
<1> DEFINE last(q) == IF q < j THEN q ELSE q + 1
<1>3. ASSUME NEW q \in 1 .. Len(u)
      PROVE  /\ first(q) \in 1 .. Len(h) /\ last(q) \in 1 .. Len(h)
             /\ u[q].base = h[first(q)].base /\ EndOf(u[q]) = EndOf(h[last(q)])
  <2>1. first(q) \in 1 .. Len(h) /\ last(q) \in 1 .. Len(h)
    BY <1>1, <1>2
  <2>2. CASE q < j
    BY <1>2, <2>1, <2>2 DEF Swallowed
  <2>3. CASE q = j
    BY <1>2, <2>1, <2>3 DEF Swallowed
  <2>4. CASE q > j
    BY <1>2, <2>1, <2>4 DEF Swallowed
  <2>5. q < j \/ q = j \/ q > j
    BY <1>2
  <2> HIDE DEF first, last
  <2> QED
    BY <2>1, <2>2, <2>3, <2>4, <2>5
<1>4. /\ \A q, r \in 1 .. Len(u) : q < r => last(q) < first(r)
      /\ \A q \in 1 .. Len(u) : q # j => first(q) = last(q)
      /\ first(j) = j /\ last(j) = j + 1
      /\ \A i \in 1 .. Len(h) : i # j /\ i # j + 1 => \E q \in 1 .. Len(u) : first(q) = i /\ last(q) = i
  <2>1. ASSUME NEW i \in 1 .. Len(h), i # j, i # j + 1 PROVE \E q \in 1 .. Len(u) : first(q) = i /\ last(q) = i
    <3>1. CASE i < j
      <4>1. i \in 1 .. Len(u) /\ first(i) = i /\ last(i) = i
        BY <1>1, <1>2, <3>1
      <4> QED
        BY <4>1
    <3>2. CASE i > j
      <4>1. i - 1 \in 1 .. Len(u) /\ first(i - 1) = i /\ last(i - 1) = i
        BY <1>1, <1>2, <2>1, <3>2
      <4> QED
        BY <4>1
    <3> QED
      BY <1>2, <2>1, <3>1, <3>2
  <2> QED
    BY <1>1, <1>2, <2>1
<1>5. j + 1 \in 1 .. Len(h) /\ EndOf(h[j]) = h[j + 1].base
  BY <1>1, <1>2 DEF Adjacent, EndOf
<1> HIDE DEF first, last
<1>6. Listed(u)
  <2>1. ASSUME NEW q \in 1 .. Len(u), NEW r \in 1 .. Len(u), q < r PROVE EndOf(u[q]) <= u[r].base
    <3>1. last(q) < first(r) /\ last(q) \in 1 .. Len(h) /\ first(r) \in 1 .. Len(h)
      BY <1>3, <1>4, <2>1
    <3>2. EndOf(h[last(q)]) <= h[first(r)].base
      BY <1>1, <3>1
    <3> QED
      BY <1>3, <3>2
  <2>2. ASSUME NEW q \in 1 .. Len(u) PROVE EndOf(u[q]) <= END
    BY <1>1, <1>3
  <2> QED
    BY <1>2, <2>1, <2>2 DEF Listed
<1>7. ASSUME NEW x PROVE x \in FreeOf(u) <=> x \in FreeOf(h)
  <2>1. ASSUME x \in FreeOf(u) PROVE x \in FreeOf(h)
    <3>1. x \in Int /\ \E q \in 1 .. Len(u) : u[q].base <= x /\ x < EndOf(u[q])
      BY <1>2, <2>1, FreeMember
    <3>2. PICK q \in 1 .. Len(u) : u[q].base <= x /\ x < EndOf(u[q])
      BY <3>1
    <3>3. h[first(q)].base <= x /\ x < EndOf(h[last(q)]) /\ first(q) \in 1 .. Len(h) /\ last(q) \in 1 .. Len(h)
      BY <1>3, <3>2
    <3>4. \E i \in 1 .. Len(h) : h[i].base <= x /\ x < EndOf(h[i])
      <4>1. CASE q # j
        BY <1>4, <3>3, <4>1
      <4>2. CASE q = j
        <5>1. h[j].base <= x /\ x < EndOf(h[j + 1])
          BY <1>4, <3>3, <4>2
        <5>2. EndOf(h[j]) \in Nat
          BY <1>1, HoleNumbers
        <5> QED
          BY <1>5, <3>1, <5>1, <5>2
      <4> QED
        BY <4>1, <4>2
    <3> QED
      BY <1>1, <3>1, <3>4, FreeMember
  <2>2. ASSUME x \in FreeOf(h) PROVE x \in FreeOf(u)
    <3>1. x \in Int /\ \E i \in 1 .. Len(h) : h[i].base <= x /\ x < EndOf(h[i])
      BY <1>1, <2>2, FreeMember
    <3>2. PICK i \in 1 .. Len(h) : h[i].base <= x /\ x < EndOf(h[i])
      BY <3>1
    <3>3. \E q \in 1 .. Len(u) : u[q].base <= x /\ x < EndOf(u[q])
      <4>1. CASE i = j \/ i = j + 1
        <5>1. /\ h[j].base \in Nat /\ h[j + 1].base \in Nat /\ EndOf(h[j]) \in Nat /\ EndOf(h[j + 1]) \in Nat
              /\ h[j].base <= EndOf(h[j]) /\ h[j + 1].base <= EndOf(h[j + 1])
          <6>1. \A q \in 1 .. Len(h) : h[q].base \in Nat /\ EndOf(h[q]) \in Nat /\ h[q].base <= EndOf(h[q])
            <7> SUFFICES ASSUME NEW q \in 1 .. Len(h)
                         PROVE  h[q].base \in Nat /\ EndOf(h[q]) \in Nat /\ h[q].base <= EndOf(h[q])
              OBVIOUS
            <7>1. /\ h[q].base \in Nat /\ EndOf(h[q]) \in Nat /\ h[q].length \in Nat
                  /\ EndOf(h[q]) = h[q].base + h[q].length
              BY <1>1, HoleNumbers
            <7> QED
              BY <7>1
          <6> QED
            BY <1>5, <6>1
        <5>2. h[j].base <= x /\ x < EndOf(h[j + 1])
          <6>1. CASE i = j
            BY <1>5, <3>1, <3>2, <5>1, <6>1
          <6>2. CASE i = j + 1
            BY <1>5, <3>1, <3>2, <5>1, <6>2
          <6> QED
            BY <4>1, <6>1, <6>2
        <5>3. u[j].base <= x /\ x < EndOf(u[j])
          BY <1>2, <1>3, <1>4, <5>2
        <5> QED
          BY <1>2, <5>3
      <4>2. CASE i # j /\ i # j + 1
        <5>1. PICK q \in 1 .. Len(u) : first(q) = i /\ last(q) = i
          BY <1>4, <4>2
        <5> QED
          BY <1>3, <3>2, <5>1
      <4> QED
        BY <4>1, <4>2
    <3> QED
      BY <1>2, <3>1, <3>3, FreeMember
  <2> QED
    BY <2>1, <2>2
<1> QED
  BY <1>6, <1>7

(* What merging may do to the list.                                        *)
LEMMA MergeList ==
    ASSUME NEW h, Listed(h), NEW i \in 1 .. Len(h), merge_count \in 0 .. MERGE_LIMIT - 1,
           NEW m, m = Merged(h, i)
    PROVE  /\ m.count \in 0 .. MERGE_LIMIT - 1
           /\ \/ m.list = h
              \/ \E j \in 1 .. Len(h) : Adjacent(h, j) /\ Swallowed(m.list, h, j)
<1>1. Len(h) \in Nat /\ MERGE_LIMIT = 5 /\ merge_count \in Nat
  BY Params DEF Listed
<1> DEFINE T == {j \in i .. Len(h) : j = Len(h) \/ Adjacent(h, j)}
<1>2. T \in SUBSET Nat /\ Len(h) \in T
  BY <1>1
<1> DEFINE e == MergeEnd(h, i)
<1>3. e \in T
  BY <1>2, NatLeast DEF MergeEnd
<1>4. e \in i .. Len(h) /\ e \in 1 .. Len(h) /\ (e = Len(h) \/ Adjacent(h, e))
  BY <1>1, <1>3
<1> DEFINE calls == merge_count + e - i + 1
<1>5. calls \in Nat
  BY <1>1, <1>4
<1> DEFINE joined == RemoveAt([h EXCEPT ![e].length = @ + h[e + 1].length], e + 1)
<1>6. m = IF calls >= MERGE_LIMIT THEN [list |-> h, count |-> 0]
          ELSE [list |-> IF e = Len(h) THEN h ELSE joined, count |-> calls]
  BY DEF Merged
<1> HIDE DEF e
<1>7. CASE calls >= MERGE_LIMIT
  <2>1. m.list = h /\ m.count = 0
    BY <1>6, <1>7
  <2> QED
    BY <1>1, <2>1
<1>8. CASE calls < MERGE_LIMIT
  <2>1. m.count = calls /\ m.list = IF e = Len(h) THEN h ELSE joined
    BY <1>1, <1>5, <1>6, <1>8
  <2>2. m.count \in 0 .. MERGE_LIMIT - 1
    BY <1>1, <1>5, <1>8, <2>1
  <2>3. CASE e = Len(h)
    BY <2>1, <2>2, <2>3
  <2>4. CASE e # Len(h)
    <3> HIDE DEF T
    <3>1. PICK r \in 1 .. Len(h) : r = e + 1
      BY <1>1, <1>4, <2>4
    <3>2. Adjacent(h, e) /\ m.list = joined
      BY <1>4, <2>1, <2>4
    <3>3. Swallowed(m.list, h, e)
      <4> DEFINE v == [h EXCEPT ![e].length = @ + h[r].length]
      <4>1. h[e].base + h[e].length = h[r].base
        BY <3>1, <3>2 DEF Adjacent
      <4>2. Grown(v, h, e, r)
        BY <1>4, <4>1, JoinFields
      <4>3. m.list = RemoveAt(v, r)
        BY <3>1, <3>2
      <4> HIDE DEF v, joined
      <4> QED
        BY <1>4, <3>1, <4>2, <4>3, TwoInOne
    <3> QED
      BY <1>4, <2>2, <3>2, <3>3
  <2> QED
    BY <2>3, <2>4
<1> QED
  BY <1>1, <1>5, <1>7, <1>8

-----------------------------------------------------------------------------
(* The steps of the memory                                                 *)

(* An image is a hole that somebody has.                                   *)
LEMMA ImageNumbers ==
    ASSUME NEW a \in Clicks \X Sizes
    PROVE  /\ a = <<a[1], a[2]>> /\ a[1] \in Clicks /\ a[2] \in Sizes
           /\ a[1] \in Nat /\ BASE <= a[1] /\ a[2] \in Nat /\ a[2] >= 1
           /\ a[1] \in ClicksOf(a)
<1>1. a = <<a[1], a[2]>> /\ a[1] \in Clicks /\ a[2] \in Sizes
  OBVIOUS
<1>2. a[1] \in Nat /\ BASE <= a[1] /\ a[2] \in Nat /\ a[2] >= 1
  BY <1>1, Params
<1>3. a[1] \in ClicksOf(<<a[1], a[2]>>)
  BY <1>2, ImageMember
<1> QED
  BY <1>1, <1>2, <1>3

(* Handing out free clicks.                                                *)
LEMMA SharedAlloc ==
    ASSUME NEW h, NEW imgs, Shared(h, imgs), NEW a \in Clicks \X Sizes, ClicksOf(a) \subseteq FreeOf(h),
           NEW u, \A x : x \in FreeOf(u) <=> x \in FreeOf(h) /\ x \notin ClicksOf(a)
    PROVE  Shared(u, imgs \cup {a})
<1>1. /\ imgs \subseteq Clicks \X Sizes
      /\ \A c \in imgs : ClicksOf(c) \subseteq Clicks \ FreeOf(h)
      /\ \A c, d \in imgs : c # d => ClicksOf(c) \cap ClicksOf(d) = {}
      /\ FreeOf(h) \cup UNION {ClicksOf(c) : c \in imgs} = Clicks
  BY DEF Shared
<1>2. imgs \cup {a} \subseteq Clicks \X Sizes
  BY <1>1
<1>3. \A c \in imgs \cup {a} : ClicksOf(c) \subseteq Clicks \ FreeOf(u)
  BY <1>1
<1>4. ASSUME NEW c \in imgs \cup {a}, NEW d \in imgs \cup {a}, c # d PROVE ClicksOf(c) \cap ClicksOf(d) = {}
  <2>1. CASE c \in imgs /\ d \in imgs
    BY <1>1, <1>4, <2>1
  <2>2. CASE c = a
    BY <1>1, <1>4, <2>2
  <2>3. CASE d = a
    BY <1>1, <1>4, <2>3
  <2> QED
    BY <2>1, <2>2, <2>3
<1>5. ASSUME NEW x PROVE x \in FreeOf(u) \cup UNION {ClicksOf(c) : c \in imgs \cup {a}} <=> x \in Clicks
  <2>1. ASSUME x \in FreeOf(u) \cup UNION {ClicksOf(c) : c \in imgs \cup {a}} PROVE x \in Clicks
    BY <1>1, <2>1
  <2>2. ASSUME x \in Clicks PROVE x \in FreeOf(u) \cup UNION {ClicksOf(c) : c \in imgs \cup {a}}
    <3>1. CASE x \in FreeOf(h)
      BY <3>1
    <3>2. CASE x \notin FreeOf(h)
      <4>1. x \in UNION {ClicksOf(c) : c \in imgs}
        BY <1>1, <2>2, <3>2
      <4> QED
        BY <4>1
    <3> QED
      BY <3>1, <3>2
  <2> QED
    BY <2>1, <2>2
<1>6. FreeOf(u) \cup UNION {ClicksOf(c) : c \in imgs \cup {a}} = Clicks
  BY <1>5
<1> QED
  BY <1>2, <1>3, <1>4, <1>6 DEF Shared

(* Taking clicks back.                                                     *)
LEMMA SharedFree ==
    ASSUME NEW h, NEW imgs, Shared(h, imgs), NEW a \in imgs,
           NEW u, \A x : x \in FreeOf(u) <=> x \in FreeOf(h) \/ x \in ClicksOf(a)
    PROVE  Shared(u, imgs \ {a})
<1>1. /\ imgs \subseteq Clicks \X Sizes
      /\ \A c \in imgs : ClicksOf(c) \subseteq Clicks \ FreeOf(h)
      /\ \A c, d \in imgs : c # d => ClicksOf(c) \cap ClicksOf(d) = {}
      /\ FreeOf(h) \cup UNION {ClicksOf(c) : c \in imgs} = Clicks
  BY DEF Shared
<1>2. ASSUME NEW c \in imgs \ {a} PROVE ClicksOf(c) \subseteq Clicks \ FreeOf(u)
  <2>1. ClicksOf(c) \cap ClicksOf(a) = {} /\ ClicksOf(c) \subseteq Clicks \ FreeOf(h)
    BY <1>1, <1>2
  <2> QED
    BY <2>1
<1>3. ASSUME NEW x PROVE x \in FreeOf(u) \cup UNION {ClicksOf(c) : c \in imgs \ {a}} <=> x \in Clicks
  <2>1. ASSUME x \in FreeOf(u) \cup UNION {ClicksOf(c) : c \in imgs \ {a}} PROVE x \in Clicks
    BY <1>1, <2>1
  <2>2. ASSUME x \in Clicks PROVE x \in FreeOf(u) \cup UNION {ClicksOf(c) : c \in imgs \ {a}}
    <3>1. CASE x \in FreeOf(h) \/ x \in ClicksOf(a)
      BY <3>1
    <3>2. CASE ~ (x \in FreeOf(h) \/ x \in ClicksOf(a))
      <4>1. PICK c \in imgs : x \in ClicksOf(c)
        BY <1>1, <2>2, <3>2
      <4> QED
        BY <3>2, <4>1
    <3> QED
      BY <3>1, <3>2
  <2> QED
    BY <2>1, <2>2
<1>4. FreeOf(u) \cup UNION {ClicksOf(c) : c \in imgs \ {a}} = Clicks
  BY <1>3
<1>5. imgs \ {a} \subseteq Clicks \X Sizes /\ \A c, d \in imgs \ {a} : c # d => ClicksOf(c) \cap ClicksOf(d) = {}
  BY <1>1
<1> QED
  BY <1>2, <1>4, <1>5 DEF Shared

(* alloc_mem.                                                              *)
LEMMA AllocStep ==
    ASSUME IInv, NEW k \in Sizes, alloc_mem(k), NEW i, i = Min(BigEnough(k))
    PROVE  /\ IInv'
           /\ i \in 1 .. Len(hole) /\ hole[i].length >= k
           /\ \A j \in 1 .. Len(hole) : hole[j].length >= k => i <= j
           /\ result' = hole[i].base /\ images' = images \cup {<<hole[i].base, k>>}
           /\ hole' = Carved(i, k) /\ Len(hole') <= Len(hole)
           /\ ClicksOf(<<hole[i].base, k>>) \subseteq FreeOf(hole)
           /\ \A x : x \in FreeOf(hole)' <=> x \in FreeOf(hole) /\ x \notin ClicksOf(<<hole[i].base, k>>)
<1>1. /\ Listed(hole) /\ hole \in Seq(HoleKind) /\ Len(hole) \in Nat /\ DOMAIN hole = 1 .. Len(hole)
      /\ Shared(hole, images)
      /\ free_slots \in Nat /\ free_slots = NR_HOLES - Len(hole)
      /\ merge_count \in 0 .. MERGE_LIMIT - 1
  BY DEF IInv, Listed
<1>2. k \in Nat /\ k >= 1
  BY Params
<1>3. i \in BigEnough(k) /\ \A j \in BigEnough(k) : i <= j
  <2>1. BigEnough(k) \in SUBSET Nat
    BY <1>1 DEF BigEnough
  <2>2. BigEnough(k) # {}
    BY DEF alloc_mem
  <2> QED
    BY <2>1, <2>2, NatLeast
<1>4. i \in 1 .. Len(hole) /\ hole[i].length >= k /\ \A j \in 1 .. Len(hole) : hole[j].length >= k => i <= j
  BY <1>1, <1>3 DEF BigEnough
<1>5. /\ hole' = Carved(i, k)
      /\ free_slots' = free_slots + Len(hole) - Len(hole')
      /\ images' = images \cup {<<hole[i].base, k>>}
      /\ result' = hole[i].base /\ merge_count' = merge_count
  BY DEF alloc_mem
<1>6. /\ hole[i].base \in Nat /\ hole[i].base \in Clicks /\ hole[i].length \in Nat
      /\ EndOf(hole[i]) = hole[i].base + hole[i].length
  <2>1. /\ hole[i].base \in Nat /\ hole[i] \in HoleKind /\ hole[i].length \in Nat
        /\ EndOf(hole[i]) = hole[i].base + hole[i].length
    BY <1>1, <1>4, HoleNumbers
  <2> QED
    BY <2>1 DEF HoleKind
<1> DEFINE a == <<hole[i].base, k>>
<1>7. \A x : x \in ClicksOf(a) <=> x \in Int /\ hole[i].base <= x /\ x < hole[i].base + k
  BY <1>2, <1>6, ImageMember
<1>8. /\ Listed(hole') /\ (Len(hole') = Len(hole) \/ Len(hole') = Len(hole) - 1)
      /\ \A x : x \in FreeOf(hole') <=> x \in FreeOf(hole) /\ ~ (hole[i].base <= x /\ x < hole[i].base + k)
  <2>1. CASE hole[i].length = k
    <3>1. hole' = RemoveAt(hole, i)
      BY <1>5, <2>1 DEF Carved
    <3>2. /\ Listed(hole') /\ Len(hole') = Len(hole) - 1
          /\ \A x : x \in FreeOf(hole') <=> x \in FreeOf(hole) /\ ~ (hole[i].base <= x /\ x < EndOf(hole[i]))
      BY <1>1, <1>4, <3>1, TakeOut
    <3> QED
      BY <1>6, <2>1, <3>2
  <2>2. CASE hole[i].length # k
    <3>1. hole' = CutAt(hole, i, k)
      BY <1>5, <2>2 DEF Carved, CutAt
    <3>2. hole[i].length > k
      BY <1>2, <1>4, <1>6, <2>2
    <3>3. /\ Listed(hole') /\ Len(hole') = Len(hole)
          /\ \A x : x \in FreeOf(hole') <=> x \in FreeOf(hole) /\ ~ (hole[i].base <= x /\ x < hole[i].base + k)
      BY <1>1, <1>2, <1>4, <3>1, <3>2, Carve
    <3> QED
      BY <3>3
  <2> QED
    BY <2>1, <2>2
<1>9. ASSUME NEW x PROVE x \in FreeOf(hole') <=> x \in FreeOf(hole) /\ x \notin ClicksOf(a)
  <2>1. x \in FreeOf(hole) => x \in Int
    BY <1>1, FreeMember
  <2> QED
    BY <1>7, <1>8, <2>1
<1>10. ClicksOf(a) \subseteq FreeOf(hole)
  <2> SUFFICES ASSUME NEW x \in ClicksOf(a) PROVE x \in FreeOf(hole)
    OBVIOUS
  <2>1. x \in Int /\ hole[i].base <= x /\ x < hole[i].base + k
    BY <1>7
  <2>2. x < EndOf(hole[i])
    BY <1>2, <1>4, <1>6, <2>1
  <2> QED
    BY <1>1, <1>4, <2>1, <2>2, FreeMember
<1>11. Shared(hole', images')
  <2>1. a \in Clicks \X Sizes
    BY <1>6
  <2> HIDE DEF a
  <2>2. Shared(hole', images \cup {a})
    BY <1>1, <1>9, <1>10, <2>1, SharedAlloc
  <2> QED
    BY <1>5, <2>2 DEF a
<1>12. Len(hole') \in Nat
  BY <1>8 DEF Listed
<1>13. free_slots' \in Nat /\ free_slots' = NR_HOLES - Len(hole')
  <2>1. NR_HOLES \in Nat
    BY Params
  <2> QED
    <3>1. /\ free_slots \in Nat /\ free_slots = NR_HOLES - Len(hole) /\ Len(hole) \in Nat
          /\ free_slots' = free_slots + Len(hole) - Len(hole')
          /\ Len(hole') = Len(hole) \/ Len(hole') = Len(hole) - 1
      BY <1>1, <1>5, <1>8
    <3> QED
      BY <1>12, <2>1, <3>1
<1>14. IInv'
  BY <1>1, <1>5, <1>6, <1>8, <1>11, <1>13 DEF IInv
<1>15. Len(hole') <= Len(hole)
  <2>1. Len(hole) \in Nat /\ (Len(hole') = Len(hole) \/ Len(hole') = Len(hole) - 1)
    BY <1>1, <1>8
  <2> QED
    BY <2>1
<1>16. \A x : x \in FreeOf(hole)' <=> x \in FreeOf(hole) /\ x \notin ClicksOf(a)
  BY <1>9
<1> QED
  BY <1>4, <1>5, <1>10, <1>14, <1>15, <1>16

(* free_mem.                                                               *)
LEMMA FreeStep ==
    ASSUME IInv, NEW a \in images, free_mem(a[1], a[2])
    PROVE  /\ IInv'
           /\ result' = result /\ images' = images \ {a}
           /\ \A x : x \in FreeOf(hole)' <=> x \in FreeOf(hole) \/ x \in ClicksOf(a)
           /\ \E u, p : /\ p \in 1 .. Len(hole) + 1 /\ WithHole(u, hole, p, Hole(a[1], a[2]))
                       /\ \/ hole' = u
                          \/ \E j \in 1 .. Len(u) : Swallowed(hole', u, j)
<1>1. /\ Listed(hole) /\ hole \in Seq(HoleKind) /\ Len(hole) \in Nat
      /\ Shared(hole, images)
      /\ free_slots \in Nat /\ free_slots = NR_HOLES - Len(hole)
      /\ merge_count \in 0 .. MERGE_LIMIT - 1 /\ result \in Clicks \cup {NO_MEM}
  BY DEF IInv, Listed
<1>2. a \in Clicks \X Sizes /\ ClicksOf(a) \subseteq Clicks \ FreeOf(hole)
  BY <1>1 DEF Shared
<1>3. /\ a = <<a[1], a[2]>> /\ a[1] \in Nat /\ BASE <= a[1] /\ a[2] \in Nat /\ a[2] >= 1
  BY <1>2, ImageNumbers
<1> DEFINE b == a[1]
<1> DEFINE k == a[2]
<1> DEFINE n == Place(b)
<1> DEFINE u == InsertAt(hole, n + 1, Hole(b, k))
<1> DEFINE start == IF n = 0 THEN 1 ELSE n
<1> DEFINE m == Merged(u, start)
<1>4. /\ free_slots > 0 /\ hole' = m.list /\ merge_count' = m.count
      /\ free_slots' = free_slots - 1 + (Len(hole) + 1 - Len(m.list))
      /\ images' = images \ {<<b, k>>} /\ result' = result
  BY DEF free_mem, SlotsAfter
<1>5. b + k <= END
  <2>1. b + k - 1 \in ClicksOf(<<b, k>>)
    BY <1>3, ImageMember
  <2>2. b + k - 1 \in Clicks
    BY <1>2, <1>3, <2>1
  <2>3. b + k - 1 < END
    BY <2>2, Params
  <2>4. END \in Nat
    BY Params
  <2> QED
    BY <1>3, <2>3, <2>4
<1>6. ClicksOf(<<b, k>>) = ClicksOf(a)
  BY <1>3
<1>7. n = Cardinality({i \in DOMAIN hole : hole[i].base < b})
  BY DEF Place
<1>8. /\ n + 1 \in 1 .. Len(hole) + 1 /\ Listed(u) /\ WithHole(u, hole, n + 1, Hole(b, k))
      /\ \A x : x \in FreeOf(u) <=> x \in FreeOf(hole) \/ x \in ClicksOf(<<b, k>>)
  <2> HIDE DEF n
  <2>1. PICK p : p = n + 1
    OBVIOUS
  <2>2. PICK w : w = InsertAt(hole, p, Hole(b, k))
    OBVIOUS
  <2>3. ClicksOf(<<b, k>>) \cap FreeOf(hole) = {}
    BY <1>2, <1>6
  <2>4. /\ p \in 1 .. Len(hole) + 1 /\ Listed(w) /\ WithHole(w, hole, p, Hole(b, k))
        /\ \A x : x \in FreeOf(w) <=> x \in FreeOf(hole) \/ x \in ClicksOf(<<b, k>>)
    <3>1. Listed(hole) /\ b \in Nat /\ BASE <= b /\ k \in Nat /\ k >= 1
      BY <1>1, <1>3
    <3>2. PICK d \in Nat : d = b
      BY <3>1
    <3>3. PICK c \in Nat : c = k
      BY <3>1
    <3>4. /\ d >= BASE /\ c >= 1 /\ d + c <= END /\ ClicksOf(<<d, c>>) \cap FreeOf(hole) = {}
          /\ n = Cardinality({i \in DOMAIN hole : hole[i].base < d})
          /\ w = InsertAt(hole, p, Hole(d, c))
      BY <1>5, <1>7, <2>2, <2>3, <3>1, <3>2, <3>3
    <3>5. /\ p \in 1 .. Len(hole) + 1 /\ Listed(w) /\ WithHole(w, hole, p, Hole(d, c))
          /\ \A x : x \in FreeOf(w) <=> x \in FreeOf(hole) \/ x \in ClicksOf(<<d, c>>)
      BY <2>1, <3>1, <3>4, PutIn
    <3> QED
      BY <3>2, <3>3, <3>5
  <2>5. w = u
    BY <2>1, <2>2
  <2> HIDE DEF u
  <2> QED
    BY <2>1, <2>4, <2>5
<1> HIDE DEF n
<1>9. Len(u) = Len(hole) + 1
  BY <1>8 DEF WithHole
<1>10. start \in 1 .. Len(u)
  <2> HIDE DEF u
  <2>1. n \in Int /\ 1 <= n + 1 /\ n + 1 <= Len(hole) + 1
    <3>1. PICK q \in 1 .. Len(hole) + 1 : q = n + 1
      BY <1>8
    <3>2. n \in Nat
      <4>1. IsFiniteSet({i \in DOMAIN hole : hole[i].base < b})
        <5>1. {i \in DOMAIN hole : hole[i].base < b} \subseteq 1 .. Len(hole)
          BY <1>1
        <5>2. IsFiniteSet(1 .. Len(hole))
          BY <1>1, FS_Interval
        <5> QED
          BY <5>1, <5>2, FS_Subset
      <4> QED
        BY <1>7, <4>1, FS_CardinalityType
    <3> QED
      BY <1>1, <3>1, <3>2
  <2> QED
    BY <1>1, <1>9, <2>1
<1> HIDE DEF u, start
<1>11. /\ m.count \in 0 .. MERGE_LIMIT - 1
       /\ \/ m.list = u
          \/ \E j \in 1 .. Len(u) : Adjacent(u, j) /\ Swallowed(m.list, u, j)
  BY <1>1, <1>8, <1>10, MergeList
<1> HIDE DEF m
<1>12. /\ Listed(m.list) /\ (Len(m.list) = Len(u) \/ Len(m.list) = Len(u) - 1)
       /\ \A x : x \in FreeOf(m.list) <=> x \in FreeOf(u)
  <2>1. CASE m.list = u
    BY <1>8, <2>1
  <2>2. ASSUME NEW j \in 1 .. Len(u), Adjacent(u, j), Swallowed(m.list, u, j)
        PROVE  /\ Listed(m.list) /\ (Len(m.list) = Len(u) \/ Len(m.list) = Len(u) - 1)
               /\ \A x : x \in FreeOf(m.list) <=> x \in FreeOf(u)
    <3>1. Listed(m.list) /\ \A x : x \in FreeOf(m.list) <=> x \in FreeOf(u)
      BY <1>8, <2>2, SameFree
    <3>2. Len(m.list) = Len(u) - 1
      BY <2>2 DEF Swallowed
    <3> QED
      BY <3>1, <3>2
  <2> QED
    BY <1>11, <2>1, <2>2
<1>13. ASSUME NEW x PROVE x \in FreeOf(hole') <=> x \in FreeOf(hole) \/ x \in ClicksOf(a)
  BY <1>4, <1>6, <1>8, <1>12
<1>14. images' = images \ {a}
  BY <1>3, <1>4
<1>15. Shared(hole', images')
  <2>1. Shared(hole', images \ {a})
    BY <1>1, <1>13, SharedFree
  <2> QED
    BY <1>14, <2>1
<1>16. free_slots' \in Nat /\ free_slots' = NR_HOLES - Len(hole')
  <2>1. NR_HOLES \in Nat /\ Len(m.list) \in Nat
    BY <1>12, Params DEF Listed
  <2> QED
    <3>1. /\ free_slots \in Nat /\ free_slots = NR_HOLES - Len(hole) /\ Len(hole) \in Nat
          /\ free_slots > 0 /\ free_slots' = free_slots - 1 + (Len(hole) + 1 - Len(m.list))
          /\ Len(u) = Len(hole) + 1 /\ hole' = m.list
          /\ Len(m.list) = Len(u) \/ Len(m.list) = Len(u) - 1
      BY <1>1, <1>4, <1>9, <1>12
    <3> QED
      BY <2>1, <3>1
<1>17. IInv'
  BY <1>1, <1>4, <1>11, <1>12, <1>15, <1>16 DEF IInv
<1>18. \A x : x \in FreeOf(hole)' <=> x \in FreeOf(hole) \/ x \in ClicksOf(a)
  BY <1>13
<1>19. \E v, p : /\ p \in 1 .. Len(hole) + 1 /\ WithHole(v, hole, p, Hole(a[1], a[2]))
                /\ \/ hole' = v
                   \/ \E j \in 1 .. Len(v) : Swallowed(hole', v, j)
  BY <1>4, <1>8, <1>11
<1> QED
  BY <1>4, <1>14, <1>17, <1>18, <1>19

(* The free memory of Holes is that of the list.                           *)
LEMMA FreeIsListed == FreeClicks = FreeOf(hole)
BY DEF FreeClicks, FreeOf

(* mem_init: all the memory is one hole.                                   *)
LEMMA StartInv == Init => IInv /\ FreeOf(hole) = Clicks
<1> SUFFICES ASSUME Init PROVE IInv /\ FreeOf(hole) = Clicks
  OBVIOUS
<1> DEFINE e == Hole(BASE, TOTAL)
<1>1. BASE \in Nat /\ TOTAL \in Nat /\ TOTAL >= 1 /\ END = BASE + TOTAL /\ BASE \in Clicks /\ NR_HOLES \in Nat /\ NR_HOLES >= 1
  BY Params
<1>2. e.base = BASE /\ e.length = TOTAL /\ EndOf(e) = END /\ e = [base |-> BASE, length |-> TOTAL]
  BY <1>1 DEF Hole, EndOf
<1>3. e \in HoleKind
  BY <1>1, <1>2 DEF HoleKind
<1>4. hole = <<e>> /\ free_slots = NR_HOLES - 1 /\ merge_count = 1 /\ images = {} /\ result = NO_MEM
  BY DEF Init
<1> HIDE DEF e
<1>5. hole \in Seq(HoleKind) /\ Len(hole) = 1 /\ hole[1] = e
  BY <1>3, <1>4
<1>6. Listed(hole)
  <2>1. \A i \in 1 .. Len(hole) : i = 1
    BY <1>5
  <2> QED
    BY <1>1, <1>2, <1>5, <2>1 DEF Listed
<1>7. ASSUME NEW x PROVE x \in FreeOf(hole) <=> x \in Clicks
  <2>1. x \in FreeOf(hole) <=> x \in Int /\ BASE <= x /\ x < END
    BY <1>2, <1>5, FreeMember
  <2>2. x \in Clicks <=> x \in Nat /\ BASE <= x /\ x < END
    BY Params
  <2>3. x \in Int /\ BASE <= x => x \in Nat
    BY <1>1
  <2> QED
    BY <2>1, <2>2, <2>3
<1>8. FreeOf(hole) = Clicks
  BY <1>7
<1>9. Shared(hole, images)
  BY <1>4, <1>8 DEF Shared
<1> QED
  BY <1>1, <1>4, <1>5, <1>6, <1>8, <1>9, Params DEF IInv

(* Every step is an alloc_mem, a refusal, a free_mem, or nothing.          *)
LEMMA NextInv == IInv /\ [Next]_vars => IInv'
<1> SUFFICES ASSUME IInv, [Next]_vars PROVE IInv'
  OBVIOUS
<1>1. ASSUME NEW k \in Sizes, alloc_mem(k) PROVE IInv'
  BY <1>1, AllocStep
<1>2. ASSUME NEW k \in Sizes, alloc_mem_fails(k) PROVE IInv'
  BY <1>2 DEF IInv, alloc_mem_fails
<1>3. ASSUME NEW a \in images, free_mem(a[1], a[2]) PROVE IInv'
  BY <1>3, FreeStep
<1>4. CASE UNCHANGED vars
  BY <1>4 DEF IInv, vars
<1> QED
  BY <1>1, <1>2, <1>3, <1>4 DEF Next

(* The inductive invariant always holds.                                   *)
LEMMA AlwaysInv == Spec => []IInv
BY StartInv, NextInv, PTL DEF Spec

(* It implies what the run checks of the list.                             *)
LEMMA InvGivesList == IInv => ListCorrect
<1> SUFFICES ASSUME IInv PROVE ListCorrect
  OBVIOUS
<1>1. /\ Listed(hole) /\ Shared(hole, images)
      /\ free_slots \in Nat /\ free_slots = NR_HOLES - Len(hole)
      /\ merge_count \in 0 .. MERGE_LIMIT - 1 /\ result \in Clicks \cup {NO_MEM}
  BY DEF IInv
<1>2. /\ hole \in Seq(HoleKind) /\ Len(hole) \in Nat /\ DOMAIN hole = 1 .. Len(hole)
      /\ \A i, j \in 1 .. Len(hole) : i < j => EndOf(hole[i]) <= hole[j].base
  BY <1>1 DEF Listed
<1>3. /\ images \subseteq Clicks \X Sizes
      /\ \A a \in images : ClicksOf(a) \subseteq Clicks \ FreeOf(hole)
      /\ FreeOf(hole) \cup UNION {ClicksOf(a) : a \in images} = Clicks
  BY <1>1 DEF Shared
<1>4. free_slots \in 0 .. NR_HOLES
  BY <1>1, <1>2, Params
<1>5. TypeOK
  BY <1>1, <1>2, <1>3, <1>4 DEF TypeOK, HoleKind
<1>6. \A i, j \in DOMAIN hole : i < j => hole[i].base + hole[i].length <= hole[j].base
  BY <1>2 DEF EndOf
<1>7. \A a \in images : Extent(Hole(a[1], a[2])) \cap FreeClicks = {}
  BY <1>3, FreeIsListed DEF ClicksOf
<1>8. FreeClicks \cup UNION {Extent(Hole(a[1], a[2])) : a \in images} = Clicks
  BY <1>3, FreeIsListed DEF ClicksOf
<1> QED
  BY <1>1, <1>5, <1>6, <1>7, <1>8 DEF ListCorrect

(* The list of holes is in order, holes and images do not overlap and make *)
(* up the memory, and no slot is lost: for any memory, any sizes of images *)
(* and any number of them, however often merging gives up.                 *)
THEOREM ListAlwaysCorrect == Spec => []ListCorrect
BY AlwaysInv, InvGivesList, PTL

-----------------------------------------------------------------------------
(* Images of one size                                                      *)

(* Where an image may begin.                                               *)
Starts(k) == {BASE + m * k : m \in Nat}

(* Two places where images may begin are an image apart.                   *)
LEMMA FromStartToStart ==
    ASSUME NEW k \in Nat, k >= 1
    PROVE  /\ BASE \in Starts(k)
           /\ \A s \in Starts(k) : s \in Nat /\ s >= BASE /\ s + k \in Starts(k)
           /\ \A s, t \in Starts(k) : s < t => s + k <= t
<1>1. BASE \in Nat
  BY Params
<1>2. \A m \in Nat : m * k \in Nat /\ (m + 1) * k = m * k + k
  OBVIOUS
<1>3. BASE \in Starts(k)
  <2>1. 0 \in Nat /\ BASE + 0 * k = BASE
    BY <1>1
  <2> QED
    BY <2>1 DEF Starts
<1>4. ASSUME NEW s \in Starts(k) PROVE s \in Nat /\ s >= BASE /\ s + k \in Starts(k)
  <2>1. PICK m \in Nat : s = BASE + m * k
    BY DEF Starts
  <2>2. m * k \in Nat /\ (m + 1) * k = m * k + k /\ m + 1 \in Nat
    BY <1>2
  <2>3. s + k = BASE + (m + 1) * k
    BY <1>1, <2>1, <2>2
  <2>4. s \in Nat /\ s >= BASE
    BY <1>1, <2>1, <2>2
  <2> QED
    BY <2>2, <2>3, <2>4 DEF Starts
<1>5. ASSUME NEW s \in Starts(k), NEW t \in Starts(k), s < t PROVE s + k <= t
  <2>1. PICK m \in Nat : s = BASE + m * k
    BY DEF Starts
  <2>2. PICK n \in Nat : t = BASE + n * k
    BY DEF Starts
  <2>3. m * k \in Nat /\ n * k \in Nat /\ m * k < n * k
    BY <1>1, <1>2, <1>5, <2>1, <2>2
  <2>4. m < n
    <3> SUFFICES ASSUME ~ (m < n) PROVE FALSE
      OBVIOUS
    <3>1. PICK d \in Nat : m = n + d
      <4>1. m - n \in Nat /\ m = n + (m - n)
        OBVIOUS
      <4> QED
        BY <4>1
    <3>2. m * k = n * k + d * k /\ d * k \in Nat
      BY <1>2, <3>1
    <3> QED
      BY <2>3, <3>2
  <2>5. PICK d \in Nat : n = m + 1 + d
    <3>1. n - m - 1 \in Nat /\ n = m + 1 + (n - m - 1)
      BY <2>4
    <3> QED
      BY <3>1
  <2>6. n * k = m * k + k + d * k /\ d * k \in Nat
    BY <1>2, <2>5
  <2> QED
    BY <1>1, <2>1, <2>2, <2>3, <2>6
<1> QED
  BY <1>3, <1>4, <1>5

(* Every hole is made of whole images, but for what is too short for one   *)
(* at the end of the memory.                                               *)
AlignedHole(e, k) == e.base \in Starts(k) /\ (EndOf(e) \in Starts(k) \/ EndOf(e) = END)

Aligned(k) ==
    /\ \A i \in 1 .. Len(hole) : AlignedHole(hole[i], k)
    /\ \A a \in images : a[1] \in Starts(k)

(* Images of one size are cut from the low end, so that what is left is    *)
(* aligned again; and what comes back is aligned.                          *)
LEMMA AlignedKept ==
    ASSUME NEW k \in Nat, k >= 1, \A c \in Sizes : c = k
    PROVE  IInv /\ Aligned(k) /\ [Next]_vars => Aligned(k)'
<1> SUFFICES ASSUME IInv, Aligned(k), [Next]_vars PROVE Aligned(k)'
  OBVIOUS
<1>1. /\ Listed(hole) /\ hole \in Seq(HoleKind) /\ Len(hole) \in Nat
      /\ \A i \in 1 .. Len(hole) : AlignedHole(hole[i], k)
      /\ \A a \in images : a[1] \in Starts(k)
      /\ images \subseteq Clicks \X Sizes
  BY DEF IInv, Listed, Aligned, Shared
<1>2. ASSUME NEW c \in Sizes, alloc_mem(c) PROVE Aligned(k)'
  <2>1. PICK i : i = Min(BigEnough(k))
    OBVIOUS
  <2>2. c = k /\ k \in Sizes
    BY <1>2
  <2>3. alloc_mem(k)
    BY <1>2, <2>2
  <2>4. /\ i \in 1 .. Len(hole) /\ hole[i].length >= k
        /\ images' = images \cup {<<hole[i].base, k>>}
        /\ hole' = Carved(i, k)
    BY <2>1, <2>2, <2>3, AllocStep
  <2>5. \A a \in images' : a[1] \in Starts(k)
    <3>1. hole[i].base \in Starts(k)
      BY <1>1, <2>4 DEF AlignedHole
    <3> QED
      BY <1>1, <2>4, <3>1
  <2>6. \A j \in 1 .. Len(hole') : AlignedHole(hole'[j], k)
    <3>1. CASE hole[i].length = k
      <4>1. hole' = RemoveAt(hole, i)
        BY <2>4, <3>1 DEF Carved
      <4>2. /\ Len(hole') = Len(hole) - 1
            /\ \A j \in 1 .. Len(hole') : hole'[j] = IF j < i THEN hole[j] ELSE hole[j + 1]
        <5>1. Listed(hole)
          BY <1>1
        <5> QED
          BY <2>4, <4>1, <5>1, TakeOut
      <4>3. ASSUME NEW j \in 1 .. Len(hole') PROVE hole'[j] = hole[j] \/ hole'[j] = hole[j + 1]
        BY <4>2
      <4>4. \A j \in 1 .. Len(hole') : j \in 1 .. Len(hole) /\ j + 1 \in 1 .. Len(hole)
        BY <1>1, <4>2
      <4> QED
        BY <1>1, <4>3, <4>4
    <3>2. CASE hole[i].length # k
      <4>1. hole' = CutAt(hole, i, k)
        BY <2>4, <3>2 DEF Carved, CutAt
      <4>2. hole[i].length > k
        <5>1. hole[i].length \in Nat
          BY <1>1, <2>4, HoleNumbers
        <5> QED
          BY <2>4, <3>2, <5>1
      <4>3. /\ Len(hole') = Len(hole)
            /\ \A j \in 1 .. Len(hole) : j # i => hole'[j] = hole[j]
            /\ hole'[i].base = hole[i].base + k /\ EndOf(hole'[i]) = EndOf(hole[i])
        BY <1>1, <2>4, <4>1, <4>2, Carve
      <4>4. AlignedHole(hole'[i], k)
        BY <1>1, <2>4, <4>3, FromStartToStart DEF AlignedHole
      <4> QED
        BY <1>1, <4>3, <4>4
    <3> QED
      BY <3>1, <3>2
  <2> QED
    BY <2>5, <2>6 DEF Aligned
<1>3. ASSUME NEW c \in Sizes, alloc_mem_fails(c) PROVE Aligned(k)'
  BY <1>3 DEF Aligned, alloc_mem_fails
<1>4. ASSUME NEW a \in images, free_mem(a[1], a[2]) PROVE Aligned(k)'
  <2>1. /\ images' = images \ {a}
        /\ \E u, p : /\ p \in 1 .. Len(hole) + 1 /\ WithHole(u, hole, p, Hole(a[1], a[2]))
                     /\ \/ hole' = u
                        \/ \E j \in 1 .. Len(u) : Swallowed(hole', u, j)
    BY <1>4, FreeStep
  <2>2. PICK u, p : /\ p \in 1 .. Len(hole) + 1 /\ WithHole(u, hole, p, Hole(a[1], a[2]))
                    /\ \/ hole' = u
                       \/ \E j \in 1 .. Len(u) : Swallowed(hole', u, j)
    BY <2>1
  <2> DEFINE e == Hole(a[1], a[2])
  <2>3. AlignedHole(e, k)
    <3>1. a[2] = k /\ a[1] \in Starts(k)
      BY <1>1, ImageNumbers
    <3>2. e.base = a[1] /\ EndOf(e) = a[1] + k
      BY <3>1 DEF Hole, EndOf
    <3> HIDE DEF e
    <3> QED
      BY <3>1, <3>2, FromStartToStart DEF AlignedHole
  <2> HIDE DEF e
  <2>4. WithHole(u, hole, p, e)
    BY <2>2 DEF e
  <2>5. \A j \in 1 .. Len(u) : AlignedHole(u[j], k)
    <3>1. /\ Len(u) = Len(hole) + 1
          /\ u[p] = e
          /\ \A j \in 1 .. Len(u) : j < p => j \in 1 .. Len(hole) /\ u[j] = hole[j]
          /\ \A j \in 1 .. Len(u) : j > p => j - 1 \in 1 .. Len(hole) /\ j - 1 >= p /\ u[j] = hole[j - 1]
      BY <1>1, <2>2, <2>4, PlacesMoved
    <3> SUFFICES ASSUME NEW j \in 1 .. Len(u) PROVE AlignedHole(u[j], k)
      OBVIOUS
    <3>2. j < p \/ j = p \/ j > p
      BY <1>1, <2>2, <3>1
    <3>3. u[j] = e \/ \E i \in 1 .. Len(hole) : u[j] = hole[i]
      BY <3>1, <3>2
    <3> QED
      BY <1>1, <2>3, <3>3
  <2>6. \A j \in 1 .. Len(hole') : AlignedHole(hole'[j], k)
    <3>1. CASE hole' = u
      BY <2>5, <3>1
    <3>2. ASSUME NEW i \in 1 .. Len(u), Swallowed(hole', u, i)
          PROVE  \A j \in 1 .. Len(hole') : AlignedHole(hole'[j], k)
      <4> SUFFICES ASSUME NEW j \in 1 .. Len(hole') PROVE AlignedHole(hole'[j], k)
        OBVIOUS
      <4>1. /\ Len(hole') = Len(u) - 1 /\ i \in 1 .. Len(hole')
            /\ hole'[i].base = u[i].base /\ EndOf(hole'[i]) = EndOf(u[i + 1])
            /\ \A q \in 1 .. Len(hole') : q < i => hole'[q] = u[q]
            /\ \A q \in 1 .. Len(hole') : q > i => hole'[q] = u[q + 1]
        BY <3>2 DEF Swallowed
      <4>2. Len(u) \in Nat /\ j \in 1 .. Len(u) /\ j + 1 \in 1 .. Len(u) /\ (j < i \/ j = i \/ j > i)
        BY <1>1, <2>4, <4>1 DEF WithHole
      <4>3. CASE j < i
        BY <2>5, <4>1, <4>2, <4>3
      <4>4. CASE j = i
        BY <2>5, <4>1, <4>2, <4>4 DEF AlignedHole
      <4>5. CASE j > i
        BY <2>5, <4>1, <4>2, <4>5
      <4> QED
        BY <4>2, <4>3, <4>4, <4>5
    <3> QED
      BY <2>2, <3>1, <3>2
  <2>7. \A c \in images' : c[1] \in Starts(k)
    BY <1>1, <2>1
  <2> QED
    BY <2>6, <2>7 DEF Aligned
<1>5. CASE UNCHANGED vars
  BY <1>5 DEF Aligned, vars
<1> QED
  BY <1>2, <1>3, <1>4, <1>5 DEF Next

(* When no hole is long enough, the clicks that are free are too few at    *)
(* the end of the memory.                                                  *)
LEMMA NoRoom ==
    ASSUME IInv, NEW k \in Nat, k >= 1, Aligned(k), BigEnough(k) = {}, NEW b \in Clicks,
           ClicksOf(<<b, k>>) \subseteq FreeOf(hole)
    PROVE  FALSE
<1>1. /\ hole \in Seq(HoleKind) /\ DOMAIN hole = 1 .. Len(hole)
      /\ \A i \in 1 .. Len(hole) : AlignedHole(hole[i], k)
  BY DEF IInv, Listed, Aligned
<1>2. b \in Nat /\ b >= BASE
  BY Params
<1>3. b \in FreeOf(hole) /\ b + k - 1 \in FreeOf(hole)
  BY <1>2, ImageMember
<1>4. PICK i \in 1 .. Len(hole) : hole[i].base <= b /\ b < EndOf(hole[i])
  BY <1>1, <1>3, FreeMember
<1>5. PICK j \in 1 .. Len(hole) : hole[j].base <= b + k - 1 /\ b + k - 1 < EndOf(hole[j])
  BY <1>1, <1>3, FreeMember
<1>6. /\ hole[i].base \in Nat /\ hole[i].length \in Nat /\ hole[i].length >= 1
      /\ EndOf(hole[i]) = hole[i].base + hole[i].length /\ EndOf(hole[j]) \in Nat /\ END \in Nat
  BY <1>1, HoleNumbers, Params
<1>7. hole[i].length < k
  <2>1. ~ (hole[i].length >= k)
    BY <1>1 DEF BigEnough
  <2> QED
    BY <1>6, <2>1
<1>8. EndOf(hole[i]) = END
  <2> SUFFICES ASSUME EndOf(hole[i]) # END PROVE FALSE
    OBVIOUS
  <2>1. hole[i].base \in Starts(k) /\ EndOf(hole[i]) \in Starts(k)
    BY <1>1 DEF AlignedHole
  <2>2. hole[i].base + k <= EndOf(hole[i])
    BY <1>6, <2>1, FromStartToStart
  <2> QED
    BY <1>6, <1>7, <2>2
<1>9. EndOf(hole[j]) <= END
  BY DEF IInv, Listed
<1> QED
  BY <1>2, <1>4, <1>5, <1>6, <1>7, <1>8, <1>9

(* A step of the list is a step of the memory it promises.                 *)
LEMMA StepIsPromised ==
    ASSUME NEW k \in Nat, k >= 1, \A c \in Sizes : c = k
    PROVE  IInv /\ Aligned(k) /\ [Next]_vars => [Promise!Next]_<<FreeClicks, result>>
<1> SUFFICES ASSUME IInv, Aligned(k), [Next]_vars PROVE [Promise!Next]_<<FreeClicks, result>>
  OBVIOUS
<1>1. FreeClicks = FreeOf(hole) /\ FreeClicks' = FreeOf(hole)'
  BY DEF FreeClicks, FreeOf
<1>2. \A b, c : Promise!Run(b, c) = ClicksOf(<<b, c>>)
  BY DEF Promise!Run, ClicksOf, Extent, Hole
<1>3. hole \in Seq(HoleKind)
  BY DEF IInv, Listed
<1>4. ASSUME NEW c \in Sizes, alloc_mem(c) PROVE Promise!Next
  <2>1. PICK i : i = Min(BigEnough(c))
    OBVIOUS
  <2>2. /\ i \in 1 .. Len(hole) /\ result' = hole[i].base
        /\ ClicksOf(<<hole[i].base, c>>) \subseteq FreeOf(hole)
        /\ \A x : x \in FreeOf(hole)' <=> x \in FreeOf(hole) /\ x \notin ClicksOf(<<hole[i].base, c>>)
    BY <1>4, <2>1, AllocStep
  <2> DEFINE b == hole[i].base
  <2>3. b \in Clicks
    BY <1>3, <2>2, HoleNumbers DEF HoleKind
  <2>4. Promise!Fits(b, c)
    BY <1>1, <1>2, <2>2 DEF Promise!Fits
  <2>5. FreeClicks' = FreeClicks \ Promise!Run(b, c)
    BY <1>1, <1>2, <2>2
  <2>6. Promise!Allocate(c)
    BY <2>2, <2>3, <2>4, <2>5 DEF Promise!Allocate
  <2> QED
    BY <1>4, <2>6 DEF Promise!Next
<1>5. ASSUME NEW c \in Sizes, alloc_mem_fails(c) PROVE Promise!Next
  <2>1. BigEnough(k) = {} /\ result' = NO_MEM /\ hole' = hole /\ c = k
    BY <1>5 DEF alloc_mem_fails
  <2>2. ASSUME NEW b \in Clicks PROVE ~ Promise!Fits(b, c)
    <3>1. ~ (ClicksOf(<<b, k>>) \subseteq FreeOf(hole))
      BY <2>1, NoRoom
    <3> QED
      BY <1>1, <1>2, <2>1, <3>1 DEF Promise!Fits
  <2>3. FreeClicks' = FreeClicks
    BY <2>1 DEF FreeClicks
  <2>4. Promise!Allocate(c)
    BY <2>1, <2>2, <2>3 DEF Promise!Allocate
  <2> QED
    BY <1>5, <2>4 DEF Promise!Next
<1>6. ASSUME NEW a \in images, free_mem(a[1], a[2]) PROVE Promise!Next
  <2>1. /\ result' = result
        /\ \A x : x \in FreeOf(hole)' <=> x \in FreeOf(hole) \/ x \in ClicksOf(a)
    BY <1>6, FreeStep
  <2>2. a \in Clicks \X Sizes /\ ClicksOf(a) \subseteq Clicks \ FreeOf(hole)
    BY DEF IInv, Shared
  <2>3. a = <<a[1], a[2]>> /\ a[1] \in Clicks /\ a[2] \in Sizes
    BY <2>2
  <2>4. Promise!Run(a[1], a[2]) = ClicksOf(a)
    BY <1>2, <2>3
  <2>5. FreeClicks' = FreeClicks \cup Promise!Run(a[1], a[2])
    BY <1>1, <2>1, <2>4
  <2>6. Promise!Release(a[1], a[2])
    BY <1>1, <2>1, <2>2, <2>4, <2>5 DEF Promise!Release
  <2> QED
    BY <2>3, <2>6 DEF Promise!Next
<1>7. CASE UNCHANGED vars
  BY <1>7 DEF vars, FreeClicks
<1> QED
  BY <1>4, <1>5, <1>6, <1>7 DEF Next

(* All the memory begins where an image may.                               *)
LEMMA AlignedStart ==
    ASSUME NEW k \in Nat, k >= 1
    PROVE  Init => Aligned(k)
<1> SUFFICES ASSUME Init PROVE Aligned(k)
  OBVIOUS
<1> DEFINE e == Hole(BASE, TOTAL)
<1>1. e.base = BASE /\ EndOf(e) = END
  BY DEF Hole, EndOf, END
<1>2. AlignedHole(e, k)
  <2> HIDE DEF e
  <2> QED
    BY <1>1, FromStartToStart DEF AlignedHole
<1>3. hole = <<e>> /\ images = {}
  BY DEF Init
<1> HIDE DEF e
<1>4. Len(hole) = 1 /\ hole[1] = e
  BY <1>3
<1>5. \A i \in 1 .. Len(hole) : i = 1
  BY <1>4
<1> QED
  BY <1>2, <1>3, <1>4, <1>5 DEF Aligned

(* The refinement, for a size.                                             *)
LEMMA OneSizeKeepsPromise ==
    ASSUME NEW k \in Nat, k >= 1, \A c \in Sizes : c = k
    PROVE  Spec => ImplementsMemory
<1>1. Init => IInv /\ Aligned(k)
  BY StartInv, AlignedStart
<1>2. Init => Promise!Init
  BY StartInv, FreeIsListed DEF Promise!Init, Init
<1>3. IInv /\ Aligned(k) /\ [Next]_vars => IInv' /\ Aligned(k)'
  BY NextInv, AlignedKept
<1>4. IInv /\ Aligned(k) /\ [Next]_vars => [Promise!Next]_<<FreeClicks, result>>
  BY StepIsPromised
<1> QED
  BY <1>1, <1>2, <1>3, <1>4, PTL DEF Spec, ImplementsMemory, Promise!Spec

(* The size of images, whatever it is when there are none.                 *)
LEMMA OneSize ==
    ASSUME \A c, d \in Sizes : c = d
    PROVE  \E k \in Nat : k >= 1 /\ \A c \in Sizes : c = k
<1>1. CASE Sizes = {}
  <2>1. 1 \in Nat /\ 1 >= 1
    OBVIOUS
  <2> QED
    BY <1>1, <2>1
<1>2. CASE Sizes # {}
  <2>1. PICK k \in Sizes : TRUE
    BY <1>2
  <2> QED
    BY <2>1, Params
<1> QED
  BY <1>1, <1>2

(* As long as images have one size, the hole list keeps the promise of     *)
(* Memory: alloc_mem hands out free clicks that lie in a row and refuses   *)
(* only when there are none, although holes that touch are left unmerged.  *)
THEOREM PromiseKept ==
    ASSUME \A c, d \in Sizes : c = d
    PROVE  Spec => ImplementsMemory
BY OneSize, OneSizeKeepsPromise

-----------------------------------------------------------------------------
(* Slots                                                                   *)

(* Numbers of images and their clicks are in the same order.               *)
LEMMA Products ==
    ASSUME NEW k \in Nat, k >= 1, NEW m \in Nat, NEW n \in Nat
    PROVE  /\ m * k \in Nat /\ n * k \in Nat
           /\ m * k < n * k => m < n
           /\ m * k = n * k => m = n
<1>1. \A d \in Nat : d * k \in Nat /\ (d >= 1 => d * k >= 1)
  <2> SUFFICES ASSUME NEW d \in Nat PROVE d * k \in Nat /\ (d >= 1 => d * k >= 1)
    OBVIOUS
  <2>1. CASE d = 0
    BY <2>1
  <2>2. CASE d # 0
    <3>1. PICK c \in Nat : d = c + 1
      <4>1. d - 1 \in Nat /\ d = (d - 1) + 1
        BY <2>2
      <4> QED
        BY <4>1
    <3>2. d * k = c * k + k /\ c * k \in Nat
      BY <3>1
    <3> QED
      BY <3>2
  <2> QED
    BY <2>1, <2>2
<1>2. ASSUME NEW x \in Nat, NEW y \in Nat, x < y PROVE x * k < y * k
  <2>1. PICK d \in Nat : d >= 1 /\ y = x + d
    <3>1. y - x \in Nat /\ y - x >= 1 /\ y = x + (y - x)
      BY <1>2
    <3> QED
      BY <3>1
  <2>2. y * k = x * k + d * k
    BY <2>1
  <2> QED
    BY <1>1, <2>1, <2>2
<1>3. m < n \/ m = n \/ n < m
  OBVIOUS
<1>4. m < n => m * k < n * k
  BY <1>2
<1>5. n < m => n * k < m * k
  BY <1>2
<1>6. m * k \in Nat /\ n * k \in Nat
  BY <1>1
<1> QED
  BY <1>3, <1>4, <1>5, <1>6

(* Images are taken from the low end of the memory, so that as many as     *)
(* there may be at a time never reach further than they would in a row.    *)
Limit(k) == BASE + MaxImages * k

Below(k) ==
    /\ IsFiniteSet(images)
    /\ \A i \in 1 .. Len(hole) : hole[i].base <= Limit(k)
    /\ \A a \in images : a[1] + k <= Limit(k)

(* The starts below the limit are those of the first MaxImages images.     *)
LEMMA LimitIsStart ==
    ASSUME NEW k \in Nat, k >= 1
    PROVE  /\ Limit(k) \in Starts(k) /\ Limit(k) \in Nat /\ BASE <= Limit(k)
           /\ \A s \in Starts(k) : s < Limit(k) => \E m \in 0 .. MaxImages - 1 : s = BASE + m * k
           /\ \A m \in 0 .. MaxImages - 1 : BASE + m * k \in Starts(k) /\ BASE + m * k < Limit(k)
<1>1. MaxImages \in Nat /\ BASE \in Nat
  BY Params
<1>2. Limit(k) \in Starts(k) /\ Limit(k) \in Nat /\ BASE <= Limit(k)
  <2>1. Limit(k) \in Starts(k)
    BY <1>1 DEF Limit, Starts
  <2> QED
    BY <2>1, FromStartToStart
<1>3. ASSUME NEW s \in Starts(k), s < Limit(k) PROVE \E m \in 0 .. MaxImages - 1 : s = BASE + m * k
  <2>1. PICK m \in Nat : s = BASE + m * k
    BY DEF Starts
  <2>2. m * k \in Nat /\ MaxImages * k \in Nat /\ (m * k < MaxImages * k => m < MaxImages)
    BY <1>1, Products
  <2>3. m * k < MaxImages * k
    BY <1>1, <1>3, <2>1, <2>2 DEF Limit
  <2>4. m \in 0 .. MaxImages - 1
    BY <1>1, <2>2, <2>3
  <2> QED
    BY <2>1, <2>4
<1>4. ASSUME NEW m \in 0 .. MaxImages - 1 PROVE BASE + m * k \in Starts(k) /\ BASE + m * k < Limit(k)
  <2>1. m \in Nat /\ m < MaxImages
    BY <1>1
  <2>2. /\ m * k \in Nat /\ MaxImages * k \in Nat
        /\ (MaxImages * k < m * k => MaxImages < m) /\ (m * k = MaxImages * k => m = MaxImages)
    BY <1>1, <2>1, Products
  <2>3. m * k < MaxImages * k
    BY <1>1, <2>1, <2>2
  <2> QED
    BY <1>1, <2>1, <2>2, <2>3 DEF Limit, Starts
<1> QED
  BY <1>2, <1>3, <1>4

(* The next image is taken from below the limit.                           *)
LEMMA TakenBelow ==
    ASSUME IInv, NEW k \in Nat, k >= 1, \A c \in Sizes : c = k, Aligned(k),
           IsFiniteSet(images), Cardinality(images) < MaxImages,
           NEW i \in 1 .. Len(hole), \A j \in 1 .. Len(hole) : hole[j].length >= k => i <= j
    PROVE  hole[i].base + k <= Limit(k)
<1>1. /\ Listed(hole) /\ hole \in Seq(HoleKind) /\ Len(hole) \in Nat
      /\ \A j \in 1 .. Len(hole) : AlignedHole(hole[j], k)
      /\ \A a \in images : a[1] \in Starts(k)
      /\ images \subseteq Clicks \X Sizes
      /\ FreeOf(hole) \cup UNION {ClicksOf(a) : a \in images} = Clicks
  BY DEF IInv, Listed, Aligned, Shared
<1>2. hole[i].base \in Starts(k) /\ Limit(k) \in Starts(k) /\ hole[i].base \in Nat /\ hole[i].base < END /\ Limit(k) \in Nat
  BY <1>1, HoleNumbers, LimitIsStart DEF AlignedHole
<1>3. SUFFICES ASSUME Limit(k) <= hole[i].base PROVE FALSE
  <2>1. ~ (Limit(k) <= hole[i].base) => hole[i].base < Limit(k)
    BY <1>2
  <2>2. hole[i].base < Limit(k) => hole[i].base + k <= Limit(k)
    BY <1>2, FromStartToStart
  <2> QED
    BY <2>1, <2>2
<1>4. ASSUME NEW s \in Starts(k), s < Limit(k) PROVE <<s, k>> \in images
  <2>1. s \in Nat /\ s >= BASE /\ s < hole[i].base /\ s \in Clicks
    <3>1. s \in Nat /\ s >= BASE
      BY FromStartToStart
    <3>2. s < hole[i].base /\ s < END
      BY <1>2, <1>3, <1>4, <3>1, Params
    <3> QED
      BY <3>1, <3>2, Params
  <2>2. s \notin FreeOf(hole)
    <3> SUFFICES ASSUME s \in FreeOf(hole) PROVE FALSE
      OBVIOUS
    <3>1. PICK j \in 1 .. Len(hole) : hole[j].base <= s /\ s < EndOf(hole[j])
      BY <1>1, FreeMember
    <3>2. /\ hole[j].base \in Nat /\ hole[j].length \in Nat /\ hole[j].length >= 1
          /\ EndOf(hole[j]) = hole[j].base + hole[j].length
      BY <1>1, HoleNumbers
    <3>3. j < i
      <4>1. hole[j].base < hole[i].base
        BY <1>2, <2>1, <3>1, <3>2
      <4> QED
        BY <1>1, <4>1, Apart
    <3>4. EndOf(hole[j]) <= hole[i].base
      BY <1>1, <3>3, Apart
    <3>5. EndOf(hole[j]) # END
      BY <1>2, <3>2, <3>4, Params
    <3>6. hole[j].base \in Starts(k) /\ EndOf(hole[j]) \in Starts(k)
      BY <1>1, <3>5 DEF AlignedHole
    <3>7. hole[j].base + k <= EndOf(hole[j])
      BY <3>2, <3>6, FromStartToStart
    <3>8. hole[j].length >= k
      BY <3>2, <3>7
    <3> QED
      BY <1>1, <3>3, <3>8
  <2>3. PICK a \in images : s \in ClicksOf(a)
    BY <1>1, <2>1, <2>2
  <2>4. a = <<a[1], a[2]>> /\ a[1] \in Nat /\ a[2] = k /\ a[1] \in Starts(k)
    BY <1>1, ImageNumbers
  <2>5. a[1] <= s /\ s < a[1] + k
    BY <2>3, <2>4, ImageMember
  <2>6. a[1] < s => a[1] + k <= s
    BY <2>4, FromStartToStart
  <2>7. a[1] = s
    BY <2>1, <2>4, <2>5, <2>6
  <2> QED
    BY <2>4, <2>7
<1> DEFINE D == 0 .. MaxImages - 1
<1> DEFINE f == [m \in D |-> <<BASE + m * k, k>>]
<1>5. MaxImages \in Nat /\ BASE \in Nat /\ \A m \in D : m \in Nat
  BY Params
<1>6. f \in [D -> images]
  BY <1>4, LimitIsStart
<1>7. ASSUME NEW m \in D, NEW n \in D, f[m] = f[n] PROVE m = n
  <2>1. BASE + m * k = BASE + n * k
    BY <1>7
  <2>2. m * k \in Nat /\ n * k \in Nat /\ (m * k = n * k => m = n)
    BY <1>5, Products
  <2> QED
    BY <1>5, <2>1, <2>2
<1>8. f \in Injection(D, images)
  <2> HIDE DEF f, D
  <2> QED
    BY <1>6, <1>7 DEF Injection, IsInjective
<1>9. Cardinality(D) = MaxImages
  BY <1>5, FS_Interval
<1>10. Cardinality(D) <= Cardinality(images)
  <2> HIDE DEF f, D
  <2> QED
    BY <1>8, FS_Injection
<1>11. Cardinality(images) \in Nat
  BY FS_CardinalityType
<1> HIDE DEF D, f
<1> QED
  BY <1>5, <1>9, <1>10, <1>11

(* Nothing ever begins above the limit.                                    *)
LEMMA BelowKept ==
    ASSUME NEW k \in Nat, k >= 1, \A c \in Sizes : c = k
    PROVE  IInv /\ Aligned(k) /\ Below(k) /\ [Next]_vars => Below(k)'
<1> SUFFICES ASSUME IInv, Aligned(k), Below(k), [Next]_vars PROVE Below(k)'
  OBVIOUS
<1>1. /\ Listed(hole) /\ hole \in Seq(HoleKind) /\ Len(hole) \in Nat
      /\ images \subseteq Clicks \X Sizes
      /\ IsFiniteSet(images)
      /\ \A i \in 1 .. Len(hole) : hole[i].base <= Limit(k)
      /\ \A a \in images : a[1] + k <= Limit(k)
      /\ Limit(k) \in Nat
  BY LimitIsStart DEF IInv, Listed, Below, Shared
<1>2. ASSUME NEW c \in Sizes, Cardinality(images) < MaxImages, alloc_mem(c) PROVE Below(k)'
  <2>1. PICK i : i = Min(BigEnough(k))
    OBVIOUS
  <2>2. c = k /\ k \in Sizes
    BY <1>2
  <2>3. alloc_mem(k)
    BY <1>2, <2>2
  <2>4. /\ i \in 1 .. Len(hole) /\ hole[i].length >= k
        /\ \A j \in 1 .. Len(hole) : hole[j].length >= k => i <= j
        /\ images' = images \cup {<<hole[i].base, k>>}
        /\ hole' = Carved(i, k)
    BY <2>1, <2>2, <2>3, AllocStep
  <2>5. hole[i].base + k <= Limit(k)
    BY <1>1, <1>2, <2>4, TakenBelow
  <2>6. \A a \in images' : a[1] + k <= Limit(k)
    BY <1>1, <2>4, <2>5
  <2>7. IsFiniteSet(images')
    BY <1>1, <2>4, FS_AddElement
  <2>8. \A j \in 1 .. Len(hole') : hole'[j].base <= Limit(k)
    <3>1. CASE hole[i].length = k
      <4>1. hole' = RemoveAt(hole, i)
        BY <2>4, <3>1 DEF Carved
      <4>2. /\ Len(hole') = Len(hole) - 1
            /\ \A j \in 1 .. Len(hole') : hole'[j] = IF j < i THEN hole[j] ELSE hole[j + 1]
        <5>1. Listed(hole)
          BY <1>1
        <5> QED
          BY <2>4, <4>1, <5>1, TakeOut
      <4>3. ASSUME NEW j \in 1 .. Len(hole') PROVE hole'[j] = hole[j] \/ hole'[j] = hole[j + 1]
        BY <4>2
      <4>4. \A j \in 1 .. Len(hole') : j \in 1 .. Len(hole) /\ j + 1 \in 1 .. Len(hole)
        BY <1>1, <4>2
      <4> QED
        BY <1>1, <4>3, <4>4
    <3>2. CASE hole[i].length # k
      <4>1. hole' = CutAt(hole, i, k)
        BY <2>4, <3>2 DEF Carved, CutAt
      <4>2. hole[i].length > k
        <5>1. hole[i].length \in Nat
          BY <1>1, <2>4, HoleNumbers
        <5> QED
          BY <2>4, <3>2, <5>1
      <4>3. /\ Len(hole') = Len(hole)
            /\ \A j \in 1 .. Len(hole) : j # i => hole'[j] = hole[j]
            /\ hole'[i].base = hole[i].base + k
        BY <1>1, <2>4, <4>1, <4>2, Carve
      <4> QED
        BY <1>1, <2>5, <4>3
    <3> QED
      BY <3>1, <3>2
  <2> QED
    BY <2>6, <2>7, <2>8 DEF Below
<1>3. ASSUME NEW c \in Sizes, alloc_mem_fails(c) PROVE Below(k)'
  BY <1>3 DEF Below, alloc_mem_fails
<1>4. ASSUME NEW a \in images, free_mem(a[1], a[2]) PROVE Below(k)'
  <2>1. /\ images' = images \ {a}
        /\ \E u, p : /\ p \in 1 .. Len(hole) + 1 /\ WithHole(u, hole, p, Hole(a[1], a[2]))
                     /\ \/ hole' = u
                        \/ \E j \in 1 .. Len(u) : Swallowed(hole', u, j)
    BY <1>4, FreeStep
  <2>2. PICK u, p : /\ p \in 1 .. Len(hole) + 1 /\ WithHole(u, hole, p, Hole(a[1], a[2]))
                    /\ \/ hole' = u
                       \/ \E j \in 1 .. Len(u) : Swallowed(hole', u, j)
    BY <2>1
  <2> DEFINE e == Hole(a[1], a[2])
  <2>3. e.base <= Limit(k)
    <3>1. a[1] + k <= Limit(k) /\ a[1] \in Nat
      BY <1>1, ImageNumbers
    <3>2. e.base = a[1]
      BY DEF Hole
    <3> HIDE DEF e
    <3> QED
      BY <1>1, <3>1, <3>2
  <2> HIDE DEF e
  <2>4. WithHole(u, hole, p, e)
    BY <2>2 DEF e
  <2>5. \A j \in 1 .. Len(u) : u[j].base <= Limit(k)
    <3>1. /\ Len(u) = Len(hole) + 1
          /\ u[p] = e
          /\ \A j \in 1 .. Len(u) : j < p => j \in 1 .. Len(hole) /\ u[j] = hole[j]
          /\ \A j \in 1 .. Len(u) : j > p => j - 1 \in 1 .. Len(hole) /\ j - 1 >= p /\ u[j] = hole[j - 1]
      BY <1>1, <2>2, <2>4, PlacesMoved
    <3> SUFFICES ASSUME NEW j \in 1 .. Len(u) PROVE u[j].base <= Limit(k)
      OBVIOUS
    <3>2. j < p \/ j = p \/ j > p
      BY <1>1, <2>2, <3>1
    <3>3. u[j] = e \/ \E i \in 1 .. Len(hole) : u[j] = hole[i]
      BY <3>1, <3>2
    <3> QED
      BY <1>1, <2>3, <3>3
  <2>6. \A j \in 1 .. Len(hole') : hole'[j].base <= Limit(k)
    <3>1. CASE hole' = u
      BY <2>5, <3>1
    <3>2. ASSUME NEW i \in 1 .. Len(u), Swallowed(hole', u, i)
          PROVE  \A j \in 1 .. Len(hole') : hole'[j].base <= Limit(k)
      <4> SUFFICES ASSUME NEW j \in 1 .. Len(hole') PROVE hole'[j].base <= Limit(k)
        OBVIOUS
      <4>1. /\ Len(hole') = Len(u) - 1 /\ i \in 1 .. Len(hole')
            /\ hole'[i].base = u[i].base
            /\ \A q \in 1 .. Len(hole') : q < i => hole'[q] = u[q]
            /\ \A q \in 1 .. Len(hole') : q > i => hole'[q] = u[q + 1]
        BY <3>2 DEF Swallowed
      <4>2. Len(u) \in Nat /\ j \in 1 .. Len(u) /\ j + 1 \in 1 .. Len(u) /\ (j < i \/ j = i \/ j > i)
        BY <1>1, <2>4, <4>1 DEF WithHole
      <4>3. CASE j < i
        BY <2>5, <4>1, <4>2, <4>3
      <4>4. CASE j = i
        BY <2>5, <4>1, <4>2, <4>4
      <4>5. CASE j > i
        BY <2>5, <4>1, <4>2, <4>5
      <4> QED
        BY <4>2, <4>3, <4>4, <4>5
    <3> QED
      BY <2>2, <3>1, <3>2
  <2>7. \A c \in images' : c[1] + k <= Limit(k)
    BY <1>1, <2>1
  <2>8. IsFiniteSet(images')
    BY <1>1, <2>1, FS_Subset
  <2> QED
    BY <2>6, <2>7, <2>8 DEF Below
<1>5. CASE UNCHANGED vars
  BY <1>5 DEF Below, vars
<1> QED
  BY <1>2, <1>3, <1>4, <1>5 DEF Next

(* While there is an image, there are no more holes than there may be      *)
(* images.                                                                 *)
LEMMA FewHoles ==
    ASSUME IInv, NEW k \in Nat, k >= 1, \A c \in Sizes : c = k, Aligned(k), Below(k), NEW a \in images
    PROVE  Len(hole) <= MaxImages
<1>1. /\ Listed(hole) /\ hole \in Seq(HoleKind) /\ Len(hole) \in Nat
      /\ \A j \in 1 .. Len(hole) : AlignedHole(hole[j], k) /\ hole[j].base <= Limit(k)
      /\ a[1] \in Starts(k) /\ a[1] + k <= Limit(k)
      /\ a \in Clicks \X Sizes /\ ClicksOf(a) \subseteq Clicks \ FreeOf(hole)
      /\ Limit(k) \in Nat
  BY LimitIsStart DEF IInv, Listed, Aligned, Below, Shared
<1> DEFINE N == Len(hole)
<1> DEFINE D == 0 .. MaxImages - 1
<1> DEFINE T == {s \in Starts(k) : s < Limit(k)}
<1> DEFINE f == [i \in 1 .. N |-> IF i < N THEN hole[i].base ELSE a[1]]
<1>2. MaxImages \in Nat /\ BASE \in Nat
  BY Params
<1>3. IsFiniteSet(T) /\ Cardinality(T) <= MaxImages
  <2> DEFINE g == [m \in D |-> BASE + m * k]
  <2>1. g \in [D -> T]
    BY LimitIsStart
  <2>2. \A s \in T : \E m \in D : g[m] = s
    BY LimitIsStart
  <2>3. IsFiniteSet(D) /\ Cardinality(D) = MaxImages
    BY <1>2, FS_Interval
  <2> HIDE DEF g, D, T
  <2>4. g \in Surjection(D, T)
    BY <2>1, <2>2 DEF Surjection
  <2> QED
    BY <2>3, <2>4, FS_Surjection
<1>4. a[1] \in T /\ a[1] \notin FreeOf(hole)
  <2>1. a[1] \in Nat /\ a[1] \in ClicksOf(a)
    BY <1>1, ImageNumbers
  <2>2. a[1] < Limit(k)
    BY <1>1, <2>1
  <2> QED
    BY <1>1, <2>1, <2>2
<1>5. ASSUME NEW i \in 1 .. N, i < N PROVE hole[i].base \in T
  <2>1. N \in 1 .. N
    BY <1>1, <1>5
  <2>2. hole[i].base < hole[N].base
    BY <1>1, <1>5, <2>1, Apart
  <2>3. hole[i].base \in Nat /\ hole[N].base \in Nat /\ hole[N].base <= Limit(k)
    BY <1>1, <2>1, HoleNumbers
  <2>4. hole[i].base < Limit(k)
    BY <1>1, <2>2, <2>3
  <2> QED
    BY <1>1, <2>4 DEF AlignedHole
<1>6. ASSUME NEW i \in 1 .. N PROVE hole[i].base # a[1]
  <2>1. hole[i].base \in Nat /\ hole[i].base < EndOf(hole[i])
    BY <1>1, HoleNumbers
  <2>2. hole[i].base \in FreeOf(hole)
    <3>1. \E j \in 1 .. Len(hole) : hole[j].base <= hole[i].base /\ hole[i].base < EndOf(hole[j])
      BY <2>1
    <3> QED
      BY <1>1, <2>1, <3>1, FreeMember
  <2> QED
    BY <1>4, <2>2
<1>7. ASSUME NEW i \in 1 .. N, NEW j \in 1 .. N, hole[i].base = hole[j].base PROVE i = j
  <2>1. i < j \/ i = j \/ j < i
    BY <1>1
  <2>2. hole[i].base \in Nat /\ hole[j].base \in Nat
    BY <1>1, HoleNumbers
  <2>3. i < j => hole[i].base < hole[j].base
    BY <1>1, Apart
  <2>4. j < i => hole[j].base < hole[i].base
    BY <1>1, Apart
  <2> QED
    BY <1>7, <2>1, <2>2, <2>3, <2>4
<1> HIDE DEF T
<1>8. f \in [1 .. N -> T]
  BY <1>4, <1>5
<1>9. ASSUME NEW i \in 1 .. N, NEW j \in 1 .. N, f[i] = f[j] PROVE i = j
  <2>1. f[i] = (IF i < N THEN hole[i].base ELSE a[1]) /\ f[j] = IF j < N THEN hole[j].base ELSE a[1]
    OBVIOUS
  <2>2. ~ (i < N) => i = N
    BY <1>1
  <2>3. ~ (j < N) => j = N
    BY <1>1
  <2> HIDE DEF f, N
  <2> QED
    BY <1>6, <1>7, <1>9, <2>1, <2>2, <2>3
<1>10. f \in Injection(1 .. N, T)
  <2> HIDE DEF f, N
  <2> QED
    BY <1>8, <1>9 DEF Injection, IsInjective
<1>11. Cardinality(1 .. N) = N
  <2>1. N \in Nat
    BY <1>1
  <2> HIDE DEF N
  <2>2. Cardinality(1 .. N) = IF 1 > N THEN 0 ELSE N - 1 + 1
    BY <2>1, FS_Interval
  <2> QED
    BY <2>1, <2>2
<1>12. Cardinality(1 .. N) <= Cardinality(T)
  <2> HIDE DEF f, N
  <2> QED
    BY <1>3, <1>10, FS_Injection
<1>13. Cardinality(T) \in Nat
  BY <1>3, FS_CardinalityType
<1> QED
  BY <1>1, <1>2, <1>3, <1>11, <1>12, <1>13

(* There is a slot, for a size.                                            *)
LEMMA OneSizeHasSlots ==
    ASSUME NEW k \in Nat, k >= 1, \A c \in Sizes : c = k, MaxImages < NR_HOLES
    PROVE  Spec => []SlotForEveryImage
<1>1. Init => IInv /\ Aligned(k)
  BY StartInv, AlignedStart
<1>2. Init => Below(k)
  <2> SUFFICES ASSUME Init PROVE Below(k)
    OBVIOUS
  <2>1. images = {} /\ hole = <<Hole(BASE, TOTAL)>>
    BY DEF Init
  <2>2. \A i \in 1 .. Len(hole) : hole[i].base = BASE
    BY <2>1 DEF Hole
  <2>3. IsFiniteSet(images)
    BY <2>1, FS_EmptySet
  <2>4. BASE <= Limit(k)
    BY LimitIsStart
  <2> QED
    BY <2>1, <2>2, <2>3, <2>4 DEF Below
<1>3. IInv /\ Aligned(k) /\ Below(k) /\ [Next]_vars => IInv' /\ Aligned(k)' /\ Below(k)'
  BY NextInv, AlignedKept, BelowKept
<1>4. IInv /\ Aligned(k) /\ Below(k) => SlotForEveryImage
  <2> SUFFICES ASSUME IInv, Aligned(k), Below(k), NEW a \in images PROVE free_slots > 0
    BY DEF SlotForEveryImage
  <2>1. Len(hole) <= MaxImages
    BY FewHoles
  <2>2. free_slots = NR_HOLES - Len(hole) /\ Len(hole) \in Nat
    BY DEF IInv, Listed
  <2>3. MaxImages \in Nat /\ NR_HOLES \in Nat
    BY Params
  <2> QED
    BY <2>1, <2>2, <2>3
<1> QED
  BY <1>1, <1>2, <1>3, <1>4, PTL DEF Spec

(* "Hole table full" is never reached: with more slots than there may be   *)
(* images, and images of one size, free_mem finds a slot for what any      *)
(* process gives back.                                                     *)
THEOREM SlotsSuffice ==
    ASSUME \A c, d \in Sizes : c = d, MaxImages < NR_HOLES
    PROVE  Spec => []SlotForEveryImage
BY OneSize, OneSizeHasSlots
=============================================================================
