------------------------------- MODULE Holes -------------------------------
(***************************************************************************)
(* The hole list of the memory manager (src/mm/alloc.c): free memory as a  *)
(* list of holes in the order of their addresses, first fit, and merging   *)
(* that walks the list and gives up at every fifth step it has ever taken. *)
(* The memory manager asks for images of one size (fork copies its         *)
(* parent's) and gives back what it was given.                             *)
(***************************************************************************)
EXTENDS Integers, Sequences, FiniteSets, SequencesExt, FiniteSetsExt

CONSTANTS BASE,        \* PROCS_BASE_CLICK
          TOTAL,       \* clicks from there to the end of memory
          Sizes,       \* the sizes of images
          MaxImages,   \* processes beside ORIGIN that can have an image
          NR_HOLES,    \* slots for holes
          NO_MEM

ASSUME HolesAssumption ==
    /\ BASE \in Nat \ {0} /\ TOTAL \in Nat \ {0} /\ Sizes \subseteq Nat \ {0}
    /\ MaxImages \in Nat /\ NR_HOLES \in Nat \ {0}
    /\ NO_MEM \in Int /\ NO_MEM < BASE

VARIABLES
    hole,         \* hole_head and the chain behind it
    free_slots,   \* how many entries the chain of free slots has
    merge_count,
    images,       \* the <<base, clicks>> that processes have
    result        \* what the last alloc_mem returned

vars == <<hole, free_slots, merge_count, images, result>>

Clicks == BASE .. BASE + TOTAL - 1
MERGE_LIMIT == 5

Hole(base, length) == [base |-> base, length |-> length]

(* mem_init: everything is given back as one hole, and merge_hole is       *)
(* called for it once.                                                     *)
Init ==
    /\ hole = <<Hole(BASE, TOTAL)>>
    /\ free_slots = NR_HOLES - 1
    /\ merge_count = 1
    /\ images = {}
    /\ result = NO_MEM

-----------------------------------------------------------------------------
(* Mutant of BigEnough: an exact fit is passed over.                       *)
BigEnoughStrict(clicks) == {i \in DOMAIN hole : hole[i].length > clicks}

BigEnough(clicks) == {i \in DOMAIN hole : hole[i].length >= clicks}

(* The request is cut from the low end of the hole; a hole that is used up *)
(* is removed.                                                             *)
Carved(i, clicks) ==
    IF hole[i].length = clicks THEN RemoveAt(hole, i)
    ELSE [hole EXCEPT ![i] = Hole(@.base + clicks, @.length - clicks)]

(* First fit.                                                              *)
alloc_mem(clicks) ==
    LET i == Min(BigEnough(clicks))
    IN  /\ BigEnough(clicks) # {}
        /\ hole' = Carved(i, clicks)
        /\ free_slots' = free_slots + Len(hole) - Len(hole')
        /\ images' = images \cup {<<hole[i].base, clicks>>}
        /\ result' = hole[i].base
        /\ UNCHANGED merge_count

alloc_mem_fails(clicks) ==
    /\ BigEnough(clicks) = {}
    /\ result' = NO_MEM
    /\ UNCHANGED <<hole, free_slots, merge_count, images>>

-----------------------------------------------------------------------------
Adjacent(h, i) == h[i].base + h[i].length = h[i + 1].base

(***************************************************************************)
(* merge_hole, called for the hole at place i and then for the next and    *)
(* the next: it ends at the last hole, at the first that touches its       *)
(* successor, which it swallows, or when merge_count comes to five.        *)
(***************************************************************************)
MergeEnd(h, i) == Min({j \in i..Len(h) : j = Len(h) \/ Adjacent(h, j)})

Merged(h, i) ==
    LET j == MergeEnd(h, i)
        calls == merge_count + j - i + 1
    IN  IF calls >= MERGE_LIMIT THEN [list |-> h, count |-> 0]
        ELSE [list |-> IF j = Len(h) THEN h
                       ELSE RemoveAt([h EXCEPT ![j].length = @ + h[j + 1].length], j + 1),
              count |-> calls]

(* Mutant of Place: the new hole goes in front of the one it should follow.*)
PlaceEarly(base) == Cardinality({i \in 2..Len(hole) : hole[i].base < base})

(* How many holes the new one goes behind.                                 *)
Place(base) == Cardinality({i \in DOMAIN hole : hole[i].base < base})

(* Mutant of SlotsAfter: the slot of a swallowed hole is not given back.   *)
SlotsAfterLeaked(list) == free_slots - 1

(* One slot is taken for the new hole; merging gives one back.             *)
SlotsAfter(list) == free_slots - 1 + (Len(hole) + 1 - Len(list))

(* The new hole goes in at its place, and merging starts at the hole       *)
(* before it, or at the new hole when it is the first.                     *)
free_mem(base, clicks) ==
    LET n == Place(base)
        m == Merged(InsertAt(hole, n + 1, Hole(base, clicks)), IF n = 0 THEN 1 ELSE n)
    IN  /\ free_slots > 0
        /\ hole' = m.list
        /\ merge_count' = m.count
        /\ free_slots' = SlotsAfter(m.list)
        /\ images' = images \ {<<base, clicks>>}
        /\ UNCHANGED result

Next ==
    \/ \E clicks \in Sizes :
          Cardinality(images) < MaxImages /\ (alloc_mem(clicks) \/ alloc_mem_fails(clicks))
    \/ \E image \in images : free_mem(image[1], image[2])

Spec == Init /\ [][Next]_vars

-----------------------------------------------------------------------------
(* Every field holds a value of its kind.                                  *)
TypeOK ==
    /\ hole \in Seq([base : Clicks, length : 1..TOTAL])
    /\ free_slots \in 0..NR_HOLES
    /\ merge_count \in 0..MERGE_LIMIT - 1
    /\ images \subseteq Clicks \X Sizes
    /\ result \in Clicks \cup {NO_MEM}

(***************************************************************************)
(* The list is in the order of the addresses, no two holes overlap, no     *)
(* hole overlaps an image, and holes and images together are the whole     *)
(* memory; every slot is on one of the two chains.                         *)
(***************************************************************************)
Extent(h) == h.base .. h.base + h.length - 1
FreeClicks == UNION {Extent(hole[i]) : i \in DOMAIN hole}

ListCorrect ==
    /\ TypeOK
    /\ \A i, j \in DOMAIN hole : i < j => hole[i].base + hole[i].length <= hole[j].base
    /\ \A image \in images : Extent(Hole(image[1], image[2])) \cap FreeClicks = {}
    /\ FreeClicks \cup UNION {Extent(Hole(image[1], image[2])) : image \in images} = Clicks
    /\ free_slots = NR_HOLES - Len(hole)

(* free_mem always finds a slot for the new hole, although merging may     *)
(* leave holes that touch: "Hole table full" is never reached.             *)
SlotForEveryImage == images # {} => free_slots > 0

(* The hole list keeps the promise of alloc_mem and free_mem: as long as   *)
(* images have one size, holes that were not merged never make a request   *)
(* fail that the free memory could satisfy.                                *)
Promise == INSTANCE Memory WITH free <- FreeClicks

ImplementsMemory == Promise!Spec
=============================================================================
