------------------------------- MODULE Memory -------------------------------
(***************************************************************************)
(* What alloc_mem and free_mem promise (the head of src/mm/alloc.c): the   *)
(* free memory is a set of clicks; a request gets some clicks in a row     *)
(* that were free, and is refused only when there are none; what is given  *)
(* back is free again.                                                     *)
(***************************************************************************)
EXTENDS Integers

CONSTANTS Clicks,   \* the clicks that programs may use
          Sizes,    \* what may be asked for
          NO_MEM    \* the refusal

VARIABLES free,     \* the free clicks
          result    \* what the last request got

Run(base, clicks) == base .. base + clicks - 1

Fits(base, clicks) == Run(base, clicks) \subseteq free

Init == free = Clicks /\ result = NO_MEM

Allocate(clicks) ==
    \/ \E base \in Clicks :
          /\ Fits(base, clicks)
          /\ free' = free \ Run(base, clicks)
          /\ result' = base
    \/ /\ \A base \in Clicks : ~ Fits(base, clicks)
       /\ result' = NO_MEM
       /\ UNCHANGED free

Release(base, clicks) ==
    /\ Run(base, clicks) \subseteq Clicks \ free
    /\ free' = free \cup Run(base, clicks)
    /\ UNCHANGED result

Next == \E clicks \in Sizes : Allocate(clicks) \/ \E base \in Clicks : Release(base, clicks)

Spec == Init /\ [][Next]_<<free, result>>
=============================================================================
