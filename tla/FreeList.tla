------------------------------ MODULE FreeList ------------------------------
(***************************************************************************)
(* The free lists of the pools: how often each page or slot is on its      *)
(* list, so that a double free is visible.  Which of them is handed out    *)
(* makes no difference: the lowest.                                        *)
(***************************************************************************)
EXTENDS Integers, FiniteSets, FiniteSetsExt, Functions

\* num_free_slots, len(free_slots)
Count(list) == MapThenSumSet(LAMBDA x : list[x], DOMAIN list)

\* A free list with the elements of S put on it, or those of a sequence taken off.
Put(list, S) == [x \in DOMAIN list |-> IF x \in S THEN list[x] + 1 ELSE list[x]]
Take(list, s) == [x \in DOMAIN list |-> IF x \in Range(s) THEN list[x] - 1 ELSE list[x]]

\* The n lowest elements of the list.
Lowest(list, n) ==
    LET there == {x \in DOMAIN list : list[x] > 0}
    IN  [i \in 1..n |-> CHOOSE x \in there : Cardinality({y \in there : y < x}) = i - 1]

=============================================================================
