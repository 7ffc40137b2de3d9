---- MODULE MCHeap ----
(* Model checking instance of Heap: four pages of seven granules, lists for  *)
(* blocks of two and of four granules, three allocations.                    *)
EXTENDS Heap, TLC

CONSTANTS o1, o2, o3

MCOwners == {o1, o2, o3}
MCBuckets == <<2, 4>>
\* Small blocks, one page, two pages.
MCLengths == {1, 2, 6, 9}
MCSymmetry == Permutations(MCOwners)
====
