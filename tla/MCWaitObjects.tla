---- MODULE MCWaitObjects ----
(* Model checking instance of WaitObjects: three threads, two semaphores, one *)
(* event that wakes all its threads and one that wakes a single one, and      *)
(* memory for two attachments.                                                *)
EXTENDS WaitObjects

CONSTANTS t1, t2, t3, s1, s2, x1, x2, all, one

MCThreads == {t1, t2, t3}
MCSems == {s1, s2}
MCSubs == {x1, x2}
MCEvents == {all, one}
MCWakeupAll == [e \in MCEvents |-> e = all]

Symmetry == Permutations(MCThreads) \cup Permutations(MCSems) \cup Permutations(MCSubs)

\* A state without what no call reads: the results of calls, and the flags of
\* threads that have ended.
Observed ==
    <<alive, {t \in alive : blocked[t]}, open, value, queue, subList, sub, failed>>
====
