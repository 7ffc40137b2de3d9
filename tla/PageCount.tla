----------------------------- MODULE PageCount -----------------------------
(***************************************************************************)
(* What memory/physmem.c promises its callers: every page has a count of   *)
(* the references to it, and a page whose count is zero is free.  A        *)
(* reference can make the kernel take pages for itself, and the system     *)
(* stops when a count is at its limit or no page is left.                  *)
(***************************************************************************)
EXTENDS Integers

CONSTANTS Page, MaxRef

VARIABLES
    count,  \* count[i]: references to page i
    down    \* the system has failed

FreePage == {i \in Page : count[i] = 0}

Init == count \in [Page -> {0, 1}] /\ down = FALSE

Alloc(i) ==
    /\ ~down /\ count[i] = 0
    /\ count' = [count EXCEPT ![i] = 1]
    /\ UNCHANGED down

\* The kernel takes the free pages own for its tables and n more references
\* to i are held.
Refer(i, n, own) ==
    /\ ~down /\ count[i] > 0 /\ count[i] + n <= MaxRef
    /\ count' = [j \in Page |-> IF j = i THEN count[j] + n
                                ELSE IF j \in own THEN 1 ELSE count[j]]
    /\ UNCHANGED down

Release(i) ==
    /\ ~down /\ count[i] > 0
    /\ count' = [count EXCEPT ![i] = @ - 1]
    /\ UNCHANGED down

Fail == ~down /\ down' = TRUE /\ UNCHANGED count

Next ==
    \/ \E i \in Page : Alloc(i) \/ Release(i)
    \/ \E i \in Page, own \in SUBSET FreePage : Refer(i, 1, own) \/ Refer(i, 0, own)
    \/ Fail

Spec == Init /\ [][Next]_<<count, down>>
====
