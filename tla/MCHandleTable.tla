---- MODULE MCHandleTable ----
(* Model checking instance of HandleTable: two processes, a pipe (minimal   *)
(* handle 0) and a timer (default minimal handle), an array that doubles    *)
(* from 2 to at most 16 cells.                                              *)
EXTENDS HandleTable, TLC

CONSTANTS proc1, proc2, pipe, timer

MCProcs == {proc1, proc2}
MCLowObjects == {pipe}
MCObjects == MCProcs \cup {pipe, timer}

\* Handles given to dup2: inside the initial array, at its end, inside the
\* third size, and one that makes the array grow to its maximum at once.
MCSetHandles == {0, 2, 5, 9}

\* The same with a handle that equals a later array size.
MCBoundaryHandles == {2, 4}

Symmetry == Permutations(MCProcs)
====
