------------------------------ MODULE MCThreads ------------------------------
(***************************************************************************)
(* Model checking instance of Fpu and ExitCodes: what a thread has besides *)
(* its place in the lists of the scheduler.  The FPU and the exit codes    *)
(* share no state, so a behaviour checks one of them and leaves the other  *)
(* as it was: part says which.                                             *)
(*                                                                         *)
(* Three threads and two results of computations; a process of two threads *)
(* and one of one thread.                                                  *)
(***************************************************************************)
EXTENDS Fpu, ExitCodes, TLC

CONSTANTS t1, t2, t3, v1, v2, u1, u2, u3, proc1, proc2

VARIABLE part

MCThreadNames == {t1, t2, t3}
MCContents == {v1, v2}

MCUsers == {u1, u2, u3}
MCProcs == {proc1, proc2}
MCOwner == [u \in MCUsers |-> IF u = u3 THEN proc2 ELSE proc1]

MCInit ==
    /\ part \in {"fpu", "codes"}
    /\ FpuInit /\ CodesInit

MCNext ==
    /\ UNCHANGED part
    /\ \/ part = "fpu" /\ FpuNext /\ UNCHANGED codeVars
       \/ part = "codes" /\ CodesNext /\ UNCHANGED fpuVars

MCSpec == MCInit /\ [][MCNext]_<<part, fpuVars, codeVars>>

\* The threads that compute, and their results, are interchangeable.
MCSymmetry == Permutations(MCThreadNames) \cup Permutations(MCContents)
====
