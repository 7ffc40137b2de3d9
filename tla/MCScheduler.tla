---- MODULE MCScheduler ----
(* Model checking instances of Scheduler.                                    *)
EXTENDS Scheduler, TLC

CONSTANTS t1, t2, t3, t4, proc1, proc2

MCThreads == {t1, t2, t3}
MCProcs == {proc1, proc2}
MCFourThreads == {t1, t2, t3, t4}
MCOneProc == {proc1}

\* The names of threads and of processes are interchangeable.
Names == Permutations(MCThreads) \cup Permutations(MCProcs)

\* For liveness: a process after its first thread has created three more ones
\* and closed their handles; no further thread is created.
LiveInit ==
    /\ threadList = <<t1, t2, t3, t4>>
    /\ queue = [o \in Objects \cup {Device} |-> <<>>]
    /\ process = [x \in Threads |-> proc1]
    /\ threads = [x \in Procs |-> <<t1, t2, t3, t4>>]
    /\ handles = [x \in Procs |-> {}]
    /\ refs = [o \in Objects |-> IF o = proc1 THEN 4 ELSE 1]
    /\ link = [x \in Threads |-> None]
    /\ pc = "outer" /\ t = List /\ next_t = List
    /\ created = MaxCreate

LiveSpec == LiveInit /\ [][Next]_vars /\ Fairness
====
