----------------------------- MODULE ExitCodes -----------------------------
(***************************************************************************)
(* What threads learn about the end of threads and processes: the exit     *)
(* codes of process/thread.c and process/process.c and the results of the  *)
(* system calls that wait for, query and signal them. Lists and references *)
(* are in module Scheduler; here the threads exist from the start, and     *)
(* every running thread has handles to all objects.                        *)
(***************************************************************************)
EXTENDS Integers, FiniteSets

CONSTANTS Users, Procs,
          Owner,    \* Owner[t]: the process t was created in
          Codes,    \* exit codes and results that programs pass
          NoResult      \* NULL, or no result

Objects == Users \cup Procs
Unset == -1

ASSUME ExitCodesAssumption ==
    /\ Users \cap Procs = {} /\ NoResult \notin Objects
    /\ Owner \in [Users -> Procs] /\ Codes \subseteq Int \ {Unset}
    /\ \A p \in Procs : \E t \in Users : Owner[t] = p

VARIABLES ended,      \* threads whose process is NULL
          exitcode,   \* exitcode[o], of threads and processes
          waits,      \* waits[t]: the object t is blocked on, or NoResult
          told,       \* told[t]: the result of the last wait or query of t
          first       \* history: the exit code with which a process ended

codeVars == <<ended, exitcode, waits, told, first>>

Members(p) == {t \in Users : Owner[t] = p}
Ended(o) == IF o \in Users THEN o \in ended ELSE Members(o) \subseteq ended
Running(t) == t \notin ended /\ waits[t] = NoResult
Result(o, c, by) == [of |-> o, code |-> c, by |-> by]

-----------------------------------------------------------------------------

MutWakeAll(ending, c) ==   \* __processShutdown does not wake who waits for the process
    LET gone == ended \cup (ending \cap Users)
        seen == ending \cap Users
    IN  /\ waits' = [t \in Users |-> IF t \in gone \/ waits[t] \in seen THEN NoResult ELSE waits[t]]
        /\ told' = [t \in Users |->
                       IF t \in gone THEN NoResult
                       ELSE IF waits[t] \in seen THEN Result(waits[t], c, "end") ELSE told[t]]

\* queueWakeup for the objects that end, all with the same code; a thread that
\* ends itself leaves the queue it is in.
WakeAll(ending, c) ==
    LET gone == ended \cup (ending \cap Users)
    IN  /\ waits' = [t \in Users |-> IF t \in gone \/ waits[t] \in ending THEN NoResult ELSE waits[t]]
        /\ told' = [t \in Users |->
                       IF t \in gone THEN NoResult
                       ELSE IF waits[t] \in ending THEN Result(waits[t], c, "end") ELSE told[t]]

\* The assignments of __threadShutdown and __processShutdown.
End(ending, c) ==
    /\ ended' = ended \cup (ending \cap Users)
    /\ exitcode' = [o \in Objects |-> IF o \in ending THEN c ELSE exitcode[o]]
    /\ first' = [p \in Procs |-> IF p \in ending /\ ~Ended(p) THEN c ELSE first[p]]
    /\ WakeAll(ending, c)

MutWithLast(t) == {t}   \* the process is left without an exit code

\* The last thread terminates the process, with its own exit code.
WithLast(t) == {t} \cup {p \in {Owner[t]} : Members(p) \ ended = {t}}

\* __threadShutdown; a thread that has ended is left alone.
ThreadShutdown(t, c) == t \notin ended /\ End(WithLast(t), c)

\* __processShutdown; it ends the threads that are left with the same code.
ProcessShutdown(p, c) == End({p} \cup (Members(p) \ ended), c)

\* SYSCALL_OBJECT_SHUTDOWN, SYSCALL_EXIT_THREAD, SYSCALL_EXIT_PROCESS
Shutdown(t, o, c) ==
    /\ Running(t)
    /\ IF o \in Users THEN ThreadShutdown(o, c) ELSE ProcessShutdown(o, c)

\* SYSCALL_OBJECT_WAIT: __threadWait, __processWait, threadWait
Wait(t, o) ==
    /\ Running(t)
    /\ IF Ended(o)
       THEN told' = [told EXCEPT ![t] = Result(o, exitcode[o], "end")] /\ UNCHANGED waits
       ELSE waits' = [waits EXCEPT ![t] = o] /\ told' = [told EXCEPT ![t] = NoResult]
    /\ UNCHANGED <<ended, exitcode, first>>

\* SYSCALL_OBJECT_GET_STATUS: __threadGetStatus, __processGetStatus
GetStatus(t, o) ==
    /\ Running(t)
    /\ told' = [told EXCEPT ![t] = IF Ended(o) THEN Result(o, exitcode[o], "end")
                                   ELSE Result(o, Unset, "query")]
    /\ UNCHANGED <<ended, exitcode, waits, first>>

\* SYSCALL_OBJECT_SIGNAL: __threadSignal
Signal(t, u, c) ==
    /\ Running(t) /\ u \notin ended /\ waits[u] # NoResult
    /\ waits' = [waits EXCEPT ![u] = NoResult]
    /\ told' = [told EXCEPT ![u] = Result(waits[u], c, "signal")]
    /\ UNCHANGED <<ended, exitcode, first>>

\* threadCreate, processCreate
CodesInit ==
    /\ ended = {}
    /\ exitcode = [o \in Objects |-> Unset]
    /\ waits = [t \in Users |-> NoResult] /\ told = [t \in Users |-> NoResult]
    /\ first = [p \in Procs |-> Unset]

CodesNext ==
    \E t \in Users :
        \/ \E o \in Objects : Wait(t, o) \/ GetStatus(t, o) \/ \E c \in Codes : Shutdown(t, o, c)
        \/ \E u \in Users, c \in Codes : Signal(t, u, c)

CodesSpec == CodesInit /\ [][CodesNext]_codeVars

-----------------------------------------------------------------------------
(* Properties                                                              *)

\* Types of the exit codes and of what the threads were told.
CodesTyped ==
    /\ ended \subseteq Users
    /\ exitcode \in [Objects -> Codes \cup {Unset}]
    /\ waits \in [Users -> Objects \cup {NoResult}]
    /\ told \in [Users -> {NoResult} \cup
                    [of : Objects, code : Codes \cup {Unset}, by : {"end", "query", "signal"}]]
    /\ first \in [Procs -> Codes \cup {Unset}]

\* What a thread has learned about the end of another thread stays true, and
\* so all learn the same, however often the thread is shut down again.
ThreadCodeKept ==
    \A t \in Users : told[t] # NoResult =>
        (told[t].by = "end" /\ told[t].of \in Users =>
            told[t].of \in ended /\ exitcode[told[t].of] = told[t].code)

\* A process ends with the exit code of one of its threads: a shutdown hands
\* its code to all threads that are left, and the last thread that exits by
\* itself hands its own to the process.
EndCode == \A p \in Procs : Ended(p) => first[p] \in {exitcode[t] : t \in Members(p)}

\* Nobody is left waiting for something that has ended.
NoneLeftWaiting == \A t \in Users : waits[t] # NoResult => ~Ended(waits[t])

\* What a thread has learned about the end of a process can be "queried later
\* by other processes" as well.
ProcessCodeKept ==
    \A t \in Users : told[t] # NoResult =>
        (told[t].by = "end" /\ told[t].of \in Procs => exitcode[told[t].of] = told[t].code)

\* A wait for a thread or a process returns only when it is terminated.
WaitReturnsEnd ==
    \A t \in Users : told[t] # NoResult => (told[t].by # "query" => Ended(told[t].of))

\* Exit codes of threads are final, and the code of a process that ends comes
\* from one of its threads.
CodesSound == CodesTyped /\ ThreadCodeKept /\ EndCode
====
