------------------------------ MODULE PipeFifo ------------------------------
(***************************************************************************)
(* What a kernel pipe promises its users (include/process/object.h and the *)
(* comments of process/pipe.c): a bounded first-in first-out byte queue    *)
(* whose write side can be closed, and on which a thread that would make   *)
(* no progress waits exactly as long as that stays so.                     *)
(***************************************************************************)
EXTENDS Integers, Sequences

CONSTANTS
    Threads,
    Capacity,
    WriteData,    \* the byte strings threads write
    ReadLengths   \* the numbers of bytes threads ask for

VARIABLES
    present,  \* the pipe exists
    open,     \* the write side is open
    fifo,     \* the bytes written and not yet read
    waiting,  \* waiting[t]: the side thread t waits for, or "no"
    result,   \* result[t]: what the last call of t returned
    data      \* the bytes the last call handed to its caller

vars == <<present, open, fifo, waiting, result, data>>

\* With bytes f in the queue and the write side open or not: is there
\* anything a thread that waits for this side has to be told, and what?
Ready(side, f, o) ==
    IF side = "read" THEN f # <<>> \/ ~o ELSE Len(f) < Capacity \/ ~o
Answer(side, f, o) ==
    IF side = "read" THEN IF f = <<>> THEN -1 ELSE Len(f)
                     ELSE IF o THEN Capacity - Len(f) ELSE -1

Released(t) == waiting[t] # "no" /\ Ready(waiting[t], fifo', open')

\* Every change of the pipe releases exactly the waiting threads that are
\* ready afterwards; the caller t of the step gets `value'.
Settle(t, value) ==
    /\ waiting' = [u \in Threads |-> IF Released(u) THEN "no" ELSE waiting[u]]
    /\ result' = [u \in Threads |-> IF u = t THEN value
                                    ELSE IF Released(u) THEN Answer(waiting[u], fifo', open')
                                    ELSE result[u]]

CanCall(t) == present /\ waiting[t] = "no"

Create(t) ==
    /\ ~present
    /\ present' = TRUE /\ open' = TRUE /\ fifo' = <<>> /\ data' = <<>>
    /\ UNCHANGED <<waiting, result>>

\* As many bytes as there is room for; -1 once the write side is closed.
Write(t, d) ==
    /\ CanCall(t)
    /\ \E n \in 0 .. Len(d) :
        /\ open => (n = Len(d) \/ n = Capacity - Len(fifo))
        /\ ~open => n = 0
        /\ fifo' = fifo \o SubSeq(d, 1, n)
        /\ UNCHANGED <<present, open>>
        /\ Settle(t, IF open THEN n ELSE -1)
    /\ Len(fifo') <= Capacity
    /\ data' = <<>>

\* The oldest bytes, as many as asked for and there; -1 at the end of the data.
Read(t, n) ==
    /\ CanCall(t)
    /\ LET k == IF n > Len(fifo) THEN Len(fifo) ELSE n
       IN  /\ data' = SubSeq(fifo, 1, k)
           /\ fifo' = SubSeq(fifo, k + 1, Len(fifo))
           /\ UNCHANGED <<present, open>>
           /\ Settle(t, IF fifo = <<>> /\ ~open THEN -1 ELSE k)

Wait(t, side) ==
    /\ CanCall(t)
    /\ IF Ready(side, fifo, open)
       THEN /\ result' = [result EXCEPT ![t] = Answer(side, fifo, open)]
            /\ UNCHANGED waiting
       ELSE /\ waiting' = [waiting EXCEPT ![t] = side]
            /\ UNCHANGED result
    /\ data' = <<>>
    /\ UNCHANGED <<present, open, fifo>>

\* Closing the write side keeps the data, closing the read side drops it.
Shutdown(t, side) ==
    /\ CanCall(t)
    /\ open' = FALSE
    /\ fifo' = IF side = "write" THEN fifo ELSE <<>>
    /\ UNCHANGED present
    /\ Settle(t, 1)
    /\ data' = <<>>

Destroy(t) ==
    /\ CanCall(t)
    /\ present' = FALSE /\ open' = FALSE /\ fifo' = <<>>
    /\ Settle(t, 1)
    /\ data' = <<>>

\* A thread that is terminated stops waiting.
Leave(t) ==
    /\ waiting' = [waiting EXCEPT ![t] = "no"]
    /\ result' = [result EXCEPT ![t] = 0]
    /\ data' = <<>>
    /\ UNCHANGED <<present, open, fifo>>

Init ==
    /\ present = FALSE /\ open = FALSE /\ fifo = <<>> /\ data = <<>>
    /\ waiting = [t \in Threads |-> "no"]
    /\ result = [t \in Threads |-> 0]

Next ==
    \E t \in Threads :
        \/ Create(t)
        \/ \E d \in WriteData : Write(t, d)
        \/ \E n \in ReadLengths : Read(t, n)
        \/ \E side \in {"read", "write"} : Wait(t, side) \/ Shutdown(t, side)
        \/ Destroy(t)
        \/ Leave(t)

Spec == Init /\ [][Next]_vars
=============================================================================
