-------------------------------- MODULE Pipe --------------------------------
(***************************************************************************)
(* A kernel pipe (process/pipe.c): a linear buffer with a read and a write *)
(* position that is compacted and doubled on demand, two queues of waiting *)
(* threads, and a write side that can be closed while data is left.        *)
(*                                                                         *)
(* The kernel runs with interrupts disabled, so each call is one step.     *)
(* Both queues are always woken as a whole: their order does not matter    *)
(* and they are sets.                                                      *)
(***************************************************************************)
EXTENDS Integers, Sequences, FiniteSetsExt

CONSTANTS
    Threads,
    Byte,
    MIN_SIZE,     \* MIN_PIPE_BUFFER_SIZE
    MAX_SIZE,     \* MAX_PIPE_BUFFER_SIZE
    WriteData,    \* the byte strings threads write
    ReadLengths   \* the numbers of bytes threads ask for

\* The sizes the buffer can have: the minimal size, doubled.
Sizes == {n \in 1 .. MAX_SIZE : \E k \in 0 .. MAX_SIZE : n = MIN_SIZE * 2^k}

ASSUME PipeAssumption ==
    /\ MIN_SIZE \in Nat \ {0} /\ MAX_SIZE \in Nat
    /\ WriteData \subseteq Seq(Byte)
    /\ ReadLengths \subseteq Nat

\* Both limits are powers of two in the code (pipe.c:41-42).
ASSUME SizesAssumption ==
    /\ MIN_SIZE \in Sizes /\ MAX_SIZE \in Sizes
    /\ \A n \in Sizes : n < MAX_SIZE => 2 * n \in Sizes

VARIABLES
    present,       \* the object exists (refcount > 0)
    writeable,     \* p->writeable
    size,          \* p->size; 0 exactly when p->buffer is NULL
    buffer,        \* the bytes in front of p->writePos
    readPos,       \* p->readPos
    readWaiters,   \* threads queued in p->readWaiters
    writeWaiters,  \* threads queued in p->writeWaiters
    result,        \* eax of each thread after its last call
    data           \* the bytes copied out by the last call

vars == <<present, writeable, size, buffer, readPos, readWaiters, writeWaiters,
          result, data>>

writePos == Len(buffer)
used == writePos - readPos

\* The bytes between the two positions.
Content == SubSeq(buffer, readPos + 1, writePos)

Smaller(a, b) == IF a <= b THEN a ELSE b

MutNewSize(wanted) == 2 * size   \* a single doubling is taken to suffice

\* new_size = 2 * size; while (new_size < wanted) new_size *= 2;
NewSize(wanted) == Min({n \in Sizes : n >= 2 * size /\ n >= wanted})

\* A thread that is not queued can make a system call.
CanCall(t) == present /\ t \notin readWaiters \cup writeWaiters

MutWakeup(queue, eax, t, value) ==   \* woken threads keep their old result
    result' = [result EXCEPT ![t] = value]

\* queueWakeup(queue, true, eax) together with the result of the caller.
Wakeup(queue, eax, t, value) ==
    result' = [u \in Threads |-> IF u \in queue THEN eax
                                 ELSE IF u = t THEN value ELSE result[u]]

\* pipeCreate
PipeCreate(t) ==
    /\ ~present
    /\ present' = TRUE
    /\ writeable' = TRUE
    /\ size' = MIN_SIZE
    /\ buffer' = <<>>
    /\ readPos' = 0
    /\ data' = <<>>
    /\ UNCHANGED <<readWaiters, writeWaiters, result>>

\* __pipeDestroy: the last handle is closed by thread t.
PipeDestroy(t) ==
    /\ CanCall(t)
    /\ present' = FALSE
    /\ writeable' = FALSE
    /\ Wakeup(writeWaiters \cup readWaiters, -1, t, 1)
    /\ writeWaiters' = {} /\ readWaiters' = {}
    /\ size' = 0 /\ buffer' = <<>> /\ readPos' = 0
    /\ data' = <<>>

\* __pipeShutdown.  Mode 1 closes the write side only, unless the pipe is
\* empty: then nothing is left to read and both sides are closed.
PipeShutdown(t, mode) ==
    /\ CanCall(t)
    /\ writeable' = FALSE
    /\ writeWaiters' = {}
    /\ IF mode = 1 /\ used # 0
       THEN /\ Wakeup(writeWaiters, -1, t, 1)
            /\ UNCHANGED <<size, buffer, readPos, readWaiters>>
       ELSE /\ Wakeup(writeWaiters \cup readWaiters, -1, t, 1)
            /\ readWaiters' = {}
            /\ size' = 0 /\ buffer' = <<>> /\ readPos' = 0
    /\ data' = <<>>
    /\ UNCHANGED present

MutPipeGetStatus(mode) ==   \* operands swapped
    IF ~writeable /\ (mode = 1 \/ used = 0) THEN -1
    ELSE IF mode = 1 THEN used - MAX_SIZE ELSE used

\* __pipeGetStatus and the immediate answer of __pipeWait are the same number.
PipeGetStatus(mode) ==
    IF ~writeable /\ (mode = 1 \/ used = 0) THEN -1
    ELSE IF mode = 1 THEN MAX_SIZE - used ELSE used

MutMustWait(mode) ==   \* a reader does not look at `writeable'
    IF mode = 1 THEN writeable /\ used >= MAX_SIZE ELSE used = 0

\* The cases in which __pipeWait returns a queue.
MustWait(mode) ==
    IF mode = 1 THEN writeable /\ used >= MAX_SIZE ELSE writeable /\ used = 0

PipeWait(t, mode) ==
    /\ CanCall(t)
    /\ \/ /\ MustWait(mode) /\ mode = 1
          /\ writeWaiters' = writeWaiters \cup {t}
          /\ UNCHANGED <<readWaiters, result>>
       \/ /\ MustWait(mode) /\ mode = 0
          /\ readWaiters' = readWaiters \cup {t}
          /\ UNCHANGED <<writeWaiters, result>>
       \/ /\ ~MustWait(mode)
          /\ result' = [result EXCEPT ![t] = PipeGetStatus(mode)]
          /\ UNCHANGED <<readWaiters, writeWaiters>>
    /\ data' = <<>>
    /\ UNCHANGED <<present, writeable, size, buffer, readPos>>

\* A read or write on a pipe that is closed for it returns -1.
CallFails(t) ==
    /\ result' = [result EXCEPT ![t] = -1]
    /\ data' = <<>>
    /\ UNCHANGED <<present, writeable, size, buffer, readPos, readWaiters, writeWaiters>>

\* __pipeWrite: clip to the space left, compact and double if the bytes do
\* not fit behind writePos, append, wake the readers.
PipeWrite(t, d) ==
    LET length == Smaller(Len(d), MAX_SIZE - used)
        fits   == length <= size - writePos
        moved  == IF fits THEN buffer ELSE Content
        total  == used + length
    IN  /\ CanCall(t)
        /\ writeable
        /\ size' = IF length > size - Len(moved)
                   THEN NewSize(Len(moved) + length) ELSE size
        /\ buffer' = moved \o SubSeq(d, 1, length)
        /\ readPos' = IF fits THEN readPos ELSE 0
        /\ IF total > 0
           THEN Wakeup(readWaiters, total, t, length) /\ readWaiters' = {}
           ELSE Wakeup({}, 0, t, length) /\ UNCHANGED readWaiters
        /\ data' = <<>>
        /\ UNCHANGED <<present, writeable, writeWaiters>>

PipeWriteFails(t) == CanCall(t) /\ ~writeable /\ CallFails(t)

\* __pipeRead: copy out, reset an emptied buffer (and free it when nobody can
\* write any more), wake the writers if there is space now.
PipeRead(t, n) ==
    LET length == Smaller(n, used)
        left   == used - length
    IN  /\ CanCall(t)
        /\ writeable \/ used > 0
        /\ data' = SubSeq(buffer, readPos + 1, readPos + length)
        /\ IF left = 0
           THEN /\ buffer' = <<>> /\ readPos' = 0
                /\ size' = IF writeable THEN size ELSE 0
           ELSE /\ readPos' = readPos + length
                /\ UNCHANGED <<buffer, size>>
        /\ IF left < MAX_SIZE
           THEN /\ Wakeup(writeWaiters, IF writeable THEN MAX_SIZE - left ELSE 0, t, length)
                /\ writeWaiters' = {}
           ELSE Wakeup({}, 0, t, length) /\ UNCHANGED writeWaiters
        /\ UNCHANGED <<present, writeable, readWaiters>>

PipeReadFails(t) == CanCall(t) /\ ~writeable /\ used = 0 /\ CallFails(t)

\* __threadShutdown of thread t unlinks it from the queue it waits in; a new
\* thread takes over its name.
ThreadExit(t) ==
    /\ readWaiters' = readWaiters \ {t}
    /\ writeWaiters' = writeWaiters \ {t}
    /\ result' = [result EXCEPT ![t] = 0]
    /\ data' = <<>>
    /\ UNCHANGED <<present, writeable, size, buffer, readPos>>

Init ==
    /\ present = FALSE /\ writeable = FALSE
    /\ size = 0 /\ buffer = <<>> /\ readPos = 0
    /\ readWaiters = {} /\ writeWaiters = {}
    /\ result = [t \in Threads |-> 0]
    /\ data = <<>>

Next ==
    \E t \in Threads :
        \/ PipeCreate(t)
        \/ PipeDestroy(t)
        \/ \E mode \in {0, 1} : PipeShutdown(t, mode) \/ PipeWait(t, mode)
        \/ \E d \in WriteData : PipeWrite(t, d) \/ PipeWriteFails(t)
        \/ \E n \in ReadLengths : PipeRead(t, n) \/ PipeReadFails(t)
        \/ ThreadExit(t)

Spec == Init /\ [][Next]_vars

-----------------------------------------------------------------------------
(***************************************************************************)
(* Properties.                                                             *)
(***************************************************************************)

\* Every variable has the shape of the C field it stands for, and every call
\* answers -1 or a number of bytes that the pipe can hold.
TypeOK ==
    /\ present \in BOOLEAN /\ writeable \in BOOLEAN
    /\ size \in Nat
    /\ buffer \in Seq(Byte)
    /\ readPos \in Nat
    /\ readWaiters \subseteq Threads /\ writeWaiters \subseteq Threads
    /\ result \in [Threads -> -1 .. MAX_SIZE]
    /\ data \in Seq(Byte)

\* The positions stay inside the allocated buffer, which never grows beyond
\* its maximum, and whenever __pipeWrite or __pipeRead gets past its early
\* return the buffer is there (the assertions pipe.c:278 and pipe.c:338).
BufferSound ==
    /\ readPos <= writePos /\ writePos <= size
    /\ size \in Sizes \cup {0}
    /\ writeable => size # 0
    /\ readPos = writePos => readPos = 0

\* No wakeup is lost: a thread waits for data only while the pipe is open and
\* empty, and for space only while it is open and full.
NoLostWakeup ==
    /\ readWaiters # {} => present /\ writeable /\ used = 0
    /\ writeWaiters # {} => present /\ writeable /\ used = MAX_SIZE
    /\ readWaiters \cap writeWaiters = {}

\* The pipe implements a bounded queue of bytes: compaction, doubling, the
\* reset of an emptied buffer and the early release of a closed one are
\* invisible to its users.
Fifo == INSTANCE PipeFifo WITH
    Capacity <- MAX_SIZE,
    open <- writeable,
    fifo <- Content,
    waiting <- [t \in Threads |-> IF t \in readWaiters THEN "read"
                                  ELSE IF t \in writeWaiters THEN "write" ELSE "no"]
ImplementsFifo == Fifo!Spec
=============================================================================
