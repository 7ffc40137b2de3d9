----------------------------- MODULE Scheduler -----------------------------
(***************************************************************************)
(* Processes, threads and the run loop of the kernel (process/thread.c,    *)
(* process/process.c and the system calls of interrupt/interrupt.c that    *)
(* create, terminate, replace, wait for and signal them).                  *)
(*                                                                         *)
(* Runnable threads are linked into one list.  threadSchedule walks it     *)
(* with a pointer: __threadRun reads the successor of a thread BEFORE it   *)
(* runs the thread, and the pointer moves there when the time slice ends.  *)
(* A thread is unlinked by ll_remove, which leaves its own links as they   *)
(* are, and its memory is freed with its last reference.                   *)
(*                                                                         *)
(* A process has at most one handle to each object here (the table itself  *)
(* is in module HandleTable).  Everything else a thread can wait for is    *)
(* the one object Device, whose threads the timer interrupt wakes.         *)
(***************************************************************************)
EXTENDS Integers, Sequences, FiniteSets, SequencesExt, LinkedLists

CONSTANTS
    Threads,      \* memory for threads
    Procs,        \* memory for processes
    Device,       \* a timer that wakes one thread at a time
    List,         \* &threadList, the end of the circular list
    None,         \* NULL
    MaxHandles,   \* capacity of a handle table
    MaxCreate     \* bound: threads created by system calls

Objects == Threads \cup Procs

ASSUME SchedulerAssumption ==
    /\ Threads \cap Procs = {} /\ Device \notin Objects
    /\ List \notin Objects /\ None \notin Objects
    /\ IsFiniteSet(Procs) /\ MaxHandles \in Nat /\ MaxCreate \in Nat

VARIABLES
    threadList,   \* runnable threads
    queue,        \* queue[o]: o->waiters
    process,      \* process[t]: t->process
    threads,      \* threads[p]: p->threads
    handles,      \* handles[p]: objects in the handle table of p
    refs,         \* refs[o]: o->refcount, 0 once o is freed
    link,         \* link[t]: t->obj.entry.next as ll_remove left it
    pc,           \* where the kernel is: "outer", "inner", "dispatch", "run",
                  \* "idle", "halt", or "wild": it followed a freed pointer
    t,            \* the variable t of threadSchedule
    next_t,       \* the variable next_t of __threadRun
    created       \* bound: number of threads created so far

vars == <<threadList, queue, process, threads, handles, refs, link, pc, t, next_t, created>>

\* What a call changes besides the position of the run loop.
State == [list |-> threadList, queue |-> queue, process |-> process, threads |-> threads,
          handles |-> handles, refs |-> refs, link |-> link]

Become(s) ==
    /\ threadList' = s.list /\ queue' = s.queue
    /\ process' = s.process /\ threads' = s.threads
    /\ handles' = s.handles /\ refs' = s.refs /\ link' = s.link

Alive(u) == process[u] # None
Waiting(u) == \E o \in Objects \cup {Device} : u \in ToSet(queue[o])   \* u->blocked

\* u->obj.entry.next of a thread in the list
Successor(list, u) ==
    LET i == CHOOSE j \in 1 .. Len(list) : list[j] = u
    IN  IF i = Len(list) THEN List ELSE list[i + 1]

-----------------------------------------------------------------------------
(* Termination, on a state s *)

\* queueWakeup(&o->waiters, true, ...): __threadSignal appends to the list.
WakeAll(s, o) == [s EXCEPT !.list = @ \o s.queue[o], !.queue[o] = <<>>]

Release(s, o) == [s EXCEPT !.refs[o] = @ - 1]

\* handleTableFree; a table that is gone already is empty.
FreeTable(s, p) ==
    [s EXCEPT !.refs = [o \in Objects |-> @[o] - (IF o \in s.handles[p] THEN 1 ELSE 0)],
              !.handles[p] = {}]

MutUnlink(s, u) ==   \* a blocked thread stays in its wait queue
    [s EXCEPT !.list = Without(@, u),
              !.link[u] = IF u \in ToSet(s.list) THEN Successor(s.list, u) ELSE None]

\* ll_remove(&u->obj.entry), from the list or from a wait queue.
Unlink(s, u) ==
    [s EXCEPT !.list = Without(@, u),
              !.queue = [o \in DOMAIN @ |-> Without(@[o], u)],
              !.link[u] = IF u \in ToSet(s.list) THEN Successor(s.list, u) ELSE None]

MutThreadDown(s, u) ==   \* threads that wait for u are not woken
    LET p       == s.process[u]
        removed == [Unlink(s, u) EXCEPT !.process[u] = None,
                                        !.threads[p] = Without(@, u)]
        ended   == IF removed.threads[p] = <<>> THEN FreeTable(WakeAll(removed, p), p)
                   ELSE removed
    IN  IF p = None THEN s ELSE Release(Release(ended, u), p)

\* __threadShutdown.  The last thread of a process terminates the process
\* (__processShutdown without threads).
ThreadDown(s, u) ==
    LET p       == s.process[u]
        removed == [Unlink(s, u) EXCEPT !.process[u] = None,
                                        !.threads[p] = Without(@, u)]
        woken   == WakeAll(removed, u)
        ended   == IF woken.threads[p] = <<>> THEN FreeTable(WakeAll(woken, p), p) ELSE woken
    IN  IF p = None THEN s ELSE Release(Release(ended, u), p)

\* The threads us are shut down, one after the other.
AllDown(s, us) ==
    LET after[i \in 0 .. Len(us)] == IF i = 0 THEN s ELSE ThreadDown(after[i - 1], us[i])
    IN  after[Len(us)]

\* __processShutdown
ProcessDown(s, p) == FreeTable(AllDown(WakeAll(s, p), s.threads[p]), p)

\* __objectShutdown
Shutdown(s, o) == IF o \in Threads THEN ThreadDown(s, o) ELSE ProcessDown(s, o)

\* The threads of p other than u are shut down, as SYSCALL_EXECUTE_PROGRAM does.
OthersDown(s, p, u) == AllDown(s, Without(s.threads[p], u))

-----------------------------------------------------------------------------
(* System calls of the running thread t *)

Running == pc = "run"
Current == process[t]

\* The call returns to the thread.
Continue == UNCHANGED <<pc, t, next_t>>

\* INTERRUPT_YIELD: __threadRun returns next_t.
EndSlice == pc' = "dispatch" /\ t' = next_t /\ next_t' = List

MutWithHandle(s, p, o) ==   \* no reference is taken
    IF Cardinality(s.handles[p]) = MaxHandles THEN s
    ELSE [s EXCEPT !.handles[p] = @ \cup {o}]

\* handleAllocate for an object the process has no handle to yet.
WithHandle(s, p, o) ==
    IF Cardinality(s.handles[p]) = MaxHandles THEN s
    ELSE [s EXCEPT !.handles[p] = @ \cup {o}, !.refs[o] = @ + 1]

\* threadCreate: the thread owns one reference to itself and one to p, the
\* second reference of the caller is given up by every caller.
WithThread(s, p, u) ==
    [s EXCEPT !.list = Append(@, u), !.queue[u] = <<>>,
              !.process[u] = p, !.threads[p] = Append(@, u),
              !.refs[u] = 1, !.refs[p] = @ + 1]

\* SYSCALL_YIELD
Yield ==
    /\ Running
    /\ EndSlice
    /\ UNCHANGED <<threadList, queue, process, threads, handles, refs, link, created>>

\* SYSCALL_GET_CURRENT_PROCESS and SYSCALL_GET_CURRENT_THREAD
GetCurrent(o) ==
    /\ Running /\ o \in {Current, t} /\ o \notin handles[Current]
    /\ Become(WithHandle(State, Current, o))
    /\ Continue /\ UNCHANGED created

\* SYSCALL_CREATE_THREAD
CreateThread(u) ==
    /\ Running /\ refs[u] = 0 /\ created < MaxCreate
    /\ Become(WithHandle(WithThread(State, Current, u), Current, u))
    /\ created' = created + 1
    /\ Continue

\* SYSCALL_FORK: the table is copied, then the parent gets a handle.
Fork(q, u) ==
    LET child == [State EXCEPT
            !.handles[q] = handles[Current],
            !.refs = [o \in Objects |-> @[o] + (IF o \in handles[Current] THEN 1 ELSE 0)]]
    IN  /\ Running /\ refs[q] = 0 /\ refs[u] = 0 /\ created < MaxCreate
        /\ Become(WithHandle(WithThread(child, q, u), Current, q))
        /\ created' = created + 1
        /\ Continue

\* SYSCALL_EXECUTE_PROGRAM, once the program is loaded.
Execute ==
    /\ Running
    /\ Become(OthersDown(State, Current, t))
    /\ Continue /\ UNCHANGED created

\* SYSCALL_OBJECT_CLOSE
Close(o) ==
    /\ Running /\ o \in handles[Current]
    /\ Become(Release([State EXCEPT !.handles[Current] = @ \ {o}], o))
    /\ Continue /\ UNCHANGED created

\* SYSCALL_OBJECT_SHUTDOWN; a thread that ends itself does not continue.
ObjectShutdown(o) ==
    /\ Running /\ o \in handles[Current]
    /\ Become(Shutdown(State, o))
    /\ IF o \in {t, Current} THEN EndSlice ELSE Continue
    /\ UNCHANGED created

\* SYSCALL_OBJECT_WAIT for something that does not answer at once: threadWait
Block(o) ==
    /\ threadList' = Without(threadList, t)
    /\ queue' = [queue EXCEPT ![o] = <<t>> \o @]
    /\ EndSlice
    /\ UNCHANGED <<process, threads, handles, refs, link, created>>

\* __threadWait and __processWait return at once when o is terminated.
ObjectWait(o) ==
    /\ Running /\ o \in handles[Current]
    /\ IF o \in Threads THEN Alive(o) ELSE threads[o] # <<>>
    /\ Block(o)

DeviceWait == Running /\ Block(Device)

\* SYSCALL_OBJECT_SIGNAL with a thread handle: __threadSignal
ObjectSignal(u) ==
    /\ Running /\ u \in handles[Current] /\ Alive(u) /\ Waiting(u)
    /\ threadList' = Append(threadList, u)
    /\ queue' = [o \in DOMAIN queue |-> Without(queue[o], u)]
    /\ Continue /\ UNCHANGED <<process, threads, handles, refs, link, created>>

\* SYSCALL_EXIT_THREAD
ExitThread ==
    /\ Running
    /\ Become(ThreadDown(State, t))
    /\ EndSlice /\ UNCHANGED created

Freed(x) == x # List /\ refs[x] = 0

\* next_t moves on to a thread that does not belong to the process.
SkipOwn ==
    LET others == {i \in 1 .. Len(threadList) :
                    /\ process[threadList[i]] # Current
                    /\ \E j \in 1 .. i : threadList[j] = next_t}
    IN  IF next_t # List /\ process[next_t] # Current THEN next_t
        ELSE IF others = {} THEN List ELSE threadList[Min(others)]

\* SYSCALL_EXIT_PROCESS, or an exception
ExitProcess ==
    /\ Running
    /\ IF Freed(next_t) THEN pc' = "wild" /\ UNCHANGED <<t, next_t>>
       ELSE pc' = "dispatch" /\ t' = SkipOwn /\ next_t' = List
    /\ Become(ProcessDown(State, Current))
    /\ UNCHANGED created

-----------------------------------------------------------------------------
(* Interrupts and the run loop *)

MutTimerIrq ==   \* returns INTERRUPT_CONTINUE_EXECUTION
    /\ pc \in {"run", "idle"}
    /\ \/ UNCHANGED <<threadList, queue>>
       \/ /\ queue[Device] # <<>>
          /\ threadList' = Append(threadList, Head(queue[Device]))
          /\ queue' = [queue EXCEPT ![Device] = Tail(@)]
    /\ pc' = (IF pc = "run" THEN "run" ELSE "outer") /\ UNCHANGED <<t, next_t>>
    /\ UNCHANGED <<process, threads, handles, refs, link, created>>

\* timer_irq while a thread runs or the kernel idles: threads that wait for
\* Device may be due.  It returns INTERRUPT_YIELD.
TimerIrq ==
    /\ pc \in {"run", "idle"}
    /\ \/ UNCHANGED <<threadList, queue>>
       \/ /\ queue[Device] # <<>>
          /\ threadList' = Append(threadList, Head(queue[Device]))
          /\ queue' = [queue EXCEPT ![Device] = Tail(@)]
    /\ IF pc = "run" THEN EndSlice ELSE pc' = "outer" /\ UNCHANGED <<t, next_t>>
    /\ UNCHANGED <<process, threads, handles, refs, link, created>>

MutOuter ==   \* the list of processes is not looked at
    /\ pc = "outer"
    /\ pc' = "inner"
    /\ UNCHANGED <<threadList, queue, process, threads, handles, refs, link, t, next_t, created>>

\* The loops of threadSchedule.
Outer ==
    /\ pc = "outer"
    /\ pc' = IF \A p \in Procs : refs[p] = 0 THEN "halt" ELSE "inner"
    /\ UNCHANGED <<threadList, queue, process, threads, handles, refs, link, t, next_t, created>>

Inner ==
    /\ pc = "inner"
    /\ IF threadList = <<>> THEN pc' = "idle" /\ UNCHANGED t
       ELSE pc' = "dispatch" /\ t' = Head(threadList)
    /\ UNCHANGED <<threadList, queue, process, threads, handles, refs, link, next_t, created>>

\* The loop condition of the walk and the begin of __threadRun: a thread that
\* was terminated meanwhile is skipped.
Dispatch ==
    /\ pc = "dispatch"
    /\ IF t = List THEN pc' = "inner" /\ UNCHANGED <<t, next_t>>
       ELSE IF Freed(t) THEN pc' = "wild" /\ UNCHANGED <<t, next_t>>
       ELSE IF Alive(t) THEN pc' = "run" /\ next_t' = Successor(threadList, t) /\ UNCHANGED t
       ELSE t' = link[t] /\ UNCHANGED <<pc, next_t>>
    /\ UNCHANGED <<threadList, queue, process, threads, handles, refs, link, created>>

Init ==
    \E u \in Threads, p \in Procs :   \* loaded by kernel_main
        /\ threadList = <<u>>
        /\ queue = [o \in Objects \cup {Device} |-> <<>>]
        /\ process = [x \in Threads |-> IF x = u THEN p ELSE None]
        /\ threads = [q \in Procs |-> IF q = p THEN <<u>> ELSE <<>>]
        /\ handles = [q \in Procs |-> {}]
        /\ refs = [o \in Objects |-> IF o \in {u, p} THEN 1 ELSE 0]
        /\ link = [x \in Threads |-> None]
        /\ pc = "outer" /\ t = List /\ next_t = List
        /\ created = 0

Next ==
    \/ Yield
    \/ \E o \in Objects : GetCurrent(o) \/ Close(o) \/ ObjectShutdown(o) \/ ObjectWait(o)
    \/ \E u \in Threads : CreateThread(u) \/ ObjectSignal(u)
    \/ \E q \in Procs, u \in Threads : Fork(q, u)
    \/ Execute
    \/ DeviceWait
    \/ ExitThread
    \/ ExitProcess
    \/ TimerIrq
    \/ Outer \/ Inner \/ Dispatch

\* The kernel part of the loop runs to its end, and the timer interrupt keeps
\* coming: it is pending when interrupts are enabled for a thread or to idle.
Fairness == WF_vars(Outer \/ Inner \/ Dispatch) /\ SF_vars(TimerIrq)

Spec == Init /\ [][Next]_vars /\ Fairness

-----------------------------------------------------------------------------
(***************************************************************************)
(* Properties.                                                             *)
(***************************************************************************)

\* Every variable has the shape of the C structure it stands for.
TypeOK ==
    /\ threadList \in Seq(Threads)
    /\ queue \in [Objects \cup {Device} -> Seq(Threads)]
    /\ process \in [Threads -> Procs \cup {None}]
    /\ threads \in [Procs -> Seq(Threads)]
    /\ handles \in [Procs -> SUBSET Objects]
    /\ refs \in [Objects -> Nat]
    /\ link \in [Threads -> Threads \cup {List, None}]
    /\ pc \in {"outer", "inner", "dispatch", "run", "idle", "halt", "wild"}
    /\ {t, next_t} \subseteq Threads \cup {List}
    /\ created \in 0 .. MaxCreate

\* The places at which thread u is linked, in the list or in a wait queue.
Linked(u) ==
    ({List} \X {i \in 1 .. Len(threadList) : threadList[i] = u})
        \cup UNION {{o} \X {i \in 1 .. Len(queue[o]) : queue[o][i] = u} : o \in DOMAIN queue}

\* Whatever is created, woken, replaced or terminated: a thread that belongs
\* to a process is linked exactly once, in the list or in one wait queue, and
\* is among the threads of that process; a terminated thread is linked nowhere.
\* ll_remove relies on it.
ListsExact ==
    /\ \A u \in Threads : Cardinality(Linked(u)) = IF Alive(u) THEN 1 ELSE 0
    /\ \A u \in Threads, p \in Procs :
        Cardinality({i \in 1 .. Len(threads[p]) : threads[p][i] = u})
            = IF process[u] = p THEN 1 ELSE 0

\* The references to object o that exist: handles, the one each running
\* thread has to itself, and the one it has to its process.
References(o) ==
    Cardinality({p \in Procs : o \in handles[p]})
        + (IF o \in Threads THEN IF Alive(o) THEN 1 ELSE 0 ELSE Len(threads[o]))

\* Threads and processes are freed exactly when nothing refers to them any
\* more, through every order of exits, shutdowns and closed handles.
RefsExact == \A o \in Objects : refs[o] = References(o)

\* Nobody waits for an object that is terminated, and a terminated process
\* holds nothing: the assertions of __threadDestroy (thread.c:189,192) and
\* __processDestroy (process.c:132,135), for every thread and process that
\* could be destroyed now.
TerminatedSettled ==
    /\ \A u \in Threads : ~Alive(u) => queue[u] = <<>>
    /\ \A p \in Procs : threads[p] = <<>> => queue[p] = <<>> /\ handles[p] = {}

\* A thread that is given the processor can run: the assertion of __threadRun
\* (thread.c:326), also when the pointer was read a time slice ago.
RunsRunnable == pc = "run" => Alive(t) /\ t \in ToSet(threadList)

\* Every runnable thread runs or is terminated, though each pass takes in the
\* threads that are created or woken while it lasts: a preempted thread stays
\* behind the pointer, so the timer interrupt ends every pass.
RunnableRuns ==
    \A u \in Threads : u \in ToSet(threadList) ~>
        (pc = "run" /\ t = u) \/ u \notin ToSet(threadList) \/ pc = "wild"

\* When the last process is gone, threadSchedule returns.
HaltsAtEnd == (\A p \in Procs : refs[p] = 0) ~> pc \in {"halt", "wild"}

\* thread.c:366: "we automatically get a pointer to the next thread which
\* should be executed": what the run loop follows is a thread.
NextThreadExists == pc = "dispatch" => ~Freed(t)

\* The list of threads, the wait queues and the processes agree.
ListsSound == TypeOK /\ ListsExact

\* The assertions of thread.c and process.c hold in every state in which their
\* functions may be called.
AssertionsHold == TerminatedSettled /\ RunsRunnable
=============================================================================
