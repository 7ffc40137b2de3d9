---------------------------- MODULE WaitObjects ----------------------------
(***************************************************************************)
(* Semaphores and events (process/semaphore.c, process/event.c), the wait  *)
(* queues they keep, and the threads and sub-events that are linked into   *)
(* these queues (threadWait and __threadSignal of process/thread.c,        *)
(* queueWakeup of include/process/object.h).                               *)
(*                                                                         *)
(* An event collects other objects: for each attached object it owns a     *)
(* sub-event, which __eventWait links into the wait queue of that object   *)
(* in place of a thread.  Attached objects are semaphores and events, and  *)
(* the identifier of an attachment is the object.  All threads belong to   *)
(* one process, which has at most one handle to each object.  System calls *)
(* run with interrupts disabled, so each of them is one step.  The status  *)
(* word an event keeps for __eventGetStatus, which nothing else reads, is  *)
(* left out.                                                               *)
(***************************************************************************)
EXTENDS FiniteSets, LinkedLists

CONSTANTS
    Threads,
    Sems,        \* semaphores
    Events,      \* events
    Subs,        \* memory for sub-events
    WakeupAll,   \* WakeupAll[e]: the flag e is created with
    MaxValue,    \* bound: counter of a semaphore
    None         \* NULL, or no sub-event is stored in this memory

Objects == Sems \cup Events

ASSUME WaitObjectsAssumption ==
    /\ Threads \cap Subs = {} /\ None \notin Threads \cup Subs \cup Objects
    /\ Sems \cap Events = {}
    /\ IsFiniteSet(Threads) /\ IsFiniteSet(Subs)
    /\ None \notin [event: Events, wait: Objects, blocked: BOOLEAN]
    /\ WakeupAll \in [Events -> BOOLEAN]
    /\ MaxValue \in Nat

VARIABLES
    alive,    \* threads with t->process set
    blocked,  \* blocked[t]: t->blocked
    result,   \* result[t]: t->task.eax after the last call of t
    open,     \* objects the process has a handle to
    value,    \* value[s]: counter of a semaphore
    queue,    \* queue[o]: o->waiters, threads and sub-events
    subList,  \* subList[e]: e->subEvents
    sub,      \* sub[x]: struct subEvent
    failed    \* "endless": a call calls itself without end; "left": a walk
              \* through a queue goes on at an entry that is not in it any more

vars == <<alive, blocked, result, open, value, queue, subList, sub, failed>>

Used(x) == sub[x] # None
SubsOf(e) == {x \in Subs : Used(x) /\ sub[x].event = e}
SubsOn(o) == {x \in Subs : Used(x) /\ sub[x].wait = o}

\* The refcount is not zero: a handle or a sub-event refers to the object.
Exists(o) == o \in open \/ SubsOn(o) # {}

\* Thread t can make a system call.
CanCall(t) == t \in alive /\ ~blocked[t] /\ failed = "none"

\* What the calls below change step by step.
State == [blocked |-> blocked, result |-> result, value |-> value, queue |-> queue,
          sub |-> sub, failed |-> failed]
Become(m) ==
    /\ blocked' = m.blocked /\ result' = m.result /\ value' = m.value
    /\ queue' = m.queue /\ sub' = m.sub /\ failed' = m.failed

\* n steps of a loop whose body is Step.
Iterate(Step(_), s, n) ==
    LET after[i \in 0 .. n] == IF i = 0 THEN s ELSE Step(after[i - 1])
    IN  after[n]

-----------------------------------------------------------------------------
(* Wakeups *)

\* A call of queueWakeup that is under way: `next' is the entry its loop signals
\* next, read before the one in front of it was signalled.
HeadOf(q) == IF q = <<>> THEN None ELSE Head(q)
Walk(m, o, all, code) == [of |-> o, next |-> HeadOf(m.queue[o]), all |-> all, code |-> code]

\* The entry behind x in q.
Behind(q, x) ==
    LET i == CHOOSE j \in 1 .. Len(q) : q[j] = x
    IN  IF i = Len(q) THEN None ELSE q[i + 1]

\* __threadSignal
SignalThread(m, o, u, code) ==
    [m EXCEPT !.blocked[u] = FALSE, !.result[u] = code, !.queue[o] = Without(m.queue[o], u)]

\* The first half of __subEventSignal
SignalSub(m, o, x) ==
    [m EXCEPT !.sub[x].blocked = FALSE, !.queue[o] = Without(m.queue[o], x)]

MutWakeSub(m, x) == Walk(m, m.sub[x].event, FALSE, m.sub[x].wait)   \* wakes only one
MutWakeWait(m, x) ==   \* the queue of the attached object
    Walk(m, m.sub[x].wait, WakeupAll[m.sub[x].event], m.sub[x].wait)

\* The second half: queueWakeup for the event of x.
WakeSub(m, x) ==
    LET e == m.sub[x].event IN Walk(m, e, WakeupAll[e], m.sub[x].wait)

\* One step of the innermost queueWakeup.  Signalling a sub-event calls
\* queueWakeup again, in whatever queue the waiters of its event are.
WakeStep(s) ==
    LET m    == s.mem
        w    == Last(s.walks)
        rest == Front(s.walks)
        on   == [w EXCEPT !.next = IF w.all THEN Behind(m.queue[w.of], w.next) ELSE None]
    IN  CASE s.walks = <<>> -> s
          [] s.walks # <<>> /\ w.next = None -> [s EXCEPT !.walks = rest]
          [] s.walks # <<>> /\ w.next # None /\ w.next \notin ToSet(m.queue[w.of]) ->
                [mem |-> [m EXCEPT !.failed = "left"], walks |-> <<>>]
          [] s.walks # <<>> /\ w.next \in ToSet(m.queue[w.of]) /\ w.next \in Threads ->
                [mem |-> SignalThread(m, w.of, w.next, w.code), walks |-> Append(rest, on)]
          [] s.walks # <<>> /\ w.next \in ToSet(m.queue[w.of]) /\ w.next \in Subs ->
                LET n == SignalSub(m, w.of, w.next)
                IN  [mem |-> n, walks |-> Append(Append(rest, on), WakeSub(n, w.next))]

\* queueWakeup.  Every entry is signalled once at most, and every walk ends.
Wakeup(m, o, all, code) ==
    Iterate(WakeStep, [mem |-> m, walks |-> <<Walk(m, o, all, code)>>],
            Cardinality(Threads) + 2 * Cardinality(Subs) + 1).mem

\* The caller's result.
Returns(m, t, code) == [m EXCEPT !.result[t] = code]

-----------------------------------------------------------------------------
(* References *)

\* The objects that lose their last reference when H are the handles, and the
\* sub-events in X and those of the events in D are gone.
Losing(H, X, D) ==
    {o \in Objects : /\ Exists(o) /\ o \notin H
                     /\ \A x \in SubsOn(o) : x \in X \/ sub[x].event \in D}

\* The objects that are destroyed then: each for a reference that was the last
\* one, so they are the least set that Losing does not enlarge.
Unreferenced(H, X) ==
    LET may == Losing(H, X, Objects)
    IN  {o \in may : \A D \in SUBSET may : Losing(H, X, D) \subseteq D => o \in D}

\* The handles become H and the sub-events in X are freed.  What nothing refers
\* to any more is destroyed (__semaphoreDestroy, __eventDestroy): threads that
\* wait for it return -1, and an event frees its sub-events.
Release(H, X, t, code) ==
    LET D     == Unreferenced(H, X)
        gone  == X \cup UNION {SubsOf(e) : e \in D \cap Events}
        woken == UNION {ToSet(queue[o]) \cap Threads : o \in D}
    IN  /\ open' = H
        /\ sub' = [x \in Subs |-> IF x \in gone THEN None ELSE sub[x]]
        /\ subList' = [e \in Events |-> WithoutAll(subList[e], gone)]
        /\ queue' = [o \in Objects |-> IF o \in D THEN <<>> ELSE WithoutAll(queue[o], gone)]
        /\ value' = [s \in Sems |-> IF s \in D THEN 0 ELSE value[s]]
        /\ blocked' = [u \in Threads |-> blocked[u] /\ u \notin woken]
        /\ result' = [u \in Threads |-> IF u \in woken THEN -1
                                        ELSE IF u = t THEN code ELSE result[u]]
        /\ UNCHANGED <<alive, failed>>

-----------------------------------------------------------------------------
(* System calls on objects *)

\* semaphoreCreate
SemaphoreCreate(t, s, v) ==
    /\ CanCall(t) /\ ~Exists(s)
    /\ open' = open \cup {s}
    /\ value' = [value EXCEPT ![s] = v]
    /\ UNCHANGED <<alive, blocked, result, queue, subList, sub, failed>>

\* eventCreate
EventCreate(t, e) ==
    /\ CanCall(t) /\ ~Exists(e)
    /\ open' = open \cup {e}
    /\ UNCHANGED <<alive, blocked, result, value, queue, subList, sub, failed>>

\* SYSCALL_OBJECT_CLOSE
Close(t, o) == CanCall(t) /\ o \in open /\ Release(open \ {o}, {}, t, 1)

\* __semaphoreShutdown, __eventShutdown
Shutdown(t, o) ==
    /\ CanCall(t) /\ o \in open
    /\ Become(Returns(Wakeup(State, o, TRUE, -1), t, 1))
    /\ UNCHANGED <<alive, open, subList>>

\* __semaphoreSignal
SemaphoreSignal(t, s) ==
    /\ CanCall(t) /\ s \in open
    /\ queue[s] = <<>> => value[s] < MaxValue
    /\ Become(Returns(IF queue[s] = <<>> THEN [State EXCEPT !.value[s] = value[s] + 1]
                      ELSE Wakeup(State, s, FALSE, 0), t, 1))
    /\ UNCHANGED <<alive, open, subList>>

\* __eventSignal
EventSignal(t, e, code) ==
    /\ CanCall(t) /\ e \in open
    /\ Become(Returns(Wakeup(State, e, WakeupAll[e], code), t, 1))
    /\ UNCHANGED <<alive, open, subList>>

\* __eventAttachObj
EventAttach(t, e, o, x) ==
    /\ CanCall(t) /\ {e, o} \subseteq open /\ ~Used(x)
    /\ sub' = [sub EXCEPT ![x] = [event |-> e, wait |-> o, blocked |-> FALSE]]
    /\ subList' = [subList EXCEPT ![e] = Append(@, x)]
    /\ result' = [result EXCEPT ![t] = 1]
    /\ UNCHANGED <<alive, blocked, open, value, queue, failed>>

\* __eventDetachObj of the identifier o
EventDetach(t, e, o) ==
    LET X == SubsOf(e) \cap SubsOn(o)
    IN  CanCall(t) /\ e \in open /\ Release(open, X, t, IF X = {} THEN 0 ELSE 1)

-----------------------------------------------------------------------------
(* Waiting *)

\* A call of __eventWait that is under way: its loop is at entry `at'.
Call(e) == [event |-> e, at |-> 1]
Entry(l) == subList[l.event][l.at]
Forward(loops) ==
    LET l == Last(loops) IN Append(Front(loops), [l EXCEPT !.at = l.at + 1])

\* sub->blocked = true, and ll_add_after(queue, &sub->obj.entry)
Link(m, x) ==
    LET o == m.sub[x].wait
    IN  [m EXCEPT !.sub[x].blocked = TRUE, !.queue[o] = <<x>> \o m.queue[o]]

\* One step of the innermost __eventWait.  `taken' is the identifier with which
\* the outermost one returns at once, because a semaphore could be taken.
WaitStep(s) ==
    LET m    == s.mem
        l    == Last(s.loops)
        ends == l.at > Len(subList[l.event])
        x    == Entry(l)
        o    == m.sub[x].wait
        next == [s EXCEPT !.loops = Forward(s.loops)]
    IN  CASE s.loops = <<>> -> s
          [] s.loops # <<>> /\ ends ->   \* returns its queue
                IF Len(s.loops) = 1 THEN [s EXCEPT !.loops = <<>>]
                ELSE [s EXCEPT !.mem = Link(m, Entry(Last(Front(s.loops)))),
                               !.loops = Forward(Front(s.loops))]
          [] s.loops # <<>> /\ ~ends /\ m.sub[x].blocked -> next
          [] s.loops # <<>> /\ ~ends /\ ~m.sub[x].blocked /\ o \in Sems ->
                IF m.value[o] = 0 THEN [next EXCEPT !.mem = Link(m, x)]
                ELSE [s EXCEPT !.mem.value[o] = m.value[o] - 1, !.loops = <<>>,
                               !.taken = m.sub[Entry(s.loops[1])].wait]
          [] s.loops # <<>> /\ ~ends /\ ~m.sub[x].blocked /\ o \in Events ->
                IF \E i \in DOMAIN s.loops : s.loops[i].event = o
                THEN [s EXCEPT !.mem.failed = "endless", !.loops = <<>>]
                ELSE [s EXCEPT !.loops = Append(s.loops, Call(o))]

\* __eventWait.  An event that is waited for inside of its own wait meets the
\* same sub-event again, which is not blocked yet.  Between two sub-events that
\* are linked the calls look at every sub-event once at most.
Waited(e) ==
    Iterate(WaitStep, [mem |-> State, loops |-> <<Call(e)>>, taken |-> None],
            (Cardinality(Subs) + 1) * (Cardinality(Subs) + 1))

\* threadWait: t is linked into the queue of o.
Block(m, t, o) ==
    [m EXCEPT !.blocked[t] = TRUE, !.result[t] = 0, !.queue[o] = <<t>> \o m.queue[o]]

\* SYSCALL_OBJECT_WAIT of a semaphore: __semaphoreWait
SemaphoreWait(t, s) ==
    /\ CanCall(t) /\ s \in open
    /\ Become(IF value[s] = 0 THEN Block(State, t, s)
              ELSE Returns([State EXCEPT !.value[s] = value[s] - 1], t, value[s] - 1))
    /\ UNCHANGED <<alive, open, subList>>

\* SYSCALL_OBJECT_WAIT of an event
EventWait(t, e) ==
    LET w == Waited(e)
    IN  /\ CanCall(t) /\ e \in open
        /\ Become(IF w.mem.failed # "none" THEN w.mem
                  ELSE IF w.taken # None THEN Returns(w.mem, t, w.taken)
                  ELSE Block(w.mem, t, e))
        /\ UNCHANGED <<alive, open, subList>>

-----------------------------------------------------------------------------
(* Threads *)

MutUnlink(u) ==   \* only the queues of events are cleaned up
    queue' = [o \in Objects |-> IF o \in Events THEN Without(queue[o], u) ELSE queue[o]]

\* Unlink thread u from the list it is in.
Unlink(u) == queue' = [o \in Objects |-> Without(queue[o], u)]

\* SYSCALL_OBJECT_SIGNAL with a thread handle: __threadSignal, whatever the
\* thread waits for.
ThreadSignal(t, u, code) ==
    /\ CanCall(t) /\ u \in alive /\ blocked[u]
    /\ Unlink(u)
    /\ blocked' = [blocked EXCEPT ![u] = FALSE]
    /\ result' = [result EXCEPT ![u] = code, ![t] = 1]
    /\ UNCHANGED <<alive, open, value, subList, sub, failed>>

\* __threadShutdown, by the thread itself or by another one.  The flag
\* t->blocked is left as it is.
ThreadShutdown(t, u) ==
    /\ CanCall(t) /\ u \in alive /\ alive # {u}
    /\ alive' = alive \ {u}
    /\ Unlink(u)
    /\ UNCHANGED <<blocked, result, open, value, subList, sub, failed>>

\* threadCreate
ThreadCreate(t, u) ==
    /\ CanCall(t) /\ u \notin alive
    /\ alive' = alive \cup {u}
    /\ blocked' = [blocked EXCEPT ![u] = FALSE]
    /\ result' = [result EXCEPT ![u] = 0]
    /\ UNCHANGED <<open, value, queue, subList, sub, failed>>

Init ==
    /\ \E t \in Threads : alive = {t}
    /\ blocked = [t \in Threads |-> FALSE]
    /\ result = [t \in Threads |-> 0]
    /\ open = {}
    /\ value = [s \in Sems |-> 0]
    /\ queue = [o \in Objects |-> <<>>]
    /\ subList = [e \in Events |-> <<>>]
    /\ sub = [x \in Subs |-> None]
    /\ failed = "none"

Next ==
    \E t \in Threads :
        \/ \E s \in Sems :
            \/ \E v \in 0 .. MaxValue : SemaphoreCreate(t, s, v)
            \/ SemaphoreWait(t, s)
            \/ SemaphoreSignal(t, s)
        \/ \E e \in Events :
            \/ EventCreate(t, e)
            \/ EventSignal(t, e, 0)
            \/ EventWait(t, e)
            \/ \E o \in Objects : EventDetach(t, e, o) \/ \E x \in Subs : EventAttach(t, e, o, x)
        \/ \E o \in Objects : Close(t, o) \/ Shutdown(t, o)
        \/ \E u \in Threads : ThreadSignal(t, u, 0) \/ ThreadShutdown(t, u) \/ ThreadCreate(t, u)

Spec == Init /\ [][Next]_vars

-----------------------------------------------------------------------------
(***************************************************************************)
(* Properties.                                                             *)
(***************************************************************************)

SubEvent == [event: Events, wait: Objects, blocked: BOOLEAN]

\* Every variable has the shape of the C structure it stands for; no counter
\* is decremented below zero.
TypeOK ==
    /\ alive \subseteq Threads
    /\ blocked \in [Threads -> BOOLEAN]
    /\ result \in [Threads -> Objects \cup {-1, 1} \cup 0 .. MaxValue]
    /\ open \subseteq Objects
    /\ value \in [Sems -> 0 .. MaxValue]
    /\ queue \in [Objects -> Seq(Threads \cup Subs)]
    /\ subList \in [Events -> Seq(Subs)]
    /\ sub \in [Subs -> SubEvent \cup {None}]
    /\ failed \in {"none", "endless", "left"}

\* The places in sequence q at which x is linked.
Places(q, x) == {i \in 1 .. Len(q) : q[i] = x}

\* The wait queues a thread is linked into, with the place.
ThreadPlaces(t) == UNION {{o} \X Places(queue[o], t) : o \in Objects}

\* The flag `blocked' tells the truth: a blocked thread is linked into exactly
\* one wait queue, once; a blocked sub-event into the queue of its object; and
\* nothing else is in any queue.  All list operations of thread.c, event.c and
\* object.h rely on it: ll_remove follows the links without a check.
QueuesExact ==
    /\ \A t \in Threads :
        Cardinality(ThreadPlaces(t)) = IF t \in alive /\ blocked[t] THEN 1 ELSE 0
    /\ \A x \in Subs : \A o \in Objects :
        Cardinality(Places(queue[o], x)) =
            IF Used(x) /\ sub[x].wait = o /\ sub[x].blocked THEN 1 ELSE 0
    /\ \A e \in Events : \A x \in Subs :
        Cardinality(Places(subList[e], x)) = IF Used(x) /\ sub[x].event = e THEN 1 ELSE 0
    /\ \A o \in Objects : ~Exists(o) => queue[o] = <<>>
    /\ \A e \in Events : ~Exists(e) => subList[e] = <<>>

\* The wait queues are what the flags of threads and sub-events say.
QueuesSound == TypeOK /\ QueuesExact

\* Nobody waits for a semaphore that could be taken: the assertion in
\* __semaphoreSignal (semaphore.c:175) never fails.
NoWaitersWithTokens == \A s \in Sems : queue[s] # <<>> => value[s] = 0

\* While threads wait for an event that wakes all of them, the sub-events that are
\* linked come first in its list, and those that are not were attached after them:
\* __eventWait linked all it found, and a signal that unlinks one has ended the
\* wait of all threads.  Of an event that wakes one thread at a time nothing is
\* said: its second waiter stays when a signal has unlinked the sub-event.  Where
\* the model stops in the middle of a call this need not hold.
ArmedWhileWaiting ==
    failed = "none" => \A e \in Events : WakeupAll[e] /\ queue[e] # <<>> =>
        \A i, j \in 1 .. Len(subList[e]) :
            i < j /\ sub[subList[e][j]].blocked => sub[subList[e][i]].blocked

\* Nobody waits for a semaphore that could be taken, and a wait for an event that
\* wakes all its threads keeps the sub-events linked that it was started with.
WaitsArmed == NoWaitersWithTokens /\ ArmedWhileWaiting

\* event.c:36-41: "wait will return as soon as one of the objects is signalled":
\* nobody waits for an event one of whose semaphores could be taken.
WaitEndsWhenReady ==
    \A e \in Events : queue[e] # <<>> =>
        \A x \in SubsOf(e) : sub[x].wait \in Sems => value[sub[x].wait] = 0

\* Some of the events are attached to each other in a circle.
Circular ==
    \E E \in (SUBSET Events) \ {{}} : \A e \in E : \E x \in SubsOf(e) : sub[x].wait \in E

\* As long as no events are attached in a circle, however deep they are nested
\* and whatever stale sub-events are linked, a wait returns and a wakeup that
\* signals its way through other queues comes back to its own.
NestingSafe == failed # "none" => Circular

\* semaphore.c:160-163: "If there are no threads waiting for the semaphore this
\* function will increment the semaphore counter by one. Otherwise one of the
\* waiting threads will wake up": the entry that the next signal takes out of
\* a queue is a thread, or stands for one.
SignalDelivered ==
    \A s \in Sems : queue[s] # <<>> =>
        LET x == Head(queue[s])
        IN  x \in Threads \/ queue[sub[x].event] # <<>>

\* A wait for an event returns or blocks, and a wakeup ends, whatever is attached.
CallsEnd == failed = "none"
=============================================================================
