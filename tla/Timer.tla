------------------------------- MODULE Timer -------------------------------
(***************************************************************************)
(* Kernel timers (process/timer.c): one-shot and repeating timers in a     *)
(* global list sorted by timeout, the threads that wait for them, and the  *)
(* handler of the timer interrupt.                                         *)
(*                                                                         *)
(* System calls are one step each.  The interrupt handler runs with        *)
(* interrupts disabled as well, but it is a loop that ends only when the   *)
(* head of the list lies in the future: it is one step per iteration, and  *)
(* no other step happens while inIrq is set.                               *)
(***************************************************************************)
EXTENDS Integers, Sequences, FiniteSets, SequencesExt, LinkedLists

CONSTANTS
    Threads,
    Timers,
    WakeupAll,   \* WakeupAll[x]: the flag timer x is created with
    DELTA,       \* TIMER_INTERRUPT_DELTA, the time between two interrupts
    Timeouts,    \* values of timerInfo.timeout threads write
    Intervals,   \* values of timerInfo.interval threads write
    Word,        \* 2^32: eventCount and its product with interval are uint32_t
    MaxTime      \* bound: time at which the model stops the clock

ASSUME TimerAssumption ==
    /\ WakeupAll \in [Timers -> BOOLEAN]
    /\ DELTA \in Nat \ {0} /\ Word \in Nat \ {0} /\ MaxTime \in Nat
    /\ Timeouts \subseteq Nat /\ Intervals \subseteq Nat
    /\ \A i \in Intervals : i < Word

VARIABLES
    now,        \* currentKernelTimestamp
    inIrq,      \* timer_irq is in its loop
    open,       \* timers the process has a handle to
    active,     \* active[x]: x->active
    timeout,    \* timeout[x]: x->timeout
    interval,   \* interval[x]: x->interval
    timerList,  \* the active timers, as linked
    waiters,    \* waiters[x]: threads linked into x->waiters
    blocked,    \* blocked[t]: t->blocked
    phase       \* history: the first expiry a program asked for

vars == <<now, inIrq, open, active, timeout, interval, timerList, waiters, blocked, phase>>

CanCall(t) == ~blocked[t] /\ ~inIrq

\* Where __timerActivate links a timer that expires at `when': before the
\* first one that expires later.
InsertBefore(list, when) ==
    LET later == {i \in 1 .. Len(list) : timeout[list[i]] > when}
    IN  IF later = {} THEN Len(list) + 1 ELSE Min(later)

MutRescheduled(x, when) ==   \* an active timer keeps its place in the list
    IF active[x] THEN timerList ELSE InsertAt(timerList, InsertBefore(timerList, when), x)

\* __timerActivate of an inactive timer / __timerUpdate: unlink and link again.
Linked(list, x, when) == InsertAt(list, InsertBefore(list, when), x)
Rescheduled(x, when) == Linked(Without(timerList, x), x, when)

MutEventCount(x) == ((now - timeout[x]) \div interval[x]) % Word   \* one too few

\* The number of times a repeating timer has expired, as uint32_t.
EventCount(x) == ((now - timeout[x]) \div interval[x] + 1) % Word

MutNextTimeoutNow(x) == now + interval[x]   \* the period starts over

\* timeout += eventCount * interval, the product as uint32_t.
NextTimeout(x) == timeout[x] + ((EventCount(x) * interval[x]) % Word)

WakeCount(q, all) == IF all \/ q = <<>> THEN Len(q) ELSE 1

\* queueWakeup(&x->waiters, all, ...)
Wake(x, all) ==
    LET n == WakeCount(waiters[x], all)
    IN  /\ waiters' = [waiters EXCEPT ![x] = SubSeq(@, n + 1, Len(@))]
        /\ blocked' = [t \in Threads |->
               blocked[t] /\ \A i \in 1 .. n : waiters[x][i] # t]

-----------------------------------------------------------------------------
(* System calls *)

\* timerCreate
TimerCreate(t, x) ==
    /\ CanCall(t) /\ x \notin open
    /\ open' = open \cup {x}
    /\ active' = [active EXCEPT ![x] = FALSE]
    /\ timeout' = [timeout EXCEPT ![x] = 0]
    /\ interval' = [interval EXCEPT ![x] = 0]
    /\ phase' = [phase EXCEPT ![x] = 0]
    /\ UNCHANGED <<now, inIrq, timerList, waiters, blocked>>

\* __timerShutdown: deactivate and let all waiting threads return.
TimerShutdown(t, x) ==
    /\ CanCall(t) /\ x \in open
    /\ active' = [active EXCEPT ![x] = FALSE]
    /\ timerList' = Without(timerList, x)
    /\ Wake(x, TRUE)
    /\ UNCHANGED <<now, inIrq, open, timeout, interval, phase>>

\* SYSCALL_OBJECT_CLOSE of the last handle: __timerDestroy
TimerClose(t, x) ==
    /\ CanCall(t) /\ x \in open
    /\ open' = open \ {x}
    /\ active' = [active EXCEPT ![x] = FALSE]
    /\ timerList' = Without(timerList, x)
    /\ timeout' = [timeout EXCEPT ![x] = 0]
    /\ interval' = [interval EXCEPT ![x] = 0]
    /\ phase' = [phase EXCEPT ![x] = 0]
    /\ Wake(x, TRUE)
    /\ UNCHANGED <<now, inIrq>>

\* __timerSignal
TimerSignal(t, x) ==
    /\ CanCall(t) /\ x \in open
    /\ Wake(x, WakeupAll[x])
    /\ UNCHANGED <<now, inIrq, open, active, timeout, interval, timerList, phase>>

\* __timerWrite
TimerWrite(t, x, first, period) ==
    /\ CanCall(t) /\ x \in open
    /\ timeout' = [timeout EXCEPT ![x] = now + first]
    /\ interval' = [interval EXCEPT ![x] = period]
    /\ timerList' = Rescheduled(x, now + first)
    /\ active' = [active EXCEPT ![x] = TRUE]
    /\ phase' = [phase EXCEPT ![x] = now + first]
    /\ UNCHANGED <<now, inIrq, open, waiters, blocked>>

\* __timerWait of a timer that expires later: it is (re)activated and the
\* thread is queued by threadWait.
TimerWaitBlocks(t, x) ==
    /\ CanCall(t) /\ x \in open
    /\ timeout[x] > now
    /\ timerList' = IF active[x] THEN timerList ELSE Linked(timerList, x, timeout[x])
    /\ active' = [active EXCEPT ![x] = TRUE]
    /\ waiters' = [waiters EXCEPT ![x] = <<t>> \o @]
    /\ blocked' = [blocked EXCEPT ![t] = TRUE]
    /\ UNCHANGED <<now, inIrq, open, timeout, interval, phase>>

\* A repeating timer moves on to its next expiry and is activated, a one-shot
\* timer is deactivated.
Expire(x) ==
    IF interval[x] > 0
    THEN /\ timeout' = [timeout EXCEPT ![x] = NextTimeout(x)]
         /\ timerList' = Rescheduled(x, NextTimeout(x))
         /\ active' = [active EXCEPT ![x] = TRUE]
    ELSE /\ timerList' = Without(timerList, x)
         /\ active' = [active EXCEPT ![x] = FALSE]
         /\ UNCHANGED timeout

\* __timerWait of a timer that has expired returns at once.
TimerWaitReturns(t, x) ==
    /\ CanCall(t) /\ x \in open
    /\ timeout[x] <= now
    /\ Expire(x)
    /\ UNCHANGED <<now, inIrq, open, interval, waiters, blocked, phase>>

\* __threadShutdown of thread t; a new thread takes over its name.
ThreadExit(t) ==
    /\ ~inIrq
    /\ waiters' = [x \in Timers |-> Without(waiters[x], t)]
    /\ blocked' = [blocked EXCEPT ![t] = FALSE]
    /\ UNCHANGED <<now, inIrq, open, active, timeout, interval, timerList, phase>>

-----------------------------------------------------------------------------
(* timer_irq *)

IrqBegin ==
    /\ ~inIrq /\ now + DELTA <= MaxTime
    /\ inIrq' = TRUE
    /\ now' = now + DELTA
    /\ UNCHANGED <<open, active, timeout, interval, timerList, waiters, blocked, phase>>

HeadExpired == timerList # <<>> /\ timeout[Head(timerList)] <= now

\* One iteration of the loop.
IrqExpire ==
    /\ inIrq /\ HeadExpired
    /\ Expire(Head(timerList))
    /\ Wake(Head(timerList), WakeupAll[Head(timerList)])
    /\ UNCHANGED <<now, inIrq, open, interval, phase>>

IrqEnd ==
    /\ inIrq /\ ~HeadExpired
    /\ inIrq' = FALSE
    /\ UNCHANGED <<now, open, active, timeout, interval, timerList, waiters, blocked, phase>>

Init ==
    /\ now = 0 /\ inIrq = FALSE /\ open = {}
    /\ active = [x \in Timers |-> FALSE]
    /\ timeout = [x \in Timers |-> 0]
    /\ interval = [x \in Timers |-> 0]
    /\ timerList = <<>>
    /\ waiters = [x \in Timers |-> <<>>]
    /\ blocked = [t \in Threads |-> FALSE]
    /\ phase = [x \in Timers |-> 0]

Next ==
    \/ \E t \in Threads, x \in Timers :
        \/ TimerCreate(t, x)
        \/ TimerShutdown(t, x)
        \/ TimerClose(t, x)
        \/ TimerSignal(t, x)
        \/ \E first \in Timeouts, period \in Intervals : TimerWrite(t, x, first, period)
        \/ TimerWaitBlocks(t, x)
        \/ TimerWaitReturns(t, x)
    \/ \E t \in Threads : ThreadExit(t)
    \/ IrqBegin
    \/ IrqExpire
    \/ IrqEnd

\* Once entered, the handler runs until it returns.
Spec == Init /\ [][Next]_vars /\ WF_vars(IrqExpire \/ IrqEnd)

-----------------------------------------------------------------------------
(***************************************************************************)
(* Properties.                                                             *)
(***************************************************************************)

\* Every variable has the shape of the C field it stands for.
TypeOK ==
    /\ now \in 0 .. MaxTime /\ inIrq \in BOOLEAN
    /\ open \subseteq Timers
    /\ active \in [Timers -> BOOLEAN]
    /\ timeout \in [Timers -> Nat]
    /\ interval \in [Timers -> Intervals \cup {0}]
    /\ timerList \in Seq(Timers)
    /\ waiters \in [Timers -> Seq(Threads)]
    /\ blocked \in [Threads -> BOOLEAN]

\* The global list holds each active timer once, in the order of their
\* timeouts, whatever is rewritten, restarted or closed in between: the loop of
\* timer_irq stops at the first timer that has not expired.
ListSorted ==
    /\ ToSet(timerList) = {x \in Timers : active[x]}
    /\ \A i, j \in 1 .. Len(timerList) : i < j =>
        timerList[i] # timerList[j] /\ timeout[timerList[i]] <= timeout[timerList[j]]
    /\ \A x \in Timers : active[x] => x \in open

\* When the handler returns, no active timer is overdue.
NoneOverdue == [][inIrq /\ ~inIrq' => \A x \in Timers : active[x] => timeout[x] > now]_vars

\* A thread is blocked exactly when one timer has it in its queue.
QueuesExact ==
    \A t \in Threads :
        Cardinality(UNION {{x} \X {i \in 1 .. Len(waiters[x]) : waiters[x][i] = t}
                           : x \in Timers}) = IF blocked[t] THEN 1 ELSE 0

\* Threads never wait for a repeating timer that is stopped.
RepeatingArmed ==
    \A x \in Timers : interval[x] > 0 /\ waiters[x] # <<>> => active[x]

\* A repeating timer does not drift: late interrupts and waits that catch up
\* on several periods leave its expiries on the grid it was started on.
NoDrift ==
    \A x \in Timers : interval[x] > 0 => (timeout[x] - phase[x]) % interval[x] = 0

\* The loop of timer_irq ends.
IrqReturns == inIrq ~> ~inIrq

\* timer.c:187: __timerWait "will wait until the timer is triggered": the timer
\* a thread waits for is running.
WaitersArmed == \A x \in Timers : waiters[x] # <<>> => active[x]

\* The list, the wait queues and the timers agree between any two calls and
\* interrupts: what timer_irq and the list operations take for granted.
TimersSound == TypeOK /\ ListSorted /\ QueuesExact /\ RepeatingArmed
=============================================================================
