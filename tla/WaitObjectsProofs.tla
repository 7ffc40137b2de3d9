-------------------------- MODULE WaitObjectsProofs --------------------------
(***************************************************************************)
(* Proofs about WaitObjects, for any finite sets of threads and sub-events *)
(* and any sets of semaphores and events, however they are nested.         *)
(*                                                                         *)
(* The invariant Inv describes the state between two system calls.         *)
(* Linked says who is in which queue, Listed which sub-events are in which *)
(* list, Held that what is waited for exists, Tokens that nobody waits for *)
(* a semaphore with tokens, and Armed which sub-events are linked.  The    *)
(* last one holds as long as no call has failed, and a call fails only if  *)
(* events are attached in a Circle.                                        *)
(*                                                                         *)
(* Inside of a call queueWakeup and __eventWait call themselves.  What     *)
(* holds there is a part of Inv (Calm), and for each activation that is    *)
(* under way what its loop has read and still relies on: Nested says of    *)
(* the walks through queues, and Descending of the loops over lists, how   *)
(* an activation follows from the one below it.  A walk that loses the     *)
(* entry it goes on with, and a loop that meets an entry it is at already, *)
(* have come back to an event they came from.  The measures Effort and     *)
(* Labour decrease with every step, so the calls end within the number of  *)
(* steps the model gives them: nothing is cut off.                         *)
(***************************************************************************)
EXTENDS WaitObjects, CommonTheorems, FiniteSetTheorems, SequenceTheorems, TLAPS

Entries == Threads \cup Subs
Codes == Objects \cup {-1, 1} \cup 0 .. MaxValue
Flags == [Threads -> BOOLEAN]
Queues == [Objects -> Seq(Entries)]
SubMemory == [Subs -> SubEvent \cup {None}]

\* A thread that is blocked is in one queue, a blocked sub-event in that of its
\* object, and nothing else is in any queue.
Linked(live, blk, q, sb) ==
    /\ \A o \in Objects : Distinct(q[o])
    /\ \A o1, o2 \in Objects, u \in Threads :
          u \in ToSet(q[o1]) /\ u \in ToSet(q[o2]) => o1 = o2
    /\ \A u \in Threads : u \in live /\ blk[u] <=> \E o \in Objects : u \in ToSet(q[o])
    /\ \A x \in Subs, o \in Objects :
          x \in ToSet(q[o]) <=> sb[x] # None /\ sb[x].wait = o /\ sb[x].blocked

\* What the calls change in queues and flags.
Requeued(q, o, s) == [q EXCEPT ![o] = s]
Flagged(blk, u, b) == [blk EXCEPT ![u] = b]
Marked(sb, x, b) == [sb EXCEPT ![x] = [sb[x] EXCEPT !.blocked = b]]

\* A queue is replaced and the others stay.
LEMMA RequeuedFacts ==
    ASSUME NEW q \in Queues, NEW o \in Objects, NEW s \in Seq(Entries)
    PROVE  /\ Requeued(q, o, s) \in Queues /\ Requeued(q, o, s)[o] = s
           /\ \A p \in Objects : p # o => Requeued(q, o, s)[p] = q[p]
BY DEF Requeued, Queues

\* The flag of one thread is set and those of the others stay.
LEMMA FlaggedFacts ==
    ASSUME NEW blk \in Flags, NEW u \in Threads, NEW b \in BOOLEAN
    PROVE  /\ Flagged(blk, u, b) \in Flags /\ Flagged(blk, u, b)[u] = b
           /\ \A v \in Threads : v # u => Flagged(blk, u, b)[v] = blk[v]
BY DEF Flagged, Flags

\* A sub-event changes its flag, and keeps its event and its object.
LEMMA MarkedFacts ==
    ASSUME NEW sb \in SubMemory, NEW x \in Subs, sb[x] # None, NEW b \in BOOLEAN
    PROVE  /\ Marked(sb, x, b) \in SubMemory /\ Marked(sb, x, b)[x] # None
           /\ Marked(sb, x, b)[x].blocked = b /\ Marked(sb, x, b)[x].wait = sb[x].wait
           /\ Marked(sb, x, b)[x].event = sb[x].event
           /\ \A y \in Subs : y # x => Marked(sb, x, b)[y] = sb[y]
<1>. DEFINE r == [sb[x] EXCEPT !.blocked = b]
<1>1. sb[x] \in SubEvent
  BY DEF SubMemory
<1>2. /\ r \in SubEvent /\ r.blocked = b /\ r.wait = sb[x].wait /\ r.event = sb[x].event
  BY <1>1 DEF SubEvent
<1>3. r # None
  BY <1>2, WaitObjectsAssumption DEF SubEvent
<1>. HIDE DEF r
<1>4. Marked(sb, x, b) = [sb EXCEPT ![x] = r]
  BY DEF Marked, r
<1>. QED
  BY <1>2, <1>3, <1>4 DEF SubMemory

IsMarked(sb, x, b, r) ==
    /\ r \in SubMemory /\ r[x] # None /\ r[x].blocked = b
    /\ \A y \in Subs : y # x => r[y] = sb[y]

\* The same as one fact.
LEMMA MarkedIs ==
    ASSUME NEW sb \in SubMemory, NEW x \in Subs, sb[x] # None, NEW b \in BOOLEAN
    PROVE  IsMarked(sb, x, b, Marked(sb, x, b))
BY MarkedFacts DEF IsMarked

\* Threads and sub-events are different things.
LEMMA ThreadsNoSubs == Threads \cap Subs = {}
BY WaitObjectsAssumption

-----------------------------------------------------------------------------
(* Signals, and what is linked.                                            *)

\* __threadSignal in a queue.
LEMMA SignalThreadLinked ==
    ASSUME NEW live, NEW blk \in Flags, NEW q \in Queues, NEW sb, Linked(live, blk, q, sb),
           NEW o \in Objects, NEW u \in Threads, u \in ToSet(q[o])
    PROVE  /\ Linked(live, Flagged(blk, u, FALSE), Requeued(q, o, Without(q[o], u)), sb)
           /\ Requeued(q, o, Without(q[o], u)) \in Queues
<1>. DEFINE w == Without(q[o], u)
            q2 == Requeued(q, o, w)
            b2 == Flagged(blk, u, FALSE)
<1>1. q[o] \in Seq(Entries) /\ Distinct(q[o])
  BY DEF Queues, Linked
<1>2. w \in Seq(Entries) /\ ToSet(w) = ToSet(q[o]) \ {u} /\ Distinct(w)
  BY <1>1, WithoutFacts
<1>. HIDE DEF w
<1>3. q2 \in Queues /\ q2[o] = w /\ \A p \in Objects : p # o => q2[p] = q[p]
  BY <1>2, RequeuedFacts
<1>4. b2 \in Flags /\ ~b2[u] /\ \A v \in Threads : v # u => b2[v] = blk[v]
  BY FlaggedFacts
<1>. HIDE DEF q2, b2
<1>5. \A p \in Objects : ToSet(q2[p]) = ToSet(q[p]) \ {u}
  <2>. TAKE p \in Objects
  <2>1. CASE p = o
    BY <1>2, <1>3, <2>1
  <2>2. CASE p # o
    <3>1. u \notin ToSet(q[p])
      BY <2>2 DEF Linked
    <3>. QED
      BY <1>3, <2>2, <3>1
  <2>. QED
    BY <2>1, <2>2
<1>6. \A p \in Objects : Distinct(q2[p])
  BY <1>2, <1>3 DEF Linked
<1>7. \A o1, o2 \in Objects, v \in Threads :
         v \in ToSet(q2[o1]) /\ v \in ToSet(q2[o2]) => o1 = o2
  BY <1>5 DEF Linked
<1>8. ASSUME NEW v \in Threads
      PROVE  v \in live /\ b2[v] <=> \E p \in Objects : v \in ToSet(q2[p])
  <2>1. CASE v = u
    BY <1>4, <1>5, <2>1
  <2>2. CASE v # u
    BY <1>4, <1>5, <2>2 DEF Linked
  <2>. QED
    BY <2>1, <2>2
<1>9. \A x \in Subs, p \in Objects :
         x \in ToSet(q2[p]) <=> sb[x] # None /\ sb[x].wait = p /\ sb[x].blocked
  BY <1>5, ThreadsNoSubs DEF Linked
<1>10. Linked(live, b2, q2, sb)
  BY <1>6, <1>7, <1>8, <1>9 DEF Linked
<1>. QED
  BY <1>3, <1>10 DEF q2, b2, w

\* The first half of __subEventSignal.
LEMMA SignalSubLinked ==
    ASSUME NEW live, NEW blk \in Flags, NEW q \in Queues, NEW sb \in SubMemory,
           Linked(live, blk, q, sb), NEW o \in Objects, NEW x \in Subs, x \in ToSet(q[o])
    PROVE  /\ Linked(live, blk, Requeued(q, o, Without(q[o], x)), Marked(sb, x, FALSE))
           /\ Requeued(q, o, Without(q[o], x)) \in Queues
           /\ sb[x] # None /\ sb[x].wait = o /\ sb[x].blocked
<1>. DEFINE w == Without(q[o], x)
            q2 == Requeued(q, o, w)
            s2 == Marked(sb, x, FALSE)
<1>0. sb[x] # None /\ sb[x].wait = o /\ sb[x].blocked
  BY DEF Linked
<1>1. q[o] \in Seq(Entries) /\ Distinct(q[o])
  BY DEF Queues, Linked
<1>2. w \in Seq(Entries) /\ ToSet(w) = ToSet(q[o]) \ {x} /\ Distinct(w)
  BY <1>1, WithoutFacts
<1>. HIDE DEF w
<1>3. q2 \in Queues /\ q2[o] = w /\ \A p \in Objects : p # o => q2[p] = q[p]
  BY <1>2, RequeuedFacts
<1>4. /\ s2[x] # None /\ ~s2[x].blocked /\ s2[x].wait = sb[x].wait
      /\ \A y \in Subs : y # x => s2[y] = sb[y]
  BY <1>0, MarkedFacts
<1>. HIDE DEF q2, s2
<1>5. \A p \in Objects : ToSet(q2[p]) = ToSet(q[p]) \ {x}
  <2>. TAKE p \in Objects
  <2>1. CASE p = o
    BY <1>2, <1>3, <2>1
  <2>2. CASE p # o
    <3>1. x \notin ToSet(q[p])
      BY <1>0, <2>2 DEF Linked
    <3>. QED
      BY <1>3, <2>2, <3>1
  <2>. QED
    BY <2>1, <2>2
<1>6. \A p \in Objects : Distinct(q2[p])
  BY <1>2, <1>3 DEF Linked
<1>7. \A o1, o2 \in Objects, v \in Threads :
         v \in ToSet(q2[o1]) /\ v \in ToSet(q2[o2]) => o1 = o2
  BY <1>5 DEF Linked
<1>8. \A v \in Threads : v \in live /\ blk[v] <=> \E p \in Objects : v \in ToSet(q2[p])
  BY <1>5, ThreadsNoSubs DEF Linked
<1>9. ASSUME NEW y \in Subs, NEW p \in Objects
      PROVE  y \in ToSet(q2[p]) <=> s2[y] # None /\ s2[y].wait = p /\ s2[y].blocked
  <2>1. CASE y = x
    BY <1>4, <1>5, <2>1
  <2>2. CASE y # x
    BY <1>4, <1>5, <2>2 DEF Linked
  <2>. QED
    BY <2>1, <2>2
<1>10. Linked(live, blk, q2, s2)
  BY <1>6, <1>7, <1>8, <1>9 DEF Linked
<1>. QED
  BY <1>0, <1>3, <1>10 DEF q2, s2, w

\* A sub-event that is not linked is put in front of the queue of its object.
LEMMA LinkLinked ==
    ASSUME NEW live, NEW blk \in Flags, NEW q \in Queues, NEW sb \in SubMemory,
           Linked(live, blk, q, sb), NEW x \in Subs, sb[x] # None, ~sb[x].blocked,
           NEW o \in Objects, o = sb[x].wait
    PROVE  /\ Linked(live, blk, Requeued(q, o, <<x>> \o q[o]), Marked(sb, x, TRUE))
           /\ Requeued(q, o, <<x>> \o q[o]) \in Queues
<1>. DEFINE c == <<x>>
            w == c \o q[o]
            q2 == Requeued(q, o, w)
            s2 == Marked(sb, x, TRUE)
<1>1. q[o] \in Seq(Entries) /\ Distinct(q[o]) /\ x \in Entries /\ x \notin ToSet(q[o])
  BY DEF Queues, Linked, Entries
<1>2. c \in Seq(Entries) /\ ToSet(c) = {x} /\ Distinct(c)
  BY <1>1, SingletonFacts
<1>. HIDE DEF c
<1>3. ToSet(c) \cap ToSet(q[o]) = {}
  BY <1>1, <1>2
<1>4. w \in Seq(Entries) /\ ToSet(w) = {x} \cup ToSet(q[o]) /\ Distinct(w)
  BY <1>1, <1>2, <1>3, ConcatFacts
<1>. HIDE DEF w
<1>5. q2 \in Queues /\ q2[o] = w /\ \A p \in Objects : p # o => q2[p] = q[p]
  BY <1>4, RequeuedFacts
<1>6. /\ s2[x] # None /\ s2[x].blocked = TRUE /\ s2[x].wait = o
      /\ \A y \in Subs : y # x => s2[y] = sb[y]
  BY MarkedFacts
<1>. HIDE DEF q2, s2
<1>7. \A p \in Objects : \A y : y # x => (y \in ToSet(q2[p]) <=> y \in ToSet(q[p]))
  <2>. TAKE p \in Objects
  <2>. TAKE y
  <2>1. CASE p = o
    BY <1>4, <1>5, <2>1
  <2>2. CASE p # o
    BY <1>5, <2>2
  <2>. QED
    BY <2>1, <2>2
<1>8. \A p \in Objects : Distinct(q2[p])
  BY <1>4, <1>5 DEF Linked
<1>9. \A v \in Threads : v # x
  BY ThreadsNoSubs
<1>10. \A o1, o2 \in Objects, v \in Threads :
         v \in ToSet(q2[o1]) /\ v \in ToSet(q2[o2]) => o1 = o2
  BY <1>7, <1>9 DEF Linked
<1>11. \A v \in Threads : v \in live /\ blk[v] <=> \E p \in Objects : v \in ToSet(q2[p])
  BY <1>7, <1>9 DEF Linked
<1>12. ASSUME NEW y \in Subs, NEW p \in Objects
      PROVE  y \in ToSet(q2[p]) <=> s2[y] # None /\ s2[y].wait = p /\ s2[y].blocked
  <2>1. CASE y = x
    <3>1. CASE p = o
      BY <1>4, <1>5, <1>6, <2>1, <3>1
    <3>2. CASE p # o
      <4>1. x \notin ToSet(q[p])
        BY DEF Linked
      <4>. QED
        BY <1>5, <1>6, <2>1, <3>2, <4>1
    <3>. QED
      BY <3>1, <3>2
  <2>2. CASE y # x
    BY <1>6, <1>7, <2>2 DEF Linked
  <2>. QED
    BY <2>1, <2>2
<1>13. Linked(live, blk, q2, s2)
  BY <1>8, <1>10, <1>11, <1>12 DEF Linked
<1>. QED
  BY <1>5, <1>13 DEF q2, s2, w, c

\* A thread blocks: it is put in front of the queue of o.
LEMMA BlockLinked ==
    ASSUME NEW live, NEW blk \in Flags, NEW q \in Queues, NEW sb, Linked(live, blk, q, sb),
           NEW t \in Threads, t \in live, ~blk[t], NEW o \in Objects
    PROVE  /\ Linked(live, Flagged(blk, t, TRUE), Requeued(q, o, <<t>> \o q[o]), sb)
           /\ Requeued(q, o, <<t>> \o q[o]) \in Queues
<1>. DEFINE c == <<t>>
            w == c \o q[o]
            q2 == Requeued(q, o, w)
            b2 == Flagged(blk, t, TRUE)
<1>0. \A p \in Objects : t \notin ToSet(q[p])
  BY DEF Linked
<1>1. q[o] \in Seq(Entries) /\ Distinct(q[o]) /\ t \in Entries
  BY DEF Queues, Linked, Entries
<1>2. c \in Seq(Entries) /\ ToSet(c) = {t} /\ Distinct(c)
  BY <1>1, SingletonFacts
<1>. HIDE DEF c
<1>3. ToSet(c) \cap ToSet(q[o]) = {}
  BY <1>0, <1>2
<1>4. w \in Seq(Entries) /\ ToSet(w) = {t} \cup ToSet(q[o]) /\ Distinct(w)
  BY <1>1, <1>2, <1>3, ConcatFacts
<1>. HIDE DEF w
<1>5. q2 \in Queues /\ q2[o] = w /\ \A p \in Objects : p # o => q2[p] = q[p]
  BY <1>4, RequeuedFacts
<1>6. b2 \in Flags /\ b2[t] /\ \A v \in Threads : v # t => b2[v] = blk[v]
  BY FlaggedFacts
<1>. HIDE DEF q2, b2
<1>7. \A p \in Objects : \A y : y \in ToSet(q2[p]) <=> y \in ToSet(q[p]) \/ (y = t /\ p = o)
  <2>. TAKE p \in Objects
  <2>. TAKE y
  <2>1. CASE p = o
    BY <1>4, <1>5, <2>1
  <2>2. CASE p # o
    BY <1>5, <2>2
  <2>. QED
    BY <2>1, <2>2
<1>8. \A p \in Objects : Distinct(q2[p])
  BY <1>4, <1>5 DEF Linked
<1>9. \A o1, o2 \in Objects, v \in Threads :
         v \in ToSet(q2[o1]) /\ v \in ToSet(q2[o2]) => o1 = o2
  BY <1>0, <1>7 DEF Linked
<1>10. ASSUME NEW v \in Threads
       PROVE  v \in live /\ b2[v] <=> \E p \in Objects : v \in ToSet(q2[p])
  <2>1. CASE v = t
    BY <1>6, <1>7, <2>1
  <2>2. CASE v # t
    BY <1>6, <1>7, <2>2 DEF Linked
  <2>. QED
    BY <2>1, <2>2
<1>11. \A x \in Subs, p \in Objects :
         x \in ToSet(q2[p]) <=> sb[x] # None /\ sb[x].wait = p /\ sb[x].blocked
  BY <1>7, ThreadsNoSubs DEF Linked
<1>12. Linked(live, b2, q2, sb)
  BY <1>8, <1>9, <1>10, <1>11 DEF Linked
<1>. QED
  BY <1>5, <1>12 DEF q2, b2, w, c

Unlinked(q, u) == [o \in Objects |-> Without(q[o], u)]

\* Removing an entry from every queue keeps the queues distinct.
LEMMA UnlinkedFacts ==
    ASSUME NEW q \in Queues, \A o \in Objects : Distinct(q[o]), NEW u
    PROVE  \A o \in Objects :
              /\ Unlinked(q, u)[o] \in Seq(Entries) /\ Distinct(Unlinked(q, u)[o])
              /\ ToSet(Unlinked(q, u)[o]) = ToSet(q[o]) \ {u}
<1>. TAKE o \in Objects
<1>1. q[o] \in Seq(Entries) /\ Unlinked(q, u)[o] = Without(q[o], u)
  BY DEF Queues, Unlinked
<1>. QED
  BY <1>1, WithoutFacts

\* A thread is taken out of the queue it is in, because it is signalled or ends.
OtherThreads(live, blk, live2, blk2, u) ==
    \A v \in Threads : v # u => (v \in live2 <=> v \in live) /\ blk2[v] = blk[v]
ThreadOut(live, blk, q, sb, q2, u) ==
    /\ Linked(live, blk, q2, sb) /\ q2 \in Queues
    /\ \A o \in Objects : ToSet(q2[o]) = ToSet(q[o]) \ {u}

\* A thread that is removed from its queue leaves the queues exact, if it is no
\* longer blocked or no longer alive (__threadSignal, __threadShutdown).
LEMMA UnlinkLinked ==
    ASSUME NEW live, NEW blk \in Flags, NEW q \in Queues, NEW sb, Linked(live, blk, q, sb),
           NEW u \in Threads, NEW live2, NEW blk2 \in Flags, ~(u \in live2 /\ blk2[u]),
           OtherThreads(live, blk, live2, blk2, u), NEW q2, q2 = Unlinked(q, u)
    PROVE  ThreadOut(live2, blk2, q, sb, q2, u)
<1>2. \A o \in Objects : /\ q2[o] \in Seq(Entries) /\ Distinct(q2[o])
                         /\ ToSet(q2[o]) = ToSet(q[o]) \ {u}
  <2>1. \A o \in Objects : Distinct(q[o])
    BY DEF Linked
  <2>2. \A o \in Objects : /\ Unlinked(q, u)[o] \in Seq(Entries) /\ Distinct(Unlinked(q, u)[o])
                           /\ ToSet(Unlinked(q, u)[o]) = ToSet(q[o]) \ {u}
    BY <2>1, UnlinkedFacts
  <2>. QED
    BY <2>2, Zenon
<1>3. q2 \in Queues
  BY <1>2 DEF Queues, Unlinked
<1>4. \A o1, o2 \in Objects, v \in Threads :
         v \in ToSet(q2[o1]) /\ v \in ToSet(q2[o2]) => o1 = o2
  BY <1>2 DEF Linked
<1>5. ASSUME NEW v \in Threads
      PROVE  v \in live2 /\ blk2[v] <=> \E p \in Objects : v \in ToSet(q2[p])
  <2>1. CASE v = u
    BY <1>2, <2>1
  <2>2. CASE v # u
    <3>1. v \in live /\ blk[v] <=> \E p \in Objects : v \in ToSet(q[p])
      BY DEF Linked
    <3>2. \A p \in Objects : v \in ToSet(q2[p]) <=> v \in ToSet(q[p])
      BY <1>2, <2>2
    <3>3. v \in live2 /\ blk2[v] <=> v \in live /\ blk[v]
      BY <2>2 DEF OtherThreads
    <3>. QED
      BY <3>1, <3>2, <3>3
  <2>. QED
    BY <2>1, <2>2
<1>6. \A x \in Subs, p \in Objects :
         x \in ToSet(q2[p]) <=> sb[x] # None /\ sb[x].wait = p /\ sb[x].blocked
  BY <1>2, ThreadsNoSubs DEF Linked
<1>. QED
  BY <1>2, <1>3, <1>4, <1>5, <1>6 DEF Linked, ThreadOut

-----------------------------------------------------------------------------
(* The invariant.                                                          *)

\* Every sub-event is in the list of its event.
Listed(sl, sb) ==
    /\ \A e \in Events : Distinct(sl[e])
    /\ \A e \in Events, x \in Subs : x \in ToSet(sl[e]) <=> sb[x] # None /\ sb[x].event = e

\* Somebody refers to o.
Referred(op, sb, o) == o \in op \/ \E x \in Subs : sb[x] # None /\ sb[x].wait = o

\* What is waited for exists, and so does what owns a sub-event.
Held(op, q, sl, sb) ==
    /\ \A o \in Objects, u \in Threads : u \in ToSet(q[o]) => Referred(op, sb, o)
    /\ \A e \in Events : sl[e] # <<>> => Referred(op, sb, e)

Tokens(q, v) == \A s \in Sems : q[s] # <<>> => v[s] = 0

\* The sub-events of a list that are linked come before those that are not.
InOrder(s, sb) == \A i, j \in 1 .. Len(s) : i < j /\ sb[s[j]].blocked => sb[s[i]].blocked
Armed(q, sl, sb) == \A e \in Events : WakeupAll[e] /\ q[e] # <<>> => InOrder(sl[e], sb)

Circle(sb) ==
    \E E \in (SUBSET Events) \ {{}} :
        \A e \in E : \E x \in Subs : sb[x] # None /\ sb[x].event = e /\ sb[x].wait \in E

Inv ==
    /\ TypeOK
    /\ Linked(alive, blocked, queue, sub) /\ Listed(subList, sub)
    /\ Held(open, queue, subList, sub) /\ Tokens(queue, value)
    /\ failed # "none" => Circle(sub)
    /\ failed = "none" => Armed(queue, subList, sub)

\* An object exists while a handle or a sub-event refers to it.
LEMMA ExistsReferred == \A o : Exists(o) <=> Referred(open, sub, o)
BY DEF Exists, SubsOn, Used, Referred

\* Counting places says the same as Linked.
LEMMA InvQueuesExact ==
    ASSUME Inv
    PROVE  QueuesExact
<1>0. /\ Linked(alive, blocked, queue, sub) /\ Listed(subList, sub)
      /\ Held(open, queue, subList, sub) /\ queue \in Queues /\ subList \in [Events -> Seq(Subs)]
  BY DEF Inv, TypeOK, Queues, Entries
<1>1. ASSUME NEW o \in Objects, NEW y
      PROVE  /\ y \notin ToSet(queue[o]) => Places(queue[o], y) = {}
             /\ y \in ToSet(queue[o]) => \E k : Places(queue[o], y) = {k}
  <2>1. queue[o] \in Seq(Entries) /\ Distinct(queue[o])
    BY <1>0 DEF Queues, Linked
  <2>. QED
    BY <2>1, DistinctPlaces DEF Places
<1>2. ASSUME NEW t \in Threads
      PROVE  Cardinality(ThreadPlaces(t)) = IF t \in alive /\ blocked[t] THEN 1 ELSE 0
  <2>1. CASE ~(t \in alive /\ blocked[t])
    <3>1. \A o \in Objects : Places(queue[o], t) = {}
      BY <1>0, <1>1, <2>1 DEF Linked
    <3>2. ThreadPlaces(t) = {}
      BY <3>1 DEF ThreadPlaces
    <3>. QED
      BY <2>1, <3>2, FS_EmptySet
  <2>2. CASE t \in alive /\ blocked[t]
    <3>1. PICK o \in Objects : t \in ToSet(queue[o])
      BY <1>0, <2>2 DEF Linked
    <3>2. PICK k : Places(queue[o], t) = {k}
      BY <1>1, <3>1
    <3>3. \A p \in Objects : p # o => Places(queue[p], t) = {}
      BY <1>0, <1>1, <3>1 DEF Linked
    <3>4. ThreadPlaces(t) = {<<o, k>>}
      BY <3>2, <3>3 DEF ThreadPlaces
    <3>. QED
      BY <2>2, <3>4, FS_Singleton
  <2>. QED
    BY <2>1, <2>2
<1>3. ASSUME NEW x \in Subs, NEW o \in Objects
      PROVE  Cardinality(Places(queue[o], x)) =
                IF Used(x) /\ sub[x].wait = o /\ sub[x].blocked THEN 1 ELSE 0
  <2>1. x \in ToSet(queue[o]) <=> Used(x) /\ sub[x].wait = o /\ sub[x].blocked
    BY <1>0 DEF Linked, Used
  <2>2. CASE x \in ToSet(queue[o])
    BY <1>1, <2>1, <2>2, FS_Singleton
  <2>3. CASE x \notin ToSet(queue[o])
    BY <1>1, <2>1, <2>3, FS_EmptySet
  <2>. QED
    BY <2>2, <2>3
<1>4. ASSUME NEW e \in Events, NEW x \in Subs
      PROVE  Cardinality(Places(subList[e], x)) = IF Used(x) /\ sub[x].event = e THEN 1 ELSE 0
  <2>0. subList[e] \in Seq(Subs) /\ Distinct(subList[e])
    BY <1>0 DEF Listed
  <2>1. x \in ToSet(subList[e]) <=> Used(x) /\ sub[x].event = e
    BY <1>0 DEF Listed, Used
  <2>2. CASE x \in ToSet(subList[e])
    BY <2>0, <2>1, <2>2, DistinctPlaces, FS_Singleton DEF Places
  <2>3. CASE x \notin ToSet(subList[e])
    BY <2>0, <2>1, <2>3, DistinctPlaces, FS_EmptySet DEF Places
  <2>. QED
    BY <2>2, <2>3
<1>5. ASSUME NEW o \in Objects, ~Exists(o)
      PROVE  queue[o] = <<>>
  <2>1. ~Referred(open, sub, o)
    BY <1>5, ExistsReferred
  <2>2. \A u \in Threads : u \notin ToSet(queue[o])
    BY <1>0, <2>1 DEF Held
  <2>3. \A x \in Subs : x \notin ToSet(queue[o])
    BY <1>0, <2>1 DEF Linked, Referred
  <2>4. queue[o] \in Seq(Entries)
    BY <1>0 DEF Queues
  <2>5. ToSet(queue[o]) \subseteq Entries
    BY <2>4, EmptyFacts
  <2>6. ToSet(queue[o]) = {}
    BY <2>2, <2>3, <2>5 DEF Entries
  <2>. QED
    BY <2>4, <2>6, EmptyFacts
<1>6. \A e \in Events : ~Exists(e) => subList[e] = <<>>
  BY <1>0, ExistsReferred DEF Held
<1>. QED
  BY <1>2, <1>3, <1>4, <1>5, <1>6 DEF QueuesExact
-----------------------------------------------------------------------------
(* What the steps of a call do to the memory.                              *)

Mems == [blocked: Flags, result: [Threads -> Codes], value: [Sems -> 0 .. MaxValue],
         queue: Queues, sub: SubMemory, failed: {"none", "endless", "left"}]

\* n is m, except for the flags, the results, the queues and the sub-events given.
Changed(m, n, blk, res, q, sb) ==
    /\ n \in Mems /\ n.blocked = blk /\ n.result = res /\ n.queue = q /\ n.sub = sb
    /\ n.value = m.value /\ n.failed = m.failed

\* What a record is whose fields are assigned together.
LEMMA ChangedMem ==
    ASSUME NEW m \in Mems, NEW blk \in Flags, NEW res \in [Threads -> Codes], NEW q \in Queues,
           NEW sb \in SubMemory, NEW n,
           n = [m EXCEPT !.blocked = blk, !.result = res, !.queue = q, !.sub = sb]
    PROVE  Changed(m, n, blk, res, q, sb)
BY DEF Mems, Changed

Resulted(res, u, code) == [res EXCEPT ![u] = code]

\* Which fields __threadSignal writes, and with what.
LEMMA SignalThreadChanges ==
    ASSUME NEW m \in Mems, NEW o \in Objects, NEW u \in Threads, NEW code \in Codes,
           Requeued(m.queue, o, Without(m.queue[o], u)) \in Queues
    PROVE  Changed(m, SignalThread(m, o, u, code), Flagged(m.blocked, u, FALSE),
                   Resulted(m.result, u, code), Requeued(m.queue, o, Without(m.queue[o], u)), m.sub)
<1>. DEFINE n == SignalThread(m, o, u, code)
            w == Without(m.queue[o], u)
            blk == Flagged(m.blocked, u, FALSE)
            res == Resulted(m.result, u, code)
            q == Requeued(m.queue, o, w)
<1>1. m.blocked \in Flags /\ m.result \in [Threads -> Codes] /\ m.sub \in SubMemory
  BY DEF Mems
<1>2. blk \in Flags /\ res \in [Threads -> Codes] /\ q \in Queues
  BY <1>1, FlaggedFacts DEF Resulted
<1>3. n = [m EXCEPT !.blocked = blk, !.result = res, !.queue = q, !.sub = m.sub]
  BY DEF SignalThread, Mems, Flagged, Resulted, Requeued
<1>. HIDE DEF n, blk, res, q
<1>4. Changed(m, n, blk, res, q, m.sub)
  BY <1>1, <1>2, <1>3, ChangedMem
<1>. QED
  BY <1>4 DEF n, blk, res, q

\* Which fields __subEventSignal writes before it goes on to its event.
LEMMA SignalSubChanges ==
    ASSUME NEW m \in Mems, NEW o \in Objects, NEW x \in Subs, m.sub[x] # None,
           Requeued(m.queue, o, Without(m.queue[o], x)) \in Queues
    PROVE  Changed(m, SignalSub(m, o, x), m.blocked, m.result,
                   Requeued(m.queue, o, Without(m.queue[o], x)), Marked(m.sub, x, FALSE))
<1>. DEFINE n == SignalSub(m, o, x)
            w == Without(m.queue[o], x)
            sb == Marked(m.sub, x, FALSE)
            q == Requeued(m.queue, o, w)
<1>1. m.blocked \in Flags /\ m.result \in [Threads -> Codes] /\ m.sub \in SubMemory
  BY DEF Mems
<1>2. sb \in SubMemory /\ q \in Queues
  BY <1>1, MarkedFacts
<1>3. n = [m EXCEPT !.blocked = m.blocked, !.result = m.result, !.queue = q, !.sub = sb]
  BY DEF SignalSub, Mems, Marked, Requeued
<1>. HIDE DEF n, sb, q
<1>4. Changed(m, n, m.blocked, m.result, q, sb)
  BY <1>1, <1>2, <1>3, ChangedMem
<1>. QED
  BY <1>4 DEF n, sb, q

\* Which fields __eventWait writes to link a sub-event.
LEMMA LinkChanges ==
    ASSUME NEW m \in Mems, NEW x \in Subs, m.sub[x] # None, NEW o \in Objects, o = m.sub[x].wait,
           Requeued(m.queue, o, <<x>> \o m.queue[o]) \in Queues
    PROVE  Changed(m, Link(m, x), m.blocked, m.result,
                   Requeued(m.queue, o, <<x>> \o m.queue[o]), Marked(m.sub, x, TRUE))
<1>. DEFINE n == Link(m, x)
            w == <<x>> \o m.queue[o]
            sb == Marked(m.sub, x, TRUE)
            q == Requeued(m.queue, o, w)
<1>1. m.blocked \in Flags /\ m.result \in [Threads -> Codes] /\ m.sub \in SubMemory
  BY DEF Mems
<1>2. sb \in SubMemory /\ q \in Queues
  BY <1>1, MarkedFacts
<1>. HIDE DEF w
<1>3. n = [m EXCEPT !.blocked = m.blocked, !.result = m.result, !.queue = q, !.sub = sb]
  <2>1. n = [m EXCEPT !.sub[x].blocked = TRUE, !.queue[o] = w]
    BY DEF Link, w
  <2>. HIDE DEF n
  <2>. QED
    BY <2>1 DEF Mems, Marked, Requeued
<1>. HIDE DEF n, sb, q
<1>4. Changed(m, n, m.blocked, m.result, q, sb)
  BY <1>1, <1>2, <1>3, ChangedMem
<1>. QED
  BY <1>4 DEF n, sb, q, w

\* Which fields threadWait writes.
LEMMA BlockChanges ==
    ASSUME NEW m \in Mems, NEW o \in Objects, NEW t \in Threads,
           Requeued(m.queue, o, <<t>> \o m.queue[o]) \in Queues
    PROVE  Changed(m, Block(m, t, o), Flagged(m.blocked, t, TRUE), Resulted(m.result, t, 0),
                   Requeued(m.queue, o, <<t>> \o m.queue[o]), m.sub)
<1>. DEFINE n == Block(m, t, o)
            w == <<t>> \o m.queue[o]
            blk == Flagged(m.blocked, t, TRUE)
            res == Resulted(m.result, t, 0)
            q == Requeued(m.queue, o, w)
<1>1. m.blocked \in Flags /\ m.result \in [Threads -> Codes] /\ m.sub \in SubMemory
  BY DEF Mems
<1>2. blk \in Flags /\ res \in [Threads -> Codes] /\ q \in Queues
  <2>1. 0 \in Codes
    BY WaitObjectsAssumption DEF Codes
  <2>. QED
    BY <1>1, <2>1, FlaggedFacts DEF Resulted
<1>. HIDE DEF w
<1>3. n = [m EXCEPT !.blocked = blk, !.result = res, !.queue = q, !.sub = m.sub]
  <2>1. n = [m EXCEPT !.blocked[t] = TRUE, !.result[t] = 0, !.queue[o] = w]
    BY DEF Block, w
  <2>. HIDE DEF n
  <2>. QED
    BY <2>1 DEF Mems, Flagged, Resulted, Requeued
<1>. HIDE DEF n, blk, res, q
<1>4. Changed(m, n, blk, res, q, m.sub)
  BY <1>1, <1>2, <1>3, ChangedMem
<1>. QED
  BY <1>4 DEF n, blk, res, q, w

\* n is m, except for the results, the counters and the flag `failed'.
Counted(m, n, v, f) ==
    /\ n \in Mems /\ n.blocked = m.blocked /\ n.queue = m.queue /\ n.sub = m.sub
    /\ n.value = v /\ n.failed = f

\* The result of a call touches nothing but the result.
LEMMA ReturnsCounted ==
    ASSUME NEW m \in Mems, NEW t, NEW code \in Codes
    PROVE  Counted(m, Returns(m, t, code), m.value, m.failed)
BY DEF Mems, Returns, Counted

\* A failure touches nothing but the mark for it.
LEMMA FailedCounted ==
    ASSUME NEW m \in Mems, NEW f \in {"endless", "left"}
    PROVE  Counted(m, [m EXCEPT !.failed = f], m.value, f)
BY DEF Mems, Counted

\* The counter of s becomes k.
Valued(v, s, k) == [v EXCEPT ![s] = k]

\* The counter of one semaphore is set and the others stay.
LEMMA ValuedFacts ==
    ASSUME NEW v \in [Sems -> 0 .. MaxValue], NEW s \in Sems, NEW k \in 0 .. MaxValue
    PROVE  /\ Valued(v, s, k) \in [Sems -> 0 .. MaxValue] /\ Valued(v, s, k)[s] = k
           /\ \A r \in Sems : r # s => Valued(v, s, k)[r] = v[r]
BY DEF Valued

\* Writing a counter touches nothing but the counter.
LEMMA ValueCounted ==
    ASSUME NEW m \in Mems, NEW s \in Sems, NEW k \in 0 .. MaxValue
    PROVE  Counted(m, [m EXCEPT !.value[s] = k], Valued(m.value, s, k), m.failed)
BY DEF Mems, Counted, Valued

\* The same sub-events are in use, for the same events and objects.
Same(sb) ==
    \A x \in Subs : /\ sb[x] # None <=> sub[x] # None
                    /\ sub[x] # None => sb[x].event = sub[x].event /\ sb[x].wait = sub[x].wait

\* Whoever waits waits for something that exists.
Awaited(q) == \A o \in Objects, u \in Threads : u \in ToSet(q[o]) => Referred(open, sub, o)

\* What holds of the memory between the steps of a call.
Calm(m) ==
    /\ m \in Mems /\ Same(m.sub) /\ Linked(alive, m.blocked, m.queue, m.sub)
    /\ Awaited(m.queue) /\ Tokens(m.queue, m.value)

\* The queues of m lose the entry y of o, and nothing else.
Taken(m, n, o, y) ==
    /\ n.queue[o] = Without(m.queue[o], y)
    /\ ToSet(n.queue[o]) = ToSet(m.queue[o]) \ {y}
    /\ \A p \in Objects : p # o => n.queue[p] = m.queue[p]

\* Taking an entry from a queue makes no queue longer: what exists keeps its
\* waiters, and no waiters appear at a semaphore with tokens.
LEMMA TakenKeeps ==
    ASSUME NEW m \in Mems, NEW n \in Mems, NEW o \in Objects, NEW y, Taken(m, n, o, y)
    PROVE  /\ Awaited(m.queue) => Awaited(n.queue)
           /\ Tokens(m.queue, m.value) => Tokens(n.queue, m.value)
<1>1. \A p \in Objects : ToSet(n.queue[p]) \subseteq ToSet(m.queue[p])
  BY DEF Taken
<1>2. \A p \in Objects : n.queue[p] # <<>> => m.queue[p] # <<>>
  <2>. TAKE p \in Objects
  <2>. DEFINE a == m.queue[p]
              b == n.queue[p]
  <2>1. a \in Seq(Entries) /\ b \in Seq(Entries) /\ ToSet(b) \subseteq ToSet(a)
    BY <1>1 DEF Mems, Queues
  <2>. HIDE DEF a, b
  <2>2. a = <<>> => b = <<>>
    BY <2>1, EmptyFacts
  <2>. QED
    BY <2>2 DEF a, b
<1>. QED
  BY <1>1, <1>2 DEF Awaited, Tokens, Objects

ThreadWoken(m, n, o, u) ==
    /\ Calm(n) /\ Taken(m, n, o, u)
    /\ n.blocked = Flagged(m.blocked, u, FALSE) /\ n.sub = m.sub /\ n.failed = m.failed

\* Waking a thread keeps the queues sound.
LEMMA CalmSignalThread ==
    ASSUME NEW m, Calm(m), NEW o \in Objects, NEW u \in Threads, u \in ToSet(m.queue[o]),
           NEW code \in Codes, NEW n, n = SignalThread(m, o, u, code)
    PROVE  ThreadWoken(m, n, o, u)
<1>. DEFINE w == Without(m.queue[o], u)
            blk == Flagged(m.blocked, u, FALSE)
            q == Requeued(m.queue, o, w)
<1>1. /\ m \in Mems /\ m.blocked \in Flags /\ m.queue \in Queues
      /\ m.queue[o] \in Seq(Entries) /\ Distinct(m.queue[o])
      /\ Linked(alive, m.blocked, m.queue, m.sub)
  BY DEF Calm, Mems, Linked, Queues
<1>2. Linked(alive, blk, q, m.sub) /\ q \in Queues
  BY <1>1, SignalThreadLinked
<1>3. Changed(m, n, blk, Resulted(m.result, u, code), q, m.sub)
  BY <1>1, <1>2, SignalThreadChanges
<1>4. w \in Seq(Entries) /\ ToSet(w) = ToSet(m.queue[o]) \ {u}
  BY <1>1, WithoutFacts
<1>5. q[o] = w /\ \A p \in Objects : p # o => q[p] = m.queue[p]
  BY <1>1, <1>4, RequeuedFacts
<1>. HIDE DEF w, blk, q
<1>6. n \in Mems /\ n.blocked = blk /\ n.queue = q /\ n.sub = m.sub /\ n.value = m.value
      /\ n.failed = m.failed
  BY <1>3 DEF Changed
<1>7. Taken(m, n, o, u)
  BY <1>4, <1>5, <1>6 DEF Taken, w
<1>8. Calm(n)
  BY <1>1, <1>2, <1>6, <1>7, TakenKeeps DEF Calm
<1>. QED
  BY <1>6, <1>7, <1>8 DEF blk, ThreadWoken

SubWoken(m, n, o, x) ==
    /\ Calm(n) /\ Taken(m, n, o, x)
    /\ n.blocked = m.blocked /\ n.sub = Marked(m.sub, x, FALSE) /\ n.failed = m.failed
    /\ sub[x] # None /\ sub[x].wait = o /\ m.sub[x].blocked
    /\ m.sub[x] # None /\ m.sub[x].event = sub[x].event

\* Signalling a sub-event keeps the queues sound.
LEMMA CalmSignalSub ==
    ASSUME NEW m, Calm(m), NEW o \in Objects, NEW x \in Subs, x \in ToSet(m.queue[o]),
           NEW n, n = SignalSub(m, o, x)
    PROVE  SubWoken(m, n, o, x)
<1>. DEFINE w == Without(m.queue[o], x)
            sb == Marked(m.sub, x, FALSE)
            q == Requeued(m.queue, o, w)
<1>1. /\ m \in Mems /\ m.blocked \in Flags /\ m.queue \in Queues /\ m.sub \in SubMemory
      /\ m.queue[o] \in Seq(Entries) /\ Distinct(m.queue[o])
      /\ Linked(alive, m.blocked, m.queue, m.sub)
  BY DEF Calm, Mems, Linked, Queues
<1>2. Linked(alive, m.blocked, q, sb) /\ q \in Queues
      /\ m.sub[x] # None /\ m.sub[x].wait = o /\ m.sub[x].blocked
  <2>1. m.sub[x] # None /\ m.sub[x].wait = o /\ m.sub[x].blocked
    BY <1>1 DEF Linked
  <2>2. Linked(alive, m.blocked, q, sb) /\ q \in Queues
    BY <1>1, SignalSubLinked
  <2>. QED
    BY <2>1, <2>2, Zenon
<1>3. Changed(m, n, m.blocked, m.result, q, sb)
  BY <1>1, <1>2, SignalSubChanges
<1>4. w \in Seq(Entries) /\ ToSet(w) = ToSet(m.queue[o]) \ {x}
  BY <1>1, WithoutFacts
<1>5. q[o] = w /\ \A p \in Objects : p # o => q[p] = m.queue[p]
  BY <1>1, <1>4, RequeuedFacts
<1>s. Same(m.sub)
  BY DEF Calm
<1>9. Same(sb)
  <2>1. /\ sb[x] # None /\ sb[x].wait = m.sub[x].wait /\ sb[x].event = m.sub[x].event
        /\ \A y \in Subs : y # x => sb[y] = m.sub[y]
    BY <1>1, <1>2, MarkedFacts
  <2>. HIDE DEF sb
  <2>. SUFFICES ASSUME NEW y \in Subs
                PROVE  /\ sb[y] # None <=> sub[y] # None
                       /\ sub[y] # None => sb[y].event = sub[y].event /\ sb[y].wait = sub[y].wait
    BY DEF Same
  <2>2. CASE y = x
    BY <1>2, <1>s, <2>1, <2>2 DEF Same
  <2>3. CASE y # x
    BY <1>s, <2>1, <2>3 DEF Same
  <2>. QED
    BY <2>2, <2>3
<1>. HIDE DEF w, sb, q
<1>6. n \in Mems /\ n.blocked = m.blocked /\ n.queue = q /\ n.sub = sb /\ n.value = m.value
      /\ n.failed = m.failed
  BY <1>3 DEF Changed
<1>7. Taken(m, n, o, x)
  BY <1>4, <1>5, <1>6 DEF Taken, w
<1>8. Calm(n)
  BY <1>1, <1>2, <1>6, <1>7, <1>9, TakenKeeps DEF Calm
<1>10. sub[x] # None /\ sub[x].wait = o /\ m.sub[x].event = sub[x].event
  BY <1>2, <1>s DEF Same
<1>. QED
  BY <1>2, <1>6, <1>7, <1>8, <1>10 DEF sb, SubWoken

\* The queues of m get the entry y in front of that of o, and nothing else.
Put(m, n, o, y) ==
    /\ n.queue[o] = <<y>> \o m.queue[o]
    /\ ToSet(n.queue[o]) = {y} \cup ToSet(m.queue[o])
    /\ \A p \in Objects : p # o => n.queue[p] = m.queue[p]

\* What linking an entry in front does to the queues.
LEMMA PutFacts ==
    ASSUME NEW m \in Mems, NEW o \in Objects, NEW y \in Entries, NEW n \in Mems,
           n.queue = Requeued(m.queue, o, <<y>> \o m.queue[o])
    PROVE  Put(m, n, o, y)
<1>. DEFINE c == <<y>>
            w == c \o m.queue[o]
<1>1. m.queue \in Queues /\ m.queue[o] \in Seq(Entries)
  BY DEF Mems, Queues
<1>2. c \in Seq(Entries) /\ ToSet(c) = {y}
  BY SingletonFacts
<1>3. n.queue = Requeued(m.queue, o, w)
  OBVIOUS
<1>. HIDE DEF c
<1>4. w \in Seq(Entries) /\ ToSet(w) = {y} \cup ToSet(m.queue[o])
  BY <1>1, <1>2, ConcatFacts
<1>. HIDE DEF w
<1>5. n.queue[o] = w /\ \A p \in Objects : p # o => n.queue[p] = m.queue[p]
  BY <1>1, <1>3, <1>4, RequeuedFacts
<1>. QED
  BY <1>4, <1>5 DEF Put, w, c

\* An entry is linked to a semaphore only when that has no tokens.
LEMMA PutKeepsTokens ==
    ASSUME NEW m \in Mems, NEW n \in Mems, NEW o \in Objects, NEW y, Put(m, n, o, y),
           Tokens(m.queue, m.value), o \in Sems => m.value[o] = 0
    PROVE  Tokens(n.queue, m.value)
BY DEF Put, Tokens, Objects

SubPut(m, n, o, x) ==
    /\ Calm(n) /\ Put(m, n, o, x)
    /\ n.blocked = m.blocked /\ n.sub = Marked(m.sub, x, TRUE) /\ n.failed = m.failed

\* Linking a sub-event to its object keeps the queues sound.
LEMMA CalmLink ==
    ASSUME NEW m, Calm(m), NEW x \in Subs, m.sub[x] # None, ~m.sub[x].blocked,
           NEW o \in Objects, m.sub[x].wait = o, o \in Sems => m.value[o] = 0,
           NEW n, n = Link(m, x)
    PROVE  SubPut(m, n, o, x)
<1>. DEFINE w == <<x>> \o m.queue[o]
            sb == Marked(m.sub, x, TRUE)
            q == Requeued(m.queue, o, w)
<1>1. /\ m \in Mems /\ m.blocked \in Flags /\ m.queue \in Queues /\ m.sub \in SubMemory
      /\ Linked(alive, m.blocked, m.queue, m.sub)
  BY DEF Calm, Mems
<1>2. Linked(alive, m.blocked, q, sb) /\ q \in Queues
  BY <1>1, LinkLinked
<1>3. Changed(m, n, m.blocked, m.result, q, sb)
  BY <1>1, <1>2, LinkChanges
<1>s. Same(m.sub)
  BY DEF Calm
<1>4. Same(sb)
  <2>1. /\ sb[x] # None /\ sb[x].wait = m.sub[x].wait /\ sb[x].event = m.sub[x].event
        /\ \A y \in Subs : y # x => sb[y] = m.sub[y]
    BY <1>1, MarkedFacts
  <2>. HIDE DEF sb
  <2>. SUFFICES ASSUME NEW y \in Subs
                PROVE  /\ sb[y] # None <=> sub[y] # None
                       /\ sub[y] # None => sb[y].event = sub[y].event /\ sb[y].wait = sub[y].wait
    BY DEF Same
  <2>2. CASE y = x
    BY <1>s, <2>1, <2>2 DEF Same
  <2>3. CASE y # x
    BY <1>s, <2>1, <2>3 DEF Same
  <2>. QED
    BY <2>2, <2>3
<1>. HIDE DEF sb
<1>5. n.queue = q
  BY <1>3 DEF Changed
<1>6. n \in Mems /\ n.blocked = m.blocked /\ n.sub = sb /\ n.value = m.value /\ n.failed = m.failed
  BY <1>3 DEF Changed
<1>7. Put(m, n, o, x)
  BY <1>1, <1>5, <1>6, PutFacts DEF Entries
<1>. HIDE DEF q
<1>8. Tokens(n.queue, n.value)
  BY <1>1, <1>6, <1>7, PutKeepsTokens DEF Calm
<1>9. Awaited(n.queue)
  <2>1. Awaited(m.queue)
    BY DEF Calm
  <2>2. ASSUME NEW p \in Objects, NEW u \in Threads, u \in ToSet(n.queue[p])
        PROVE  u \in ToSet(m.queue[p])
    BY <1>7, <2>2, ThreadsNoSubs DEF Put
  <2>. QED
    BY <2>1, <2>2 DEF Awaited
<1>10. Calm(n)
  BY <1>2, <1>4, <1>5, <1>6, <1>8, <1>9 DEF Calm
<1>. QED
  BY <1>6, <1>7, <1>10 DEF sb, SubPut

ThreadPut(m, n, o, t) ==
    /\ Calm(n) /\ Put(m, n, o, t) /\ n.sub = m.sub /\ n.failed = m.failed

\* Blocking a thread keeps the queues sound.
LEMMA CalmBlock ==
    ASSUME NEW m, Calm(m), NEW t \in Threads, t \in alive, ~m.blocked[t],
           NEW o \in Objects, Referred(open, sub, o), o \in Sems => m.value[o] = 0,
           NEW n, n = Block(m, t, o)
    PROVE  ThreadPut(m, n, o, t)
<1>. DEFINE w == <<t>> \o m.queue[o]
            blk == Flagged(m.blocked, t, TRUE)
            q == Requeued(m.queue, o, w)
<1>1. /\ m \in Mems /\ m.blocked \in Flags /\ m.queue \in Queues
      /\ Linked(alive, m.blocked, m.queue, m.sub)
  BY DEF Calm, Mems
<1>2. Linked(alive, blk, q, m.sub) /\ q \in Queues
  BY <1>1, BlockLinked
<1>3. Changed(m, n, blk, Resulted(m.result, t, 0), q, m.sub)
  BY <1>1, <1>2, BlockChanges
<1>. HIDE DEF blk
<1>5. n.queue = q
  BY <1>3 DEF Changed
<1>6. n \in Mems /\ n.blocked = blk /\ n.sub = m.sub /\ n.value = m.value /\ n.failed = m.failed
  BY <1>3 DEF Changed
<1>7. Put(m, n, o, t)
  BY <1>1, <1>5, <1>6, PutFacts DEF Entries
<1>. HIDE DEF q
<1>8. Tokens(n.queue, n.value)
  BY <1>1, <1>6, <1>7, PutKeepsTokens DEF Calm
<1>9. Awaited(n.queue)
  BY <1>7 DEF Put, Calm, Awaited
<1>10. Calm(n)
  BY <1>2, <1>5, <1>6, <1>8, <1>9 DEF Calm
<1>. QED
  BY <1>6, <1>7, <1>10 DEF ThreadPut

\* Changing counters, results or the failure mark keeps the queues sound, as
\* long as no queue of a semaphore that gets tokens has entries.
LEMMA CalmCounted ==
    ASSUME NEW m, Calm(m), NEW n, NEW v, NEW f, Counted(m, n, v, f), Tokens(m.queue, v)
    PROVE  Calm(n)
BY DEF Calm, Counted

-----------------------------------------------------------------------------
(* Places in a queue, and the stack of calls.                              *)

\* What is behind y in q is the first entry once y is taken out, if y was first.
LEMMA BehindFacts ==
    ASSUME NEW q \in Seq(Entries), Distinct(q), NEW y, y \in ToSet(q),
           NEW w, w = Without(q, y)
    PROVE  /\ Behind(q, y) = None \/ Behind(q, y) \in ToSet(w)
           /\ y = Head(q) /\ w # <<>> => Behind(q, y) = Head(w)
           /\ y # Head(q) => w # <<>> /\ Head(w) = Head(q)
           /\ Behind(q, y) \in Entries \cup {None}
<1>. DEFINE at == {i \in 1 .. Len(q) : q[i] = y}
<1>0. Len(q) \in Nat /\ w \in Seq(Entries) /\ ToSet(w) = ToSet(q) \ {y}
  BY LenProperties, WithoutFacts
<1>1. PICK k : at = {k}
  BY DistinctPlaces
<1>2. k \in 1 .. Len(q) /\ q[k] = y
  BY <1>1
<1>3. w = RemoveAt(q, k)
  BY <1>1 DEF Without
<1>4. /\ Len(w) = Len(q) - 1
      /\ \A i \in 1 .. Len(q) - 1 : w[i] = IF i < k THEN q[i] ELSE q[i + 1]
  BY <1>2, <1>3, RemoveAtCells
<1>5. Behind(q, y) = IF k = Len(q) THEN None ELSE q[k + 1]
  <2>. DEFINE i == CHOOSE j \in 1 .. Len(q) : q[j] = y
  <2>1. i \in 1 .. Len(q) /\ q[i] = y
    BY <1>2
  <2>2. Behind(q, y) = IF i = Len(q) THEN None ELSE q[i + 1]
    BY DEF Behind
  <2>. HIDE DEF i
  <2>3. i = k
    BY <1>1, <2>1
  <2>. QED
    BY <2>2, <2>3
<1>6. q # <<>> /\ Head(q) = q[1]
  BY <1>2, EmptyFacts, HeadTailProperties
<1>7. w # <<>> => Head(w) = w[1]
  BY <1>0, HeadTailProperties
<1>8. y = Head(q) <=> k = 1
  <2>1. 1 \in 1 .. Len(q)
    BY <1>0, <1>2
  <2>. QED
    BY <1>1, <1>2, <1>6, <2>1
<1>9. CASE k = Len(q)
  <2>1. Behind(q, y) = None
    BY <1>5, <1>9
  <2>2. k = 1 => w = <<>>
    <3>1. k = 1 => Len(w) = 0
      BY <1>4, <1>9
    <3>. QED
      BY <1>0, <3>1, EmptyFacts
  <2>3. k # 1 => w # <<>> /\ Head(w) = Head(q)
    <3>1. k # 1 => Len(w) # 0 /\ w[1] = q[1]
      BY <1>0, <1>2, <1>4, <1>9
    <3>. QED
      BY <1>0, <1>6, <1>7, <3>1, EmptyFacts
  <2>. QED
    BY <1>8, <2>1, <2>2, <2>3
<1>10. CASE k # Len(q)
  <2>1. Behind(q, y) = q[k + 1] /\ w[k] = q[k + 1] /\ k \in 1 .. Len(w)
    BY <1>0, <1>2, <1>4, <1>5, <1>10
  <2>2. q[k + 1] \in ToSet(w)
    BY <1>0, <2>1, ToSetElement
  <2>3. q[k + 1] \in Entries
    BY <1>0, <2>2, EmptyFacts
  <2>4. w # <<>> /\ Head(w) = w[1]
    BY <1>0, <1>7, <2>1, EmptyFacts
  <2>5. k # 1 => w[1] = q[1]
    BY <1>0, <1>2, <1>4, <1>10
  <2>. QED
    BY <1>6, <1>8, <2>1, <2>2, <2>3, <2>4, <2>5
<1>. QED
  BY <1>9, <1>10

\* The stack without the innermost call.
LEMMA FrontFacts ==
    ASSUME NEW S, NEW s \in Seq(S), s # <<>>
    PROVE  /\ Front(s) \in Seq(S) /\ Len(Front(s)) = Len(s) - 1 /\ Len(s) \in Nat \ {0}
           /\ \A i \in 1 .. Len(s) - 1 : Front(s)[i] = s[i]
           /\ Last(s) \in S /\ Last(s) = s[Len(s)]
<1>1. Len(s) \in Nat \ {0}
  BY LenProperties, EmptyFacts
<1>2. Last(s) = s[Len(s)] /\ s[Len(s)] \in S
  BY <1>1, ElementOfSeq DEF Last
<1>. DEFINE n == Len(s) - 1
            f == SubSeq(s, 1, n)
<1>n. n \in Nat /\ \A i \in 1 .. n : s[i] \in S
  BY <1>1, ElementOfSeq
<1>. HIDE DEF n
<1>3. /\ f \in Seq(S) /\ Len(f) = IF 1 <= n THEN n - 1 + 1 ELSE 0
      /\ \A i \in 1 .. n - 1 + 1 : f[i] = s[1 + i - 1]
  BY <1>n, SubSeqProperties
<1>. HIDE DEF f
<1>4. f \in Seq(S) /\ Len(f) = n /\ \A i \in 1 .. n : f[i] = s[i]
  BY <1>n, <1>3
<1>. QED
  BY <1>1, <1>2, <1>4 DEF Front, f, n

\* The innermost call goes on as x.
Renewed(s, x) == Append(Front(s), x)
IsRenewed(S, s, x, r) ==
    /\ r \in Seq(S) /\ Len(r) = Len(s) /\ r[Len(s)] = x /\ Len(s) \in Nat \ {0}
    /\ \A i \in 1 .. Len(s) : i # Len(s) => r[i] = s[i]

\* A stack whose top is replaced.
LEMMA RenewedFacts ==
    ASSUME NEW S, NEW s \in Seq(S), s # <<>>, NEW x \in S
    PROVE  IsRenewed(S, s, x, Renewed(s, x))
<1>. DEFINE f == Front(s)
            r == Renewed(s, x)
<1>1. f \in Seq(S) /\ Len(f) = Len(s) - 1 /\ Len(s) \in Nat \ {0}
      /\ \A i \in 1 .. Len(s) - 1 : f[i] = s[i]
  BY FrontFacts
<1>. HIDE DEF f
<1>2. /\ r \in Seq(S) /\ Len(r) = Len(f) + 1 /\ r[Len(f) + 1] = x
      /\ \A i \in 1 .. Len(f) : r[i] = f[i]
  BY <1>1, AppendFacts DEF f, Renewed
<1>. HIDE DEF r
<1>3. IsRenewed(S, s, x, r)
  BY <1>1, <1>2 DEF IsRenewed
<1>. QED
  BY <1>3 DEF r

-----------------------------------------------------------------------------
(* Wakeups: what holds between two steps.                                  *)

Walks == [of: Objects, next: Entries \cup {None}, all: BOOLEAN, code: Codes]
WakeStates == [mem: Mems, walks: Seq(Walks)]

\* The object o is attached to the event e.
Attached(e, o) == \E x \in Subs : sub[x] # None /\ sub[x].event = e /\ sub[x].wait = o

\* A wakeup inside of another one is that of an event, for an object attached to it.
Nested(ws) ==
    \A i \in 1 .. Len(ws) : i # 1 => ws[i].of \in Events /\ Attached(ws[i].of, ws[i - 1].of)

\* The wakeups are in different queues, and each goes on at an entry of its own.
Orderly(m, ws) ==
    /\ m.failed = "none"
    /\ \A i, j \in 1 .. Len(ws) : i # j => ws[i].of # ws[j].of
    /\ \A i \in 1 .. Len(ws) : ws[i].next = None \/ ws[i].next \in ToSet(m.queue[ws[i].of])

\* The events that wake all their threads do so.
Thorough(ws) ==
    \A i \in 1 .. Len(ws) : ws[i].of \in Events /\ WakeupAll[ws[i].of] => ws[i].all = TRUE

\* One of the wakeups is about to signal the first entry of the queue of e.
Heading(m, ws, e) ==
    \E i \in 1 .. Len(ws) : ws[i].of = e /\ ws[i].next = Head(m.queue[e])

\* The sub-events of an event need not be linked in order as long as all those
\* that wait for it will be signalled.
Rousing(m, ws) ==
    \A e \in Events : WakeupAll[e] /\ m.queue[e] # <<>> =>
        InOrder(subList[e], m.sub) \/ Heading(m, ws, e)

Waking(m, ws) ==
    /\ Calm(m) /\ ws \in Seq(Walks) /\ Nested(ws) /\ Thorough(ws)
    /\ Circle(sub) \/ Orderly(m, ws)
    /\ m.failed = "none" => Rousing(m, ws)

\* A wakeup of an event for which there is one already: the events are attached
\* to each other in a circle.
LEMMA NestedCircle ==
    ASSUME NEW ws \in Seq(Walks), Nested(ws), NEW i \in 1 .. Len(ws), NEW e \in Events,
           ws[i].of = e, Attached(e, ws[Len(ws)].of)
    PROVE  Circle(sub)
<1>. DEFINE n == Len(ws)
            E == {ws[j].of : j \in {k \in 1 .. n : k >= i}}
<1>0. n \in Nat
  BY LenProperties
<1>. HIDE DEF n
<1>i. i \in 1 .. n
  BY DEF n
<1>1. \A j \in 1 .. n : j # 1 => ws[j].of \in Events /\ Attached(ws[j].of, ws[j - 1].of)
  BY DEF Nested, n
<1>2. ASSUME NEW j \in 1 .. n, j >= i
      PROVE  ws[j].of \in Events /\ ws[j].of \in E /\ \E o \in E : Attached(ws[j].of, o)
  <2>1. CASE j = i
    <3>1. ws[n].of \in E /\ ws[j].of \in E
      BY <1>0, <1>i, <2>1
    <3>. QED
      BY <2>1, <3>1 DEF n
  <2>2. CASE j # i
    <3>1. j # 1 /\ j - 1 \in 1 .. n /\ j - 1 >= i
      BY <1>0, <1>2, <2>2
    <3>2. ws[j - 1].of \in E /\ ws[j].of \in E
      BY <1>2, <3>1
    <3>. QED
      BY <1>1, <3>1, <3>2
  <2>. QED
    BY <2>1, <2>2
<1>3. E \in SUBSET Events /\ e \in E
  <2>1. e \in E
    BY <1>0, <1>i
  <2>2. \A f \in E : \E j \in 1 .. n : j >= i /\ f = ws[j].of
    OBVIOUS
  <2>. HIDE DEF E
  <2>. QED
    BY <1>2, <2>1, <2>2
<1>4. \A f \in E : \E o \in E : Attached(f, o)
  <2>2. \A f \in E : \E j \in 1 .. n : j >= i /\ f = ws[j].of
    OBVIOUS
  <2>. HIDE DEF E
  <2>. QED
    BY <1>2, <2>2
<1>. HIDE DEF E
<1>5. E \in (SUBSET Events) \ {{}}
  BY <1>3
<1>6. \A f \in E : \E x \in Subs : sub[x] # None /\ sub[x].event = f /\ sub[x].wait \in E
  BY <1>4 DEF Attached
<1>. QED
  BY <1>5, <1>6 DEF Circle

\* A wakeup ends.
LEMMA WalkEnds ==
    ASSUME NEW m, NEW ws \in Seq(Walks), ws # <<>>, Last(ws).next = None, Calm(m),
           NEW r, r = Front(ws)
    PROVE  /\ r \in Seq(Walks) /\ Len(r) = Len(ws) - 1
           /\ Nested(ws) => Nested(r)
           /\ Thorough(ws) => Thorough(r)
           /\ Orderly(m, ws) => Orderly(m, r)
           /\ Rousing(m, ws) => Rousing(m, r)
<1>. DEFINE n == Len(ws)
<1>1. /\ r \in Seq(Walks) /\ Len(r) = n - 1 /\ n \in Nat \ {0}
      /\ \A i \in 1 .. n - 1 : r[i] = ws[i]
      /\ ws[n].next = None
  BY FrontFacts
<1>. HIDE DEF n
<1>2. \A i \in 1 .. Len(r) : i \in 1 .. n /\ r[i] = ws[i] /\ (i # 1 => i - 1 \in 1 .. Len(r))
  BY <1>1
<1>3. Nested(ws) => Nested(r)
  BY <1>2 DEF Nested, n
<1>4. Thorough(ws) => Thorough(r)
  BY <1>2 DEF Thorough, n
<1>5. Orderly(m, ws) => Orderly(m, r)
  BY <1>2 DEF Orderly, n
<1>6. ASSUME NEW e \in Events, m.queue[e] # <<>>, Heading(m, ws, e)
      PROVE  Heading(m, r, e)
  <2>1. PICK i \in 1 .. n : ws[i].of = e /\ ws[i].next = Head(m.queue[e])
    BY <1>6 DEF Heading, n
  <2>2. m.queue[e] \in Seq(Entries)
    BY DEF Calm, Mems, Queues, Objects
  <2>3. Head(m.queue[e]) \in Entries /\ None \notin Entries
    BY <1>6, <2>2, HeadTailProperties, WaitObjectsAssumption DEF Entries
  <2>4. i # n
    BY <1>1, <2>1, <2>3
  <2>5. i \in 1 .. Len(r) /\ r[i] = ws[i]
    BY <1>1, <2>4
  <2>. QED
    BY <2>1, <2>5 DEF Heading
<1>7. Rousing(m, ws) => Rousing(m, r)
  BY <1>6 DEF Rousing
<1>. QED
  BY <1>1, <1>3, <1>4, <1>5, <1>7 DEF n

Further(m, l) == [l EXCEPT !.next = IF l.all THEN Behind(m.queue[l.of], l.next) ELSE None]

\* The innermost wakeup has taken the entry y out of its queue, and goes on at
\* the one that was behind it.
GoesOn(m, ws, o, n, r) ==
    /\ r \in Seq(Walks) /\ Len(r) = Len(ws) /\ r[Len(r)].of = o
    /\ Nested(ws) => Nested(r)
    /\ Thorough(ws) => Thorough(r)
    /\ Orderly(m, ws) => Orderly(n, r)
    /\ \A e \in Events : /\ Thorough(ws) /\ WakeupAll[e] /\ n.queue[e] # <<>>
                         /\ m.queue[e] # <<>> => Heading(m, ws, e)
                         => Heading(n, r, e)
    /\ \A e \in Events : n.queue[e] # <<>> => m.queue[e] # <<>>

\* The loop of queueWakeup goes on to the entry it had read before the signal:
\* that entry is still in the queue, or the walk is at the end.
LEMMA WalkGoesOn ==
    ASSUME NEW m, NEW n, NEW ws \in Seq(Walks), ws # <<>>, Calm(m), Calm(n),
           NEW o \in Objects, NEW y, o = Last(ws).of, y = Last(ws).next, y \in ToSet(m.queue[o]),
           Taken(m, n, o, y), n.failed = m.failed,
           NEW on, on = Further(m, Last(ws)), NEW r, r = Renewed(ws, on)
    PROVE  GoesOn(m, ws, o, n, r)
<1>. DEFINE k == Len(ws)
            l == Last(ws)
            q == m.queue[o]
            w == n.queue[o]
<1>1. l \in Walks /\ l = ws[k] /\ k \in Nat \ {0}
  BY FrontFacts
<1>2. q \in Seq(Entries) /\ Distinct(q) /\ w = Without(q, y) /\ w \in Seq(Entries)
      /\ ToSet(w) = ToSet(q) \ {y}
  BY DEF Calm, Mems, Queues, Linked, Taken
<1>3. /\ Behind(q, y) = None \/ Behind(q, y) \in ToSet(w)
      /\ y = Head(q) /\ w # <<>> => Behind(q, y) = Head(w)
      /\ y # Head(q) => w # <<>> /\ Head(w) = Head(q)
      /\ Behind(q, y) \in Entries \cup {None}
  BY <1>2, BehindFacts
<1>. HIDE DEF l
<1>4. /\ on \in Walks /\ on.of = o /\ on.all = l.all
      /\ on.next = IF l.all THEN Behind(q, y) ELSE None
  <2>3. l.of = o
    BY DEF l
  <2>1. on = [l EXCEPT !.next = IF l.all THEN Behind(q, y) ELSE None]
    BY DEF l, Further
  <2>2. (IF l.all THEN Behind(q, y) ELSE None) \in Entries \cup {None}
    BY <1>3
  <2>. HIDE DEF q
  <2>. QED
    BY <1>1, <2>1, <2>2, <2>3 DEF Walks
<1>5. r \in Seq(Walks) /\ Len(r) = k /\ r[k] = on
      /\ \A i \in 1 .. k : i # k => r[i] = ws[i]
  <2>1. on \in Walks
    BY <1>4
  <2>2. IsRenewed(Walks, ws, on, r)
    BY <2>1, RenewedFacts, Zenon
  <2>. QED
    BY <2>2 DEF IsRenewed
<1>6. l.of = o /\ l.next = y /\ ws[k].of = o /\ ws[k].next = y
  BY <1>1 DEF l
<1>. HIDE DEF k, q, w
<1>7. \A i \in 1 .. k : r[i].of = ws[i].of /\ r[i].all = ws[i].all
  BY <1>1, <1>4, <1>5, <1>6
<1>8. Nested(ws) => Nested(r)
  <2>. SUFFICES ASSUME Nested(ws), NEW i \in 1 .. k, i # 1
                PROVE  r[i].of \in Events /\ Attached(r[i].of, r[i - 1].of)
    BY <1>5 DEF Nested
  <2>1. i - 1 \in 1 .. k
    BY <1>1
  <2>. QED
    BY <1>7, <2>1 DEF Nested, k
<1>9. Thorough(ws) => Thorough(r)
  BY <1>5, <1>7 DEF Thorough, k
<1>10. ASSUME Orderly(m, ws) PROVE Orderly(n, r)
  <2>1. \A i, j \in 1 .. k : i # j => r[i].of # r[j].of
    BY <1>7, <1>10 DEF Orderly, k
  <2>2. ASSUME NEW i \in 1 .. k
        PROVE  r[i].next = None \/ r[i].next \in ToSet(n.queue[r[i].of])
    <3>1. CASE i = k
      BY <1>3, <1>4, <1>5, <3>1 DEF w
    <3>2. CASE i # k
      <4>1. r[i] = ws[i] /\ ws[i].of # o
        BY <1>1, <1>5, <1>6, <1>10, <3>2 DEF Orderly, k
      <4>2. ws[i].next = None \/ ws[i].next \in ToSet(m.queue[ws[i].of])
        BY <1>10 DEF Orderly, k
      <4>3. ws[i].of \in Objects
        <5>1. ws[i] \in Walks
          BY <1>1, ElementOfSeq DEF k
        <5>. QED
          BY <5>1 DEF Walks
      <4>4. n.queue[ws[i].of] = m.queue[ws[i].of]
        BY <4>1, <4>3 DEF Taken
      <4>. QED
        BY <4>1, <4>2, <4>4
    <3>. QED
      BY <3>1, <3>2
  <2>. QED
    BY <1>5, <1>10, <2>1, <2>2 DEF Orderly
<1>11. ASSUME NEW e \in Events, n.queue[e] # <<>> PROVE m.queue[e] # <<>>
  <2>1. e \in Objects /\ m.queue[e] \in Seq(Entries) /\ n.queue[e] \in Seq(Entries)
    BY DEF Calm, Mems, Queues, Objects
  <2>2. ToSet(n.queue[e]) \subseteq ToSet(m.queue[e])
    BY <2>1 DEF Taken
  <2>3. m.queue[e] = <<>> => ToSet(m.queue[e]) = {}
    BY <2>1, EmptyFacts
  <2>4. ToSet(n.queue[e]) # {}
    BY <1>11, <2>1, EmptyFacts
  <2>. QED
    BY <2>2, <2>3, <2>4
<1>12. ASSUME NEW e \in Events, Thorough(ws), WakeupAll[e], n.queue[e] # <<>>, Heading(m, ws, e)
       PROVE  Heading(n, r, e)
  <2>1. PICK i \in 1 .. k : ws[i].of = e /\ ws[i].next = Head(m.queue[e])
    BY <1>12 DEF Heading, k
  <2>2. CASE e # o
    <3>1. i # k /\ r[i] = ws[i]
      BY <1>5, <1>6, <2>1, <2>2
    <3>2. n.queue[e] = m.queue[e]
      BY <2>2 DEF Taken, Objects
    <3>. QED
      BY <1>5, <2>1, <3>1, <3>2 DEF Heading
  <2>3. CASE e = o /\ y = Head(q)
    <3>1. l.all = TRUE
      BY <1>1, <1>6, <1>12, <2>3 DEF Thorough, k
    <3>2. r[k].of = e /\ r[k].next = Head(w) /\ k \in 1 .. k
      BY <1>1, <1>3, <1>4, <1>5, <1>12, <2>3, <3>1 DEF w
    <3>. QED
      BY <1>5, <2>3, <3>2 DEF Heading, w
  <2>4. CASE e = o /\ y # Head(q)
    <3>1. i # k /\ r[i] = ws[i]
      BY <1>5, <1>6, <2>1, <2>4 DEF q
    <3>2. Head(w) = Head(q)
      BY <1>3, <2>4
    <3>. QED
      BY <1>5, <2>1, <2>4, <3>1, <3>2 DEF Heading, q, w
  <2>. QED
    BY <2>2, <2>3, <2>4
<1>. QED
  BY <1>4, <1>5, <1>8, <1>9, <1>10, <1>11, <1>12 DEF k, GoesOn

\* The threads and sub-events that can still be signalled.
Sleepers(m) == {u \in Threads : u \in alive /\ m.blocked[u]}
Links(m) == {x \in Subs : m.sub[x] # None /\ m.sub[x].blocked}
Effort(m, ws) == Cardinality(Sleepers(m)) + 2 * Cardinality(Links(m)) + Len(ws)

\* There are finitely many threads and sub-events to signal.
LEMMA FiniteSleepers ==
    ASSUME NEW m
    PROVE  /\ IsFiniteSet(Sleepers(m)) /\ Cardinality(Sleepers(m)) \in Nat
           /\ Cardinality(Sleepers(m)) <= Cardinality(Threads) /\ Cardinality(Threads) \in Nat
           /\ IsFiniteSet(Links(m)) /\ Cardinality(Links(m)) \in Nat
           /\ Cardinality(Links(m)) <= Cardinality(Subs) /\ Cardinality(Subs) \in Nat
<1>1. Sleepers(m) \in SUBSET Threads /\ Links(m) \in SUBSET Subs
  BY DEF Sleepers, Links
<1>2. IsFiniteSet(Threads) /\ IsFiniteSet(Subs)
  BY WaitObjectsAssumption
<1>3. /\ IsFiniteSet(Sleepers(m)) /\ IsFiniteSet(Links(m))
      /\ Cardinality(Sleepers(m)) <= Cardinality(Threads)
      /\ Cardinality(Links(m)) <= Cardinality(Subs)
  BY <1>1, <1>2, FS_Subset
<1>. QED
  BY <1>2, <1>3, FS_CardinalityType

\* The measure is a number.
LEMMA EffortNat ==
    ASSUME NEW m, NEW ws \in Seq(Walks)
    PROVE  Effort(m, ws) \in Nat
<1>1. Len(ws) \in Nat
  BY LenProperties
<1>. QED
  BY <1>1, FiniteSleepers DEF Effort

\* A finite set without one of its elements has one element less.
LEMMA OneLess ==
    ASSUME NEW S, IsFiniteSet(S), NEW x \in S, NEW T, T = S \ {x}
    PROVE  Cardinality(T) = Cardinality(S) - 1
BY FS_RemoveElement

\* One more step is done.
Moves(m, ws, n, r) == Waking(n, r) /\ Effort(n, r) + 1 <= Effort(m, ws)

\* A walk that has reached the end of its queue returns to the one it was
\* called from, and the measure decreases.
LEMMA EndMoves ==
    ASSUME NEW m, NEW ws, Waking(m, ws), ws # <<>>, Last(ws).next = None, NEW r, r = Front(ws)
    PROVE  Moves(m, ws, m, r)
<1>1. /\ Calm(m) /\ ws \in Seq(Walks) /\ Nested(ws) /\ Thorough(ws)
      /\ Circle(sub) \/ Orderly(m, ws)
      /\ m.failed = "none" => Rousing(m, ws)
  BY DEF Waking
<1>2. /\ r \in Seq(Walks) /\ Len(r) = Len(ws) - 1
      /\ Nested(ws) => Nested(r)
      /\ Thorough(ws) => Thorough(r)
      /\ Orderly(m, ws) => Orderly(m, r)
      /\ Rousing(m, ws) => Rousing(m, r)
  BY <1>1, WalkEnds
<1>3. Waking(m, r)
  BY <1>1, <1>2 DEF Waking
<1>4. Effort(m, r) + 1 <= Effort(m, ws)
  <2>1. Len(ws) \in Nat
    BY <1>1, LenProperties
  <2>. QED
    BY <1>2, <2>1, FiniteSleepers DEF Effort
<1>. QED
  BY <1>3, <1>4 DEF Moves

\* The wakeup meets an entry that is not in its queue any more.
LEMMA LeftMoves ==
    ASSUME NEW m, NEW ws, Waking(m, ws), ws # <<>>, NEW l, l = Last(ws), l.next # None,
           l.next \notin ToSet(m.queue[l.of]), NEW f, f = [m EXCEPT !.failed = "left"]
    PROVE  Moves(m, ws, f, <<>>)
<1>1. /\ Calm(m) /\ ws \in Seq(Walks) /\ m \in Mems
      /\ Circle(sub) \/ Orderly(m, ws)
  BY DEF Waking, Calm
<1>2. l = ws[Len(ws)] /\ Len(ws) \in Nat \ {0}
  BY <1>1, FrontFacts
<1>3. Circle(sub)
  <2>1. Len(ws) \in 1 .. Len(ws)
    BY <1>2
  <2>. QED
    BY <1>1, <1>2, <2>1 DEF Orderly
<1>4. Counted(m, f, m.value, "left")
  BY <1>1, FailedCounted
<1>5. Calm(f)
  <2>1. Tokens(m.queue, m.value)
    BY <1>1 DEF Calm
  <2>. QED
    BY <1>1, <1>4, <2>1, CalmCounted, Zenon
<1>6. f.failed = "left" /\ f.blocked = m.blocked /\ f.sub = m.sub
  BY <1>4 DEF Counted
<1>7. <<>> \in Seq(Walks) /\ Len(<<>>) = 0
  OBVIOUS
<1>8. Nested(<<>>) /\ Thorough(<<>>)
  BY DEF Nested, Thorough
<1>9. Waking(f, <<>>)
  BY <1>3, <1>5, <1>6, <1>7, <1>8 DEF Waking
<1>10. Sleepers(f) = Sleepers(m) /\ Links(f) = Links(m)
  BY <1>6 DEF Sleepers, Links
<1>11. Effort(f, <<>>) + 1 <= Effort(m, ws)
  <2>1. /\ Effort(f, <<>>) = Cardinality(Sleepers(m)) + 2 * Cardinality(Links(m)) + 0
        /\ Effort(m, ws) = Cardinality(Sleepers(m)) + 2 * Cardinality(Links(m)) + Len(ws)
    BY <1>7, <1>10 DEF Effort
  <2>. QED
    BY <1>2, <2>1, FiniteSleepers
<1>. QED
  BY <1>9, <1>11 DEF Moves

\* A thread is signalled.
LEMMA ThreadMoves ==
    ASSUME NEW m, NEW ws, Waking(m, ws), ws # <<>>, NEW l, l = Last(ws),
           NEW o, o = l.of, NEW y, y = l.next, y \in ToSet(m.queue[o]), y \in Threads,
           NEW c, c = l.code, NEW n, n = SignalThread(m, o, y, c),
           NEW r, r = Renewed(ws, Further(m, l))
    PROVE  Moves(m, ws, n, r)
<1>1. /\ Calm(m) /\ ws \in Seq(Walks) /\ Nested(ws) /\ Thorough(ws)
      /\ Circle(sub) \/ Orderly(m, ws)
      /\ m.failed = "none" => Rousing(m, ws)
  BY DEF Waking
<1>2. l \in Walks
  BY <1>1, FrontFacts
<1>3. o \in Objects /\ c \in Codes
  BY <1>2 DEF Walks
<1>4. /\ Calm(n) /\ Taken(m, n, o, y)
      /\ n.blocked = Flagged(m.blocked, y, FALSE) /\ n.sub = m.sub /\ n.failed = m.failed
  <2>1. ThreadWoken(m, n, o, y)
    BY <1>1, <1>3, CalmSignalThread
  <2>. QED
    BY <2>1 DEF ThreadWoken
<1>6. GoesOn(m, ws, o, n, r)
  BY <1>1, <1>3, <1>4, WalkGoesOn, Zenon
<1>7. m.failed = "none" => Rousing(n, r)
  BY <1>1, <1>4, <1>6 DEF Rousing, GoesOn
<1>9. Waking(n, r)
  BY <1>1, <1>4, <1>6, <1>7 DEF Waking, GoesOn
<1>10. Cardinality(Sleepers(n)) = Cardinality(Sleepers(m)) - 1 /\ Links(n) = Links(m)
  <2>1. y \in Sleepers(m)
    BY <1>1, <1>3 DEF Calm, Linked, Sleepers
  <2>2. m.blocked \in Flags
    BY <1>1 DEF Calm, Mems
  <2>3. ~n.blocked[y] /\ \A v \in Threads : v # y => n.blocked[v] = m.blocked[v]
    BY <1>4, <2>2 DEF Flagged, Flags
  <2>4. Sleepers(n) = Sleepers(m) \ {y}
    BY <2>3 DEF Sleepers
  <2>5. Links(n) = Links(m)
    BY <1>4 DEF Links
  <2>6. Cardinality(Sleepers(n)) = Cardinality(Sleepers(m)) - 1
    <3>1. IsFiniteSet(Sleepers(m))
      BY FiniteSleepers
    <3>. QED
      BY <2>1, <2>4, <3>1, OneLess, Zenon
  <2>. QED
    BY <2>5, <2>6
<1>11. Effort(n, r) + 1 <= Effort(m, ws)
  <2>1. Len(ws) \in Nat /\ Len(r) = Len(ws)
    BY <1>1, <1>6, LenProperties DEF GoesOn
  <2>. QED
    BY <1>10, <2>1, FiniteSleepers DEF Effort
<1>. QED
  BY <1>9, <1>11 DEF Moves

\* The lists of sub-events are what the calls find.
Lists == sub \in SubMemory /\ subList \in [Events -> Seq(Subs)] /\ Listed(subList, sub)

\* A sub-event that is not in the list of e does not change its order.
LEMMA OrderKept ==
    ASSUME Lists, NEW sb \in SubMemory, NEW x \in Subs, sb[x] # None, NEW b \in BOOLEAN,
           NEW e \in Events, e # sub[x].event, sub[x] # None, InOrder(subList[e], sb)
    PROVE  InOrder(subList[e], Marked(sb, x, b))
<1>. DEFINE s == subList[e]
            s2 == Marked(sb, x, b)
<1>1. s \in Seq(Subs) /\ x \notin ToSet(s)
  BY DEF Lists, Listed
<1>2. \A y \in Subs : y # x => s2[y] = sb[y]
  BY MarkedFacts
<1>. HIDE DEF s2
<1>3. \A i \in 1 .. Len(s) : s[i] \in Subs /\ s[i] # x
  BY <1>1, ToSetElement, ElementOfSeq
<1>. HIDE DEF s
<1>4. \A i \in 1 .. Len(s) : s2[s[i]] = sb[s[i]]
  BY <1>2, <1>3
<1>5. InOrder(s, sb)
  BY DEF s
<1>6. InOrder(s, s2)
  BY <1>4, <1>5 DEF InOrder
<1>. QED
  BY <1>6 DEF s, s2

\* A wakeup inside of the others begins, for the event e.
Begun(m, ws, e, r) ==
    /\ r \in Seq(Walks) /\ Nested(r) /\ Thorough(r) /\ Len(r) = Len(ws) + 1
    /\ Circle(sub) \/ Orderly(m, ws) => Circle(sub) \/ Orderly(m, r)
    /\ \A f \in Events : Heading(m, ws, f) => Heading(m, r, f)
    /\ m.queue[e] # <<>> => Heading(m, r, e)

\* The nested queueWakeup of a sub-event starts with the first waiter of its event.
LEMMA WalkBegins ==
    ASSUME NEW m, NEW ws \in Seq(Walks), Calm(m), Nested(ws), Thorough(ws), Len(ws) # 0,
           NEW e \in Events, Attached(e, ws[Len(ws)].of),
           NEW code \in Codes, NEW w, w = Walk(m, e, WakeupAll[e], code),
           NEW r, r = Append(ws, w)
    PROVE  Begun(m, ws, e, r)
<1>. DEFINE k == Len(ws)
<1>0. k \in Nat \ {0} /\ e \in Objects
  BY LenProperties DEF Objects
<1>1. m.queue[e] \in Seq(Entries)
  BY <1>0 DEF Calm, Mems, Queues
<1>2. /\ m.queue[e] # <<>> => HeadOf(m.queue[e]) \in Entries
                              /\ HeadOf(m.queue[e]) \in ToSet(m.queue[e])
                              /\ HeadOf(m.queue[e]) = Head(m.queue[e])
      /\ m.queue[e] = <<>> => HeadOf(m.queue[e]) = None
  <2>1. Distinct(m.queue[e])
    BY <1>0 DEF Calm, Linked
  <2>2. m.queue[e] # <<>> => Head(m.queue[e]) \in ToSet(m.queue[e])
    BY <1>1, <2>1, TailFacts
  <2>3. ToSet(m.queue[e]) \subseteq Entries
    BY <1>1, EmptyFacts
  <2>. QED
    BY <2>2, <2>3 DEF HeadOf
<1>3. /\ w \in Walks /\ w.of = e /\ w.next = HeadOf(m.queue[e]) /\ w.all = WakeupAll[e]
  BY <1>0, <1>2, WaitObjectsAssumption DEF Walk, Walks
<1>4. r \in Seq(Walks) /\ Len(r) = k + 1 /\ r[k + 1] = w /\ \A i \in 1 .. k : r[i] = ws[i]
  BY <1>3, AppendFacts
<1>. HIDE DEF k
<1>5. Nested(r)
  <2>. SUFFICES ASSUME NEW i \in 1 .. k + 1, i # 1
                PROVE  r[i].of \in Events /\ Attached(r[i].of, r[i - 1].of)
    BY <1>4 DEF Nested
  <2>1. CASE i = k + 1
    <3>1. i - 1 = k /\ r[k] = ws[k]
      BY <1>0, <1>4, <2>1
    <3>. QED
      BY <1>3, <1>4, <2>1, <3>1 DEF k
  <2>2. CASE i # k + 1
    <3>1. i \in 1 .. k /\ i - 1 \in 1 .. k
      BY <1>0, <2>2
    <3>. QED
      BY <1>4, <3>1 DEF Nested, k
  <2>. QED
    BY <2>1, <2>2
<1>6. Thorough(r)
  <2>. SUFFICES ASSUME NEW i \in 1 .. k + 1, r[i].of \in Events, WakeupAll[r[i].of]
                PROVE  r[i].all = TRUE
    BY <1>4 DEF Thorough
  <2>1. CASE i = k + 1
    BY <1>3, <1>4, <2>1, WaitObjectsAssumption
  <2>2. CASE i # k + 1
    <3>1. i \in 1 .. k
      BY <1>0, <2>2
    <3>. QED
      BY <1>4, <3>1 DEF Thorough, k
  <2>. QED
    BY <2>1, <2>2
<1>7. ASSUME ~Circle(sub), Orderly(m, ws) PROVE Orderly(m, r)
  <2>1. \A i \in 1 .. k : ws[i].of # e
    BY <1>7, NestedCircle DEF k
  <2>2. ASSUME NEW i \in 1 .. k + 1, NEW j \in 1 .. k + 1, i # j PROVE r[i].of # r[j].of
    <3>1. CASE i = k + 1
      <4>1. j \in 1 .. k
        BY <1>0, <2>2, <3>1
      <4>. QED
        BY <1>3, <1>4, <2>1, <3>1, <4>1
    <3>2. CASE j = k + 1
      <4>1. i \in 1 .. k
        BY <1>0, <2>2, <3>2
      <4>. QED
        BY <1>3, <1>4, <2>1, <3>2, <4>1
    <3>3. CASE i # k + 1 /\ j # k + 1
      <4>1. i \in 1 .. k /\ j \in 1 .. k
        BY <1>0, <3>3
      <4>. QED
        BY <1>4, <1>7, <2>2, <4>1 DEF Orderly, k
    <3>. QED
      BY <3>1, <3>2, <3>3
  <2>3. ASSUME NEW i \in 1 .. k + 1
        PROVE  r[i].next = None \/ r[i].next \in ToSet(m.queue[r[i].of])
    <3>1. CASE i = k + 1
      BY <1>2, <1>3, <1>4, <3>1
    <3>2. CASE i # k + 1
      <4>1. i \in 1 .. k
        BY <1>0, <3>2
      <4>. QED
        BY <1>4, <1>7, <4>1 DEF Orderly, k
    <3>. QED
      BY <3>1, <3>2
  <2>. QED
    BY <1>4, <1>7, <2>2, <2>3 DEF Orderly
<1>8. ASSUME NEW f \in Events, Heading(m, ws, f) PROVE Heading(m, r, f)
  <2>1. PICK i \in 1 .. k : ws[i].of = f /\ ws[i].next = Head(m.queue[f])
    BY <1>8 DEF Heading, k
  <2>2. i \in 1 .. Len(r)
    BY <1>0, <1>4
  <2>. QED
    BY <1>4, <2>1, <2>2 DEF Heading
<1>9. ASSUME m.queue[e] # <<>> PROVE Heading(m, r, e)
  <2>1. k + 1 \in 1 .. Len(r)
    BY <1>0, <1>4
  <2>. QED
    BY <1>2, <1>3, <1>4, <1>9, <2>1 DEF Heading
<1>. QED
  BY <1>4, <1>5, <1>6, <1>7, <1>8, <1>9 DEF k, Begun

\* A sub-event is signalled: its event wakes up those that wait for it.
LEMMA SubMoves ==
    ASSUME Lists, NEW m, NEW ws, Waking(m, ws), ws # <<>>, NEW l, l = Last(ws),
           NEW o, o = l.of, NEW x, x = l.next, x \in ToSet(m.queue[o]), x \in Subs,
           NEW n, n = SignalSub(m, o, x), NEW r, r = Renewed(ws, Further(m, l)),
           NEW r2, r2 = Append(r, WakeSub(n, x))
    PROVE  Moves(m, ws, n, r2)
<1>. DEFINE e == sub[x].event
            w == WakeSub(n, x)
<1>1. /\ Calm(m) /\ ws \in Seq(Walks) /\ Nested(ws) /\ Thorough(ws)
      /\ Circle(sub) \/ Orderly(m, ws)
      /\ m.failed = "none" => Rousing(m, ws)
  BY DEF Waking
<1>2. l \in Walks /\ Len(ws) \in Nat \ {0}
  BY <1>1, FrontFacts
<1>3. o \in Objects /\ o \in Codes
  BY <1>2 DEF Walks, Codes
<1>4. /\ Calm(n) /\ Taken(m, n, o, x)
      /\ n.blocked = m.blocked /\ n.sub = Marked(m.sub, x, FALSE) /\ n.failed = m.failed
      /\ sub[x] # None /\ sub[x].wait = o /\ m.sub[x].blocked
      /\ m.sub[x] # None /\ m.sub[x].event = sub[x].event
  <2>1. SubWoken(m, n, o, x)
    BY <1>1, <1>3, CalmSignalSub
  <2>. QED
    BY <2>1 DEF SubWoken
<1>5. GoesOn(m, ws, o, n, r)
  BY <1>1, <1>3, <1>4, WalkGoesOn, Zenon
<1>6. e \in Events /\ Attached(e, o)
  BY <1>4 DEF Lists, SubMemory, SubEvent, Attached
<1>7. w = Walk(n, e, WakeupAll[e], o)
  <2>1. n.sub[x].event = e /\ n.sub[x].wait = o
    BY <1>4 DEF Calm, Same
  <2>. QED
    BY <2>1 DEF WakeSub
<1>8. /\ r \in Seq(Walks) /\ Nested(r) /\ Thorough(r) /\ Len(r) = Len(ws) /\ r[Len(r)].of = o
      /\ Orderly(m, ws) => Orderly(n, r)
  BY <1>1, <1>5 DEF GoesOn
<1>9. r2 = Append(r, w)
  OBVIOUS
<1>. HIDE DEF w, e
<1>10. /\ r2 \in Seq(Walks) /\ Nested(r2) /\ Thorough(r2) /\ Len(r2) = Len(r) + 1
       /\ Circle(sub) \/ Orderly(n, r) => Circle(sub) \/ Orderly(n, r2)
       /\ \A f \in Events : Heading(n, r, f) => Heading(n, r2, f)
       /\ n.queue[e] # <<>> => Heading(n, r2, e)
  <2>1. Begun(n, r, e, r2)
    <3>1. Attached(e, r[Len(r)].of) /\ Len(r) # 0
      BY <1>2, <1>6, <1>8
    <3>. QED
      BY <1>3, <1>4, <1>6, <1>7, <1>8, <1>9, <3>1, WalkBegins, Zenon
  <2>. QED
    BY <2>1 DEF Begun
<1>11. ASSUME m.failed = "none" PROVE Rousing(n, r2)
  <2>. SUFFICES ASSUME NEW f \in Events, WakeupAll[f], n.queue[f] # <<>>
                PROVE  InOrder(subList[f], n.sub) \/ Heading(n, r2, f)
    BY DEF Rousing
  <2>1. CASE f = e
    BY <1>10, <2>1
  <2>2. CASE f # e
    <3>1. m.queue[f] # <<>>
      BY <1>5 DEF GoesOn
    <3>2. CASE Heading(m, ws, f)
      BY <1>1, <1>5, <1>10, <3>2 DEF GoesOn
    <3>3. CASE InOrder(subList[f], m.sub)
      <4>1. m.sub \in SubMemory
        BY <1>1 DEF Calm, Mems
      <4>. QED
        BY <1>4, <2>2, <3>3, <4>1, OrderKept DEF e
    <3>. QED
      BY <1>1, <1>11, <3>1, <3>2, <3>3 DEF Rousing
  <2>. QED
    BY <2>1, <2>2
<1>12. Waking(n, r2)
  BY <1>1, <1>4, <1>8, <1>10, <1>11 DEF Waking
<1>13. Cardinality(Links(n)) = Cardinality(Links(m)) - 1 /\ Sleepers(n) = Sleepers(m)
  <2>1. x \in Links(m)
    BY <1>4 DEF Links
  <2>2. m.sub \in SubMemory
    BY <1>1 DEF Calm, Mems
  <2>3. ~n.sub[x].blocked /\ \A y \in Subs : y # x => n.sub[y] = m.sub[y]
    <3>. DEFINE sb == m.sub
                s2 == Marked(sb, x, FALSE)
    <3>1. sb \in SubMemory /\ sb[x] # None
      BY <1>4, <2>2
    <3>. HIDE DEF sb
    <3>2. s2[x].blocked = FALSE /\ \A y \in Subs : y # x => s2[y] = sb[y]
      BY <3>1, MarkedFacts
    <3>. HIDE DEF s2
    <3>3. n.sub = s2
      BY <1>4 DEF s2, sb
    <3>. QED
      BY <3>2, <3>3 DEF sb
  <2>4. Links(n) = Links(m) \ {x}
    BY <2>3 DEF Links
  <2>5. Sleepers(n) = Sleepers(m)
    BY <1>4 DEF Sleepers
  <2>6. Cardinality(Links(n)) = Cardinality(Links(m)) - 1
    <3>1. IsFiniteSet(Links(m))
      BY FiniteSleepers
    <3>. QED
      BY <2>1, <2>4, <3>1, OneLess
  <2>. QED
    BY <2>5, <2>6
<1>14. Effort(n, r2) + 1 <= Effort(m, ws)
  <2>1. /\ Effort(n, r2) = Cardinality(Sleepers(m)) + 2 * (Cardinality(Links(m)) - 1) + (Len(ws) + 1)
        /\ Effort(m, ws) = Cardinality(Sleepers(m)) + 2 * Cardinality(Links(m)) + Len(ws)
    BY <1>8, <1>10, <1>13 DEF Effort
  <2>. QED
    BY <1>2, <2>1, FiniteSleepers
<1>. QED
  BY <1>12, <1>14 DEF Moves

\* One step of a wakeup.
LEMMA WakeStepMoves ==
    ASSUME Lists, NEW s \in WakeStates, Waking(s.mem, s.walks)
    PROVE  /\ WakeStep(s) \in WakeStates
           /\ s.walks = <<>> => WakeStep(s) = s
           /\ s.walks # <<>> => Moves(s.mem, s.walks, WakeStep(s).mem, WakeStep(s).walks)
<1>. DEFINE m == s.mem
            ws == s.walks
            l == Last(ws)
<1>0. s = [mem |-> m, walks |-> ws] /\ ws \in Seq(Walks)
  BY DEF WakeStates
<1>. HIDE DEF m, ws, l
<1>w. Waking(m, ws)
  BY DEF m, ws
<1>1. CASE ws = <<>>
  <2>1. WakeStep(s) = s
    BY <1>1 DEF WakeStep, ws
  <2>. QED
    BY <1>1, <2>1 DEF ws
<1>2. CASE ws # <<>> /\ l.next = None
  <2>0. s.walks # <<>> /\ Last(s.walks).next = None
    BY <1>2 DEF ws, l
  <2>1. WakeStep(s) = [s EXCEPT !.walks = Front(ws)]
    BY <2>0, WaitObjectsAssumption DEF WakeStep, ws
  <2>2. Moves(m, ws, m, Front(ws))
    BY <1>2, <1>w, EndMoves DEF l
  <2>3. Front(ws) \in Seq(Walks)
    BY <2>2 DEF Moves, Waking
  <2>4. WakeStep(s).mem = m /\ WakeStep(s).walks = Front(ws) /\ WakeStep(s) \in WakeStates
    BY <2>1, <2>3 DEF WakeStates, m
  <2>. QED
    BY <1>2, <2>2, <2>4 DEF m, ws
<1>3. CASE ws # <<>> /\ l.next # None /\ l.next \notin ToSet(m.queue[l.of])
  <2>. DEFINE f == [m EXCEPT !.failed = "left"]
  <2>1. WakeStep(s) = [mem |-> f, walks |-> <<>>]
    BY <1>3 DEF WakeStep, ws, l, m
  <2>2. Moves(m, ws, f, <<>>)
    BY <1>3, <1>w, LeftMoves DEF l
  <2>. HIDE DEF f
  <2>3. f \in Mems /\ <<>> \in Seq(Walks)
    BY <2>2 DEF Moves, Waking, Calm
  <2>4. WakeStep(s).mem = f /\ WakeStep(s).walks = <<>> /\ WakeStep(s) \in WakeStates
    BY <2>1, <2>3 DEF WakeStates
  <2>. QED
    BY <1>3, <2>2, <2>4 DEF m, ws
<1>4. ASSUME ws # <<>>, l.next # None, l.next \in ToSet(m.queue[l.of]), l.next \in Threads
      PROVE  WakeStep(s) \in WakeStates /\ Moves(m, ws, WakeStep(s).mem, WakeStep(s).walks)
  <2>. DEFINE n == SignalThread(m, l.of, l.next, l.code)
              r == Renewed(ws, Further(m, l))
  <2>1. WakeStep(s) = [mem |-> n, walks |-> r]
    BY <1>4, WaitObjectsAssumption DEF WakeStep, ws, l, m, Renewed, Further
  <2>2. Moves(m, ws, n, r)
    BY <1>4, <1>w, ThreadMoves DEF l
  <2>. HIDE DEF n, r
  <2>3. n \in Mems /\ r \in Seq(Walks)
    BY <2>2 DEF Moves, Waking, Calm
  <2>4. WakeStep(s).mem = n /\ WakeStep(s).walks = r /\ WakeStep(s) \in WakeStates
    BY <2>1, <2>3 DEF WakeStates
  <2>. QED
    BY <2>2, <2>4
<1>5. ASSUME ws # <<>>, l.next # None, l.next \in ToSet(m.queue[l.of]), l.next \in Subs
      PROVE  WakeStep(s) \in WakeStates /\ Moves(m, ws, WakeStep(s).mem, WakeStep(s).walks)
  <2>. DEFINE n == SignalSub(m, l.of, l.next)
              r == Append(Renewed(ws, Further(m, l)), WakeSub(n, l.next))
  <2>1. WakeStep(s) = [mem |-> n, walks |-> r]
    BY <1>5, ThreadsNoSubs DEF WakeStep, ws, l, m, Renewed, Further
  <2>2. Moves(m, ws, n, r)
    BY <1>5, <1>w, SubMoves DEF l
  <2>. HIDE DEF n, r
  <2>3. n \in Mems /\ r \in Seq(Walks)
    BY <2>2 DEF Moves, Waking, Calm
  <2>4. WakeStep(s).mem = n /\ WakeStep(s).walks = r /\ WakeStep(s) \in WakeStates
    BY <2>1, <2>3 DEF WakeStates
  <2>. QED
    BY <2>2, <2>4
<1>6. ws # <<>> => l.next \in Threads \/ l.next \in Subs \/ l.next = None
  <2>1. ws # <<>> => l \in Walks
    BY <1>0, FrontFacts DEF l
  <2>. QED
    BY <2>1 DEF Walks, Entries
<1>. QED
  BY <1>1, <1>2, <1>3, <1>4, <1>5, <1>6 DEF m, ws

\* What holds of the memory after a call.
Done(m) ==
    /\ Calm(m)
    /\ m.failed # "none" => Circle(sub)
    /\ m.failed = "none" => Armed(m.queue, subList, m.sub)

\* How many steps a wakeup can have.
WakeSteps == Cardinality(Threads) + 2 * Cardinality(Subs) + 1

\* What Wakeup computes: there is a state after each of its steps.
LEMMA WakeupRuns ==
    ASSUME Lists, NEW s \in WakeStates, Waking(s.mem, s.walks), NEW n \in Nat
    PROVE  \E f : /\ f[0] = s
                  /\ \A i \in 1 .. n : f[i] = WakeStep(f[i - 1])
                  /\ Iterate(WakeStep, s, n) = f[n]
<1>. DEFINE G == {x \in WakeStates : Waking(x.mem, x.walks)}
            F == [z \in G \X (1 .. n) |-> WakeStep(z[1])]
            Step(f) == [i \in 0 .. n |-> IF i = 0 THEN s ELSE WakeStep(f[i - 1])]
            after == CHOOSE f : f = Step(f)
<1>0. s \in G
  OBVIOUS
<1>1. Loop(G, n, F)
  <2>. SUFFICES ASSUME NEW x \in G
                PROVE  WakeStep(x) \in G
    BY DEF Loop
  <2>1. /\ WakeStep(x) \in WakeStates
        /\ x.walks = <<>> => WakeStep(x) = x
        /\ x.walks # <<>> => Moves(x.mem, x.walks, WakeStep(x).mem, WakeStep(x).walks)
    BY WakeStepMoves
  <2>. QED
    BY <2>1 DEF Moves
<1>2. PICK h : RunOf(G, n, F, s, h)
  <2>. HIDE DEF F, G
  <2>. QED
    BY <1>0, <1>1, LoopRuns
<1>h. /\ h \in [0 .. n -> G] /\ h[0] = s
      /\ \A i \in 1 .. n : h[i] = F[<<h[i - 1], i>>]
  BY <1>2 DEF RunOf
<1>3. \A i \in 1 .. n : h[i] = WakeStep(h[i - 1])
  <2>. SUFFICES ASSUME NEW i \in 1 .. n
                PROVE  F[<<h[i - 1], i>>] = WakeStep(h[i - 1])
    BY <1>h
  <2>1. h[i - 1] \in G
    BY <1>h
  <2>. HIDE DEF G
  <2>. QED
    BY <2>1
<1>4. h = Step(h)
  <2>1. \A i \in 0 .. n : i # 0 => i \in 1 .. n
    OBVIOUS
  <2>. QED
    BY <1>h, <1>3, <2>1
<1>5. after = Step(after)
  BY <1>4
<1>. HIDE DEF after
<1>6. after[0] = s /\ \A i \in 1 .. n : after[i] = WakeStep(after[i - 1])
  <2>1. 0 \in 0 .. n /\ \A i \in 1 .. n : i \in 0 .. n /\ i # 0
    OBVIOUS
  <2>. DEFINE g == Step(after)
  <2>2. g[0] = s /\ \A i \in 1 .. n : g[i] = WakeStep(after[i - 1])
    BY <2>1
  <2>. HIDE DEF g
  <2>3. after = g
    BY <1>5 DEF g
  <2>. QED
    BY <2>2, <2>3
<1>7. Iterate(WakeStep, s, n) = after[n]
  BY Zenon DEF Iterate, after
<1>. QED
  BY <1>6, <1>7

\* A wakeup leaves nothing undone, and nobody's queue is left while in it unless
\* the events are attached in a circle.
LEMMA WakeupDone ==
    ASSUME Lists, NEW m, Calm(m), m.failed = "none", Armed(m.queue, subList, m.sub),
           NEW o \in Objects, NEW all \in BOOLEAN, NEW code \in Codes,
           o \in Events /\ WakeupAll[o] => all = TRUE
    PROVE  Done(Wakeup(m, o, all, code))
<1>. DEFINE w == Walk(m, o, all, code)
            ws == <<w>>
            s == [mem |-> m, walks |-> ws]
            n == WakeSteps
<1>1. /\ w \in Walks /\ w.of = o /\ w.all = all
      /\ w.next = None \/ w.next \in ToSet(m.queue[o])
  <2>1. m.queue[o] \in Seq(Entries) /\ Distinct(m.queue[o])
    BY DEF Calm, Mems, Queues, Linked
  <2>2. m.queue[o] # <<>> => Head(m.queue[o]) \in ToSet(m.queue[o])
    BY <2>1, TailFacts
  <2>3. ToSet(m.queue[o]) \subseteq Entries
    BY <2>1, EmptyFacts
  <2>. QED
    BY <2>2, <2>3 DEF Walk, Walks, HeadOf
<1>. HIDE DEF w
<1>2. ws \in Seq(Walks) /\ Len(ws) = 1 /\ ws[1] = w
  <2>1. w \in Walks
    BY <1>1
  <2>2. ws \in Seq(Walks) /\ Len(ws) = 1
    BY <2>1, SingletonFacts
  <2>3. ws[1] = w
    OBVIOUS
  <2>. QED
    BY <2>2, <2>3
<1>. HIDE DEF ws
<1>3. Waking(m, ws)
  <2>0. \A i \in 1 .. Len(ws) : i = 1 /\ ws[i] = w
    BY <1>2
  <2>1. Nested(ws) /\ Thorough(ws) /\ Orderly(m, ws)
    <3>1. Nested(ws)
      BY <2>0 DEF Nested
    <3>2. Thorough(ws)
      BY <1>1, <2>0 DEF Thorough
    <3>3. Orderly(m, ws)
      BY <1>1, <2>0 DEF Orderly
    <3>. QED
      BY <3>1, <3>2, <3>3
  <2>2. Rousing(m, ws)
    BY DEF Rousing, Armed
  <2>. QED
    BY <1>2, <2>1, <2>2 DEF Waking
<1>4. s \in WakeStates /\ s.mem = m /\ s.walks = ws
  BY <1>2 DEF WakeStates, Calm
<1>5. n \in Nat /\ Effort(m, ws) <= n
  BY <1>2, FiniteSleepers DEF Effort, WakeSteps
<1>6. Wakeup(m, o, all, code) = Iterate(WakeStep, s, n).mem
  BY DEF Wakeup, WakeSteps, ws, w
<1>. HIDE DEF s, n
<1>7. PICK f : /\ f[0] = s
               /\ \A i \in 1 .. n : f[i] = WakeStep(f[i - 1])
               /\ Iterate(WakeStep, s, n) = f[n]
  BY <1>3, <1>4, <1>5, WakeupRuns
<1>. DEFINE A == {i \in 0 .. n : /\ f[i] \in WakeStates /\ Waking(f[i].mem, f[i].walks)
                                 /\ f[i].walks # <<>> => Effort(f[i].mem, f[i].walks) + i <= n}
<1>8. 0 \in A
  <2>1. Effort(m, ws) \in Nat
    BY <1>2, FiniteSleepers DEF Effort
  <2>. QED
    BY <1>3, <1>4, <1>5, <1>7, <2>1
<1>9. ASSUME NEW i \in 1 .. n, i - 1 \in A PROVE i \in A
  <2>. DEFINE x == f[i - 1]
              y == f[i]
  <2>1. /\ x \in WakeStates /\ Waking(x.mem, x.walks) /\ i - 1 \in 0 .. n
        /\ x.walks # <<>> => Effort(x.mem, x.walks) + (i - 1) <= n
    BY <1>9
  <2>2. y = WakeStep(x) /\ i \in 0 .. n
    BY <1>5, <1>7
  <2>. HIDE DEF x, y
  <2>3. /\ y \in WakeStates
        /\ x.walks = <<>> => y = x
        /\ x.walks # <<>> => Moves(x.mem, x.walks, y.mem, y.walks)
    BY <2>1, <2>2, WakeStepMoves
  <2>4. CASE x.walks = <<>>
    <3>1. y = x
      BY <2>3, <2>4
    <3>. QED
      BY <2>1, <2>2, <2>4, <3>1 DEF y
  <2>5. CASE x.walks # <<>>
    <3>1. Waking(y.mem, y.walks) /\ Effort(y.mem, y.walks) + 1 <= Effort(x.mem, x.walks)
      BY <2>3, <2>5 DEF Moves
    <3>2. Effort(y.mem, y.walks) \in Nat /\ Effort(x.mem, x.walks) \in Nat
      <4>1. y.walks \in Seq(Walks) /\ x.walks \in Seq(Walks)
        BY <2>1, <3>1 DEF Waking
      <4>. QED
        BY <4>1, EffortNat
    <3>3. Effort(y.mem, y.walks) + i <= n
      BY <1>5, <2>1, <2>5, <3>1, <3>2
    <3>. QED
      BY <2>2, <2>3, <3>1, <3>3 DEF y
  <2>. QED
    BY <2>4, <2>5
<1>. HIDE DEF A
<1>10. n \in A
  <2>1. \A i \in 0 .. n : i \in A
    BY <1>5, <1>8, <1>9, UpTo
  <2>. QED
    BY <1>5, <2>1
<1>. DEFINE g == f[n].mem
            rs == f[n].walks
<1>11. Waking(g, rs) /\ (rs # <<>> => Effort(g, rs) + n <= n)
  BY <1>10 DEF A
<1>12. Wakeup(m, o, all, code) = g
  BY <1>6, <1>7
<1>. HIDE DEF g, rs
<1>13. rs = <<>>
  <2>1. rs \in Seq(Walks)
    BY <1>11 DEF Waking
  <2>2. rs # <<>> => Len(rs) \in Nat \ {0}
    BY <2>1, FrontFacts
  <2>3. rs # <<>> => Effort(g, rs) \in Nat \ {0}
    BY <2>2, FiniteSleepers DEF Effort
  <2>. QED
    BY <1>5, <1>11, <2>3
<1>14. Done(g)
  <2>1. Calm(g) /\ (Circle(sub) \/ Orderly(g, rs)) /\ (g.failed = "none" => Rousing(g, rs))
    BY <1>11 DEF Waking
  <2>2. g.failed # "none" => Circle(sub)
    BY <2>1 DEF Orderly
  <2>3. \A e : ~Heading(g, rs, e)
    BY <1>13 DEF Heading
  <2>4. g.failed = "none" => Armed(g.queue, subList, g.sub)
    BY <2>1, <2>3 DEF Rousing, Armed
  <2>. QED
    BY <2>1, <2>2, <2>4 DEF Done
<1>. QED
  BY <1>12, <1>14

-----------------------------------------------------------------------------
(* Waiting for an event: what holds between two steps.                     *)

Calls == [event: Events, at: Nat \ {0}]
WaitStates == [mem: Mems, loops: Seq(Calls), taken: Objects \cup {None}]

\* The calls are at an entry of their lists or at the end, those of different
\* events; each waits for the event of the next one, with an entry that is not
\* linked yet; and what they have passed is linked.
Ranged(ls) == \A i \in 1 .. Len(ls) : ls[i].at <= Len(subList[ls[i].event]) + 1
Various(ls) == \A i, j \in 1 .. Len(ls) : i # j => ls[i].event # ls[j].event
Chained(m, ls) ==
    \A i \in 1 .. Len(ls) : i # Len(ls) =>
        /\ ls[i].at <= Len(subList[ls[i].event])
        /\ ~m.sub[Entry(ls[i])].blocked
        /\ sub[Entry(ls[i])].wait = ls[i + 1].event
Passed(m, ls) ==
    \A i \in 1 .. Len(ls), k \in Nat \ {0} :
        k < ls[i].at => m.sub[subList[ls[i].event][k]].blocked = TRUE
Descending(m, ls) == Ranged(ls) /\ Various(ls) /\ Chained(m, ls) /\ Passed(m, ls)

Waiting(m, ls, taken, e) ==
    /\ Calm(m) /\ ls \in Seq(Calls) /\ Descending(m, ls) /\ taken \in Objects \cup {None}
    /\ m.blocked = blocked /\ Armed(m.queue, subList, m.sub)
    /\ m.failed # "none" => Circle(sub)
    /\ ls # <<>> => ls[1].event = e /\ taken = None /\ m.failed = "none"
    /\ ls = <<>> /\ taken = None /\ m.failed = "none" =>
          \A x \in ToSet(subList[e]) : m.sub[x].blocked = TRUE

\* Entries of the lists are sub-events of their events.
LEMMA EntryFacts ==
    ASSUME Lists, NEW e \in Events, NEW k \in Nat \ {0}, k <= Len(subList[e])
    PROVE  /\ subList[e][k] \in Subs /\ sub[subList[e][k]] # None
           /\ sub[subList[e][k]].event = e /\ sub[subList[e][k]].wait \in Objects
           /\ subList[e][k] \in ToSet(subList[e])
<1>1. subList[e] \in Seq(Subs) /\ Len(subList[e]) \in Nat
  BY LenProperties DEF Lists
<1>2. k \in 1 .. Len(subList[e])
  BY <1>1
<1>3. subList[e][k] \in Subs /\ subList[e][k] \in ToSet(subList[e])
  BY <1>1, <1>2, ElementOfSeq, ToSetElement
<1>4. sub[subList[e][k]] # None /\ sub[subList[e][k]].event = e
  BY <1>3 DEF Lists, Listed
<1>5. sub[subList[e][k]].wait \in Objects
  BY <1>3, <1>4 DEF Lists, SubMemory, SubEvent
<1>. QED
  BY <1>3, <1>4, <1>5

\* A sub-event has one place in one list.
LEMMA EntryOnce ==
    ASSUME Lists, NEW e \in Events, NEW k \in Nat \ {0}, k <= Len(subList[e]),
           NEW d \in Events, NEW j \in Nat \ {0}, j <= Len(subList[d]), subList[e][k] = subList[d][j]
    PROVE  e = d /\ k = j
<1>1. e = d
  BY EntryFacts
<1>2. Len(subList[e]) \in Nat /\ Distinct(subList[e])
  BY LenProperties DEF Lists, Listed
<1>3. k \in 1 .. Len(subList[e]) /\ j \in 1 .. Len(subList[e])
  BY <1>1, <1>2
<1>. QED
  BY <1>1, <1>2, <1>3 DEF Distinct

\* The innermost call goes on at its next entry.
IsForward(ls, r) ==
    /\ r \in Seq(Calls) /\ Len(r) = Len(ls) /\ Len(ls) \in Nat \ {0}
    /\ \A i \in 1 .. Len(ls) :
          /\ ls[i] \in Calls /\ r[i] \in Calls /\ r[i].event = ls[i].event
          /\ i # Len(ls) => r[i] = ls[i]
          /\ i = Len(ls) => r[i].at = ls[i].at + 1

\* The innermost loop of the calls under way goes to its next entry.
LEMMA ForwardFacts ==
    ASSUME NEW ls \in Seq(Calls), ls # <<>>
    PROVE  IsForward(ls, Forward(ls))
<1>. DEFINE l == Last(ls)
            a == [l EXCEPT !.at = l.at + 1]
            r == Renewed(ls, a)
            k == Len(ls)
<1>1. l \in Calls /\ l = ls[k] /\ k \in Nat \ {0}
  BY FrontFacts
<1>. HIDE DEF l
<1>2. a \in Calls /\ a.event = l.event /\ a.at = l.at + 1
  BY <1>1 DEF Calls
<1>3. Forward(ls) = r
  BY DEF Forward, Renewed, l
<1>. HIDE DEF a
<1>4. IsRenewed(Calls, ls, a, r)
  BY <1>2, RenewedFacts
<1>. HIDE DEF r
<1>5. /\ r \in Seq(Calls) /\ Len(r) = k /\ r[k] = a
      /\ \A i \in 1 .. k : i # k => r[i] = ls[i]
  BY <1>4 DEF IsRenewed
<1>6. \A i \in 1 .. k : ls[i] \in Calls
  BY <1>1, ElementOfSeq
<1>. HIDE DEF k
<1>7. \A i \in 1 .. k : /\ ls[i] \in Calls /\ r[i] \in Calls /\ r[i].event = ls[i].event
                        /\ i # k => r[i] = ls[i]
                        /\ i = k => r[i].at = ls[i].at + 1
  <2>. TAKE i \in 1 .. k
  <2>1. CASE i = k
    BY <1>1, <1>2, <1>5, <1>6, <2>1
  <2>2. CASE i # k
    BY <1>5, <1>6, <2>2
  <2>. QED
    BY <2>1, <2>2
<1>8. IsForward(ls, r)
  BY <1>1, <1>5, <1>7 DEF IsForward, k
<1>. QED
  BY <1>3, <1>8

\* The entry x at which the innermost call was is linked.
OthersKept(m, n, x) == \A y \in Subs : y # x => n.sub[y] = m.sub[y]
Descended(n, ls, r) ==
    Descending(n, r) /\ r \in Seq(Calls) /\ r # <<>> /\ r[1].event = ls[1].event

\* After an entry is linked, the loops are again in order: what they have passed
\* is linked, and where an outer one stands the next inner one works.
LEMMA DescendForward ==
    ASSUME Lists, NEW m, NEW n, NEW ls \in Seq(Calls), ls # <<>>, Descending(m, ls),
           NEW l, l = Last(ls), l.at <= Len(subList[l.event]), NEW x, x = Entry(l),
           n.sub[x].blocked = TRUE, OthersKept(m, n, x),
           NEW r, r = Forward(ls)
    PROVE  Descended(n, ls, r)
<1>. DEFINE k == Len(ls)
<1>0. \A y \in Subs : y # x => n.sub[y] = m.sub[y]
  BY DEF OthersKept
<1>1. IsForward(ls, r)
  BY ForwardFacts, Zenon
<1>2. /\ r \in Seq(Calls) /\ Len(r) = k /\ k \in Nat \ {0} /\ l = ls[k]
      /\ \A i \in 1 .. k : /\ ls[i] \in Calls /\ r[i] \in Calls /\ r[i].event = ls[i].event
                           /\ i # k => r[i] = ls[i]
                           /\ i = k => r[i].at = ls[i].at + 1
  BY <1>1 DEF IsForward, Last
<1>3. Ranged(ls) /\ Various(ls) /\ Chained(m, ls) /\ Passed(m, ls)
  BY DEF Descending
<1>. HIDE DEF k
<1>4. \A i \in 1 .. k : ls[i].event \in Events /\ ls[i].at \in Nat \ {0}
                        /\ Len(subList[ls[i].event]) \in Nat
  <2>. TAKE i \in 1 .. k
  <2>1. ls[i].event \in Events /\ ls[i].at \in Nat \ {0}
    BY <1>2 DEF Calls
  <2>2. subList[ls[i].event] \in Seq(Subs)
    BY <2>1 DEF Lists
  <2>. QED
    BY <2>1, <2>2, LenProperties
<1>5. Ranged(r)
  <2>. SUFFICES ASSUME NEW i \in 1 .. k
                PROVE  r[i].at <= Len(subList[r[i].event]) + 1
    BY <1>2 DEF Ranged
  <2>1. CASE i = k
    BY <1>2, <1>4, <2>1
  <2>2. CASE i # k
    BY <1>2, <1>3, <2>2 DEF Ranged, k
  <2>. QED
    BY <2>1, <2>2
<1>6. Various(r)
  <2>. SUFFICES ASSUME NEW i \in 1 .. k, NEW j \in 1 .. k, i # j
                PROVE  r[i].event # r[j].event
    BY <1>2 DEF Various
  <2>. QED
    BY <1>2, <1>3 DEF Various, k
<1>7. ASSUME NEW i \in 1 .. k, i # k, NEW j \in Nat \ {0}, j <= Len(subList[ls[i].event])
      PROVE  subList[ls[i].event][j] \in Subs /\ subList[ls[i].event][j] # x
  <2>1. ls[i].event # l.event /\ ls[i].event \in Events /\ l.event \in Events /\ l.at \in Nat \ {0}
    BY <1>2, <1>3, <1>4, <1>7 DEF Various, k
  <2>. DEFINE d == l.event
              a == l.at
              f == ls[i].event
  <2>2. /\ x = subList[d][a] /\ f # d /\ f \in Events /\ d \in Events /\ a \in Nat \ {0}
        /\ a <= Len(subList[d]) /\ j <= Len(subList[f])
    BY <1>7, <2>1 DEF Entry
  <2>. HIDE DEF d, a, f
  <2>3. subList[f][j] \in Subs
    BY <1>7, <2>2, EntryFacts
  <2>4. subList[f][j] # subList[d][a]
    BY <1>7, <2>2, EntryOnce
  <2>. QED
    BY <2>2, <2>3, <2>4 DEF f
<1>8. Chained(n, r)
  <2>. SUFFICES ASSUME NEW i \in 1 .. k, i # k
                PROVE  /\ r[i].at <= Len(subList[r[i].event])
                       /\ ~n.sub[Entry(r[i])].blocked
                       /\ sub[Entry(r[i])].wait = r[i + 1].event
    BY <1>2 DEF Chained
  <2>1. r[i] = ls[i] /\ i + 1 \in 1 .. k /\ r[i + 1].event = ls[i + 1].event
    BY <1>2
  <2>2. /\ ls[i].at <= Len(subList[ls[i].event])
        /\ ~m.sub[Entry(ls[i])].blocked
        /\ sub[Entry(ls[i])].wait = ls[i + 1].event
    BY <1>3 DEF Chained, k
  <2>3. Entry(ls[i]) \in Subs /\ Entry(ls[i]) # x
    BY <1>4, <1>7, <2>2 DEF Entry
  <2>. QED
    BY <1>0, <2>1, <2>2, <2>3
<1>9. Passed(n, r)
  <2>. SUFFICES ASSUME NEW i \in 1 .. k, NEW j \in Nat \ {0}, j < r[i].at
                PROVE  n.sub[subList[r[i].event][j]].blocked = TRUE
    BY <1>2 DEF Passed
  <2>1. CASE j < ls[i].at
    <3>1. m.sub[subList[ls[i].event][j]].blocked = TRUE
      BY <1>3, <2>1 DEF Passed, k
    <3>2. j <= Len(subList[ls[i].event])
      BY <1>3, <1>4, <2>1 DEF Ranged, k
    <3>3. subList[ls[i].event][j] \in Subs
      BY <1>4, <3>2, EntryFacts
    <3>4. r[i].event = ls[i].event
      BY <1>2
    <3>. QED
      BY <1>0, <3>1, <3>3, <3>4
  <2>2. CASE ~(j < ls[i].at)
    <3>1. i = k /\ j = ls[i].at
      BY <1>2, <1>4, <2>2
    <3>2. subList[r[i].event][j] = x
      BY <1>2, <3>1 DEF Entry
    <3>. QED
      BY <3>2
  <2>. QED
    BY <2>1, <2>2
<1>10. r # <<>> /\ r[1].event = ls[1].event
  BY <1>2, EmptyFacts
<1>. QED
  BY <1>2, <1>5, <1>6, <1>8, <1>9, <1>10 DEF Descending, Descended

\* The innermost call returns to the one that waits for its event.
Ascended(m, ls, r, c) ==
    /\ r \in Seq(Calls) /\ r # <<>> /\ Descending(m, r) /\ r[1].event = ls[1].event
    /\ c \in Calls /\ c.at <= Len(subList[c.event]) /\ ~m.sub[Entry(c)].blocked
    /\ sub[Entry(c)].wait = Last(ls).event /\ c.event # Last(ls).event

\* The same when the innermost call returns.
LEMMA DescendFront ==
    ASSUME Lists, NEW m, NEW ls \in Seq(Calls), ls # <<>>, Len(ls) # 1, Descending(m, ls),
           NEW r, r = Front(ls), NEW c, c = Last(r)
    PROVE  Ascended(m, ls, r, c)
<1>. DEFINE k == Len(ls)
<1>1. /\ r \in Seq(Calls) /\ Len(r) = k - 1 /\ k \in Nat \ {0}
      /\ \A i \in 1 .. k - 1 : r[i] = ls[i]
      /\ Last(ls) = ls[k]
  BY FrontFacts
<1>2. Ranged(ls) /\ Various(ls) /\ Chained(m, ls) /\ Passed(m, ls)
  BY DEF Descending
<1>3. r # <<>>
  BY <1>1, EmptyFacts
<1>4. c = r[k - 1] /\ c \in Calls
  BY <1>1, <1>3, FrontFacts
<1>5. k # 1
  OBVIOUS
<1>. HIDE DEF k
<1>6. k - 1 \in 1 .. k - 1 /\ \A i \in 1 .. k - 1 : i \in 1 .. k /\ i + 1 \in 1 .. k /\ i # k
  BY <1>1, <1>5
<1>7. Ranged(r)
  BY <1>1, <1>2, <1>6 DEF Ranged, k
<1>8. Various(r)
  <2>1. \A i, j \in 1 .. k : i # j => ls[i].event # ls[j].event
    BY <1>2 DEF Various, k
  <2>2. \A i, j \in 1 .. k - 1 : i # j => r[i].event # r[j].event
    BY <1>1, <1>6, <2>1
  <2>. QED
    BY <1>1, <2>2 DEF Various
<1>9. Passed(m, r)
  <2>1. \A i \in 1 .. k, j \in Nat \ {0} :
           j < ls[i].at => m.sub[subList[ls[i].event][j]].blocked = TRUE
    BY <1>2 DEF Passed, k
  <2>2. \A i \in 1 .. k - 1, j \in Nat \ {0} :
           j < r[i].at => m.sub[subList[r[i].event][j]].blocked = TRUE
    BY <1>1, <1>6, <2>1
  <2>. QED
    BY <1>1, <2>2 DEF Passed
<1>10. \A i \in 1 .. k - 1 : /\ ls[i].at <= Len(subList[ls[i].event])
                             /\ ~m.sub[Entry(ls[i])].blocked
                             /\ sub[Entry(ls[i])].wait = ls[i + 1].event
  BY <1>2, <1>6 DEF Chained, k
<1>11. Chained(m, r)
  <2>. SUFFICES ASSUME NEW i \in 1 .. k - 1, i # k - 1
                PROVE  /\ r[i].at <= Len(subList[r[i].event])
                       /\ ~m.sub[Entry(r[i])].blocked
                       /\ sub[Entry(r[i])].wait = r[i + 1].event
    BY <1>1 DEF Chained
  <2>1. i + 1 \in 1 .. k - 1
    BY <1>1
  <2>. QED
    BY <1>1, <1>10, <2>1
<1>12. c = ls[k - 1] /\ (k - 1) + 1 = k
  BY <1>1, <1>4, <1>6
<1>13. /\ c.at <= Len(subList[c.event]) /\ ~m.sub[Entry(c)].blocked
       /\ sub[Entry(c)].wait = Last(ls).event
  BY <1>1, <1>6, <1>10, <1>12
<1>14. c.event # Last(ls).event
  BY <1>1, <1>2, <1>6, <1>12 DEF Various, k
<1>15. r[1].event = ls[1].event
  BY <1>1, <1>6
<1>. QED
  BY <1>1, <1>3, <1>4, <1>7, <1>8, <1>9, <1>11, <1>13, <1>14, <1>15
     DEF Descending, Ascended

\* The first entry of a list that is not linked is linked now.
LEMMA FirstLinked ==
    ASSUME Lists, NEW sb \in SubMemory, NEW d \in Events, NEW a \in Nat \ {0},
           a <= Len(subList[d]), NEW x, x = subList[d][a], sb[x] # None,
           \A j \in Nat \ {0} : j < a => sb[subList[d][j]].blocked = TRUE,
           InOrder(subList[d], sb)
    PROVE  InOrder(subList[d], Marked(sb, x, TRUE))
<1>. DEFINE s == subList[d]
            s2 == Marked(sb, x, TRUE)
<1>1. x \in Subs /\ Len(s) \in Nat /\ \A j \in 1 .. Len(s) : s[j] \in Subs
  BY EntryFacts, LenProperties, ElementOfSeq DEF Lists
<1>m. IsMarked(sb, x, TRUE, s2)
  BY <1>1, MarkedIs, Zenon
<1>. HIDE DEF s2
<1>2. s2[x].blocked = TRUE /\ \A y \in Subs : y # x => s2[y] = sb[y]
  BY <1>m DEF IsMarked
<1>3. InOrder(s, sb) /\ x = s[a] /\ a \in 1 .. Len(s)
      /\ \A j \in 1 .. Len(s) : j < a => sb[s[j]].blocked = TRUE
  BY <1>1
<1>. HIDE DEF s
<1>4. ASSUME NEW i \in 1 .. Len(s), NEW j \in 1 .. Len(s), i < j, s2[s[j]].blocked
      PROVE  s2[s[i]].blocked
  <2>1. CASE s[i] = x
    BY <1>2, <2>1
  <2>2. CASE s[i] # x /\ s[j] # x
    BY <1>1, <1>2, <1>3, <1>4, <2>2 DEF InOrder
  <2>3. CASE s[i] # x /\ s[j] = x
    <3>1. CASE i < a
      BY <1>1, <1>2, <1>3, <2>3, <3>1
    <3>2. CASE ~(i < a)
      <4>1. a < j /\ s[a] = s[j]
        BY <1>1, <1>3, <1>4, <2>3, <3>2
      <4>2. Distinct(s)
        BY DEF Lists, Listed, s
      <4>. QED
        BY <1>3, <4>1, <4>2 DEF Distinct
    <3>. QED
      BY <3>1, <3>2
  <2>. QED
    BY <2>1, <2>2, <2>3
<1>5. InOrder(s, s2)
  BY <1>4 DEF InOrder
<1>. QED
  BY <1>5 DEF s, s2

\* The entry x of the list of d is linked into the queue of o.
LEMMA LinkArmed ==
    ASSUME Lists, NEW m, Calm(m), Armed(m.queue, subList, m.sub), NEW d \in Events,
           NEW a \in Nat \ {0}, a <= Len(subList[d]), NEW x, x = subList[d][a],
           \A j \in Nat \ {0} : j < a => m.sub[subList[d][j]].blocked = TRUE,
           NEW o \in Objects, o # d, NEW n, Put(m, n, o, x), n.sub = Marked(m.sub, x, TRUE),
           o \in Events => InOrder(subList[o], m.sub)
    PROVE  Armed(n.queue, subList, n.sub)
<1>. DEFINE sb == m.sub
            s2 == Marked(sb, x, TRUE)
<1>1. x \in Subs /\ sub[x] # None /\ sub[x].event = d
  BY EntryFacts
<1>2. sb \in SubMemory /\ sb[x] # None
  BY <1>1 DEF Calm, Mems, Same
<1>3. \A j \in Nat \ {0} : j < a => sb[subList[d][j]].blocked = TRUE
  OBVIOUS
<1>4. n.sub = s2
  OBVIOUS
<1>5. /\ \A e \in Events : WakeupAll[e] /\ m.queue[e] # <<>> => InOrder(subList[e], sb)
      /\ o \in Events => InOrder(subList[o], sb)
  BY DEF Armed
<1>. HIDE DEF sb
<1>6. \A e \in Events : InOrder(subList[e], sb) => InOrder(subList[e], s2)
  <2>. SUFFICES ASSUME NEW e \in Events, InOrder(subList[e], sb)
                PROVE  InOrder(subList[e], s2)
    OBVIOUS
  <2>1. CASE e = d
    BY <1>2, <1>3, <2>1, FirstLinked
  <2>2. CASE e # d
    BY <1>1, <1>2, <2>2, OrderKept
  <2>. QED
    BY <2>1, <2>2
<1>. HIDE DEF s2
<1>7. ASSUME NEW e \in Events, WakeupAll[e], n.queue[e] # <<>>
      PROVE  InOrder(subList[e], sb)
  <2>1. CASE e = o
    BY <1>5, <2>1
  <2>2. CASE e # o
    BY <1>5, <1>7, <2>2 DEF Put, Objects
  <2>. QED
    BY <2>1, <2>2
<1>. QED
  BY <1>4, <1>6, <1>7 DEF Armed

\* A list with every entry linked.
LEMMA AllLinked ==
    ASSUME NEW s, NEW sb, \A i \in 1 .. Len(s) : sb[s[i]].blocked = TRUE
    PROVE  InOrder(s, sb)
BY DEF InOrder

-----------------------------------------------------------------------------
(* The steps of a wait end.                                                *)

\* The sub-events that are not linked, and those the calls have looked at.
Free(m) == {x \in Subs : m.sub[x] # None /\ ~m.sub[x].blocked}
Seen(ls) ==
    {x \in Subs : \E i \in 1 .. Len(ls), k \in Nat \ {0} :
        /\ k <= Len(subList[ls[i].event]) /\ x = subList[ls[i].event][k]
        /\ k < ls[i].at \/ (k = ls[i].at /\ i # Len(ls))}
Size == Cardinality(Subs)
Labour(m, ls) == Cardinality(Free(m)) * (Size + 1) + (Size - Cardinality(Seen(ls))) + 1
WaitSteps == (Size + 1) * (Size + 1)

\* There are finitely many sub-events to look at.
LEMMA FiniteFree ==
    ASSUME NEW m, NEW ls
    PROVE  /\ IsFiniteSet(Free(m)) /\ Cardinality(Free(m)) \in Nat /\ Cardinality(Free(m)) <= Size
           /\ IsFiniteSet(Seen(ls)) /\ Cardinality(Seen(ls)) \in Nat /\ Cardinality(Seen(ls)) <= Size
           /\ Size \in Nat
<1>1. Free(m) \in SUBSET Subs /\ Seen(ls) \in SUBSET Subs
  BY DEF Free, Seen
<1>2. IsFiniteSet(Subs)
  BY WaitObjectsAssumption
<1>3. /\ IsFiniteSet(Free(m)) /\ IsFiniteSet(Seen(ls))
      /\ Cardinality(Free(m)) <= Cardinality(Subs)
      /\ Cardinality(Seen(ls)) <= Cardinality(Subs)
  BY <1>1, <1>2, FS_Subset
<1>. QED
  BY <1>2, <1>3, FS_CardinalityType DEF Size

\* The rows of the measure.
LEMMA Rows ==
    ASSUME NEW u \in Nat, NEW z \in Nat
    PROVE  /\ u * (z + 1) \in Nat
           /\ u # 0 => (u - 1) * (z + 1) = u * (z + 1) - (z + 1)
           /\ u <= z => u * (z + 1) + z + 1 <= (z + 1) * (z + 1)
<1>1. u * (z + 1) \in Nat
  OBVIOUS
<1>2. (u - 1) * (z + 1) = u * (z + 1) - (z + 1)
  OBVIOUS
<1>3. ASSUME u <= z PROVE u * (z + 1) + z + 1 <= (z + 1) * (z + 1)
  <2>. DEFINE v == z - u
  <2>1. v \in Nat /\ z = u + v
    BY <1>3
  <2>2. v * (z + 1) \in Nat
    BY <2>1
  <2>3. (z + 1) * (z + 1) = z * (z + 1) + (z + 1)
    OBVIOUS
  <2>. HIDE DEF v
  <2>4. z * (z + 1) = u * (z + 1) + v * (z + 1)
    BY <2>1
  <2>. DEFINE p == u * (z + 1)
              q == v * (z + 1)
              w == z * (z + 1)
  <2>5. p \in Nat /\ q \in Nat /\ w = p + q /\ (z + 1) * (z + 1) = w + (z + 1)
    BY <1>1, <2>2, <2>3, <2>4
  <2>. HIDE DEF p, q, w
  <2>6. p + z + 1 <= w + (z + 1)
    BY <2>5
  <2>. QED
    BY <2>5, <2>6 DEF p
<1>. QED
  BY <1>1, <1>2, <1>3

\* The measure is positive and starts within the bound of Waited.
LEMMA LabourNat ==
    ASSUME NEW m, NEW ls
    PROVE  Labour(m, ls) \in Nat \ {0} /\ Labour(m, ls) <= WaitSteps
<1>. DEFINE u == Cardinality(Free(m))
            z == Size
            c == Cardinality(Seen(ls))
            p == u * (z + 1)
            q == (z + 1) * (z + 1)
<1>1. u \in Nat /\ u <= z /\ c \in Nat /\ c <= z /\ z \in Nat
  BY FiniteFree
<1>2. Labour(m, ls) = p + (z - c) + 1 /\ WaitSteps = q
  BY DEF Labour, WaitSteps
<1>. HIDE DEF u, z, c
<1>3. p \in Nat /\ p + z + 1 <= q /\ q \in Nat
  BY <1>1, Rows
<1>. HIDE DEF p, q
<1>. QED
  BY <1>1, <1>2, <1>3

\* A sub-event is linked, and the calls may look at all of them again.
LEMMA LabourLink ==
    ASSUME NEW m, NEW n, NEW x, x \in Free(m), Free(n) = Free(m) \ {x}, NEW ls, NEW r
    PROVE  Labour(n, r) + 1 <= Labour(m, ls)
<1>. DEFINE u == Cardinality(Free(m))
            v == Cardinality(Free(n))
            z == Size
            c == Cardinality(Seen(ls))
            d == Cardinality(Seen(r))
            p == u * (z + 1)
            q == v * (z + 1)
<1>1. u \in Nat /\ c \in Nat /\ c <= z /\ d \in Nat /\ d <= z /\ z \in Nat /\ v \in Nat
  BY FiniteFree
<1>2. v = u - 1
  BY FiniteFree, OneLess
<1>3. Labour(m, ls) = p + (z - c) + 1 /\ Labour(n, r) = q + (z - d) + 1
  BY DEF Labour
<1>. HIDE DEF u, v, z, c, d
<1>4. p \in Nat /\ q \in Nat /\ q = p - (z + 1)
  <2>1. u # 0
    BY <1>1, <1>2
  <2>. QED
    BY <1>1, <1>2, <2>1, Rows
<1>. HIDE DEF p, q
<1>. QED
  BY <1>1, <1>3, <1>4

\* The calls look at one more.
LEMMA LabourSeen ==
    ASSUME NEW m, NEW ls, NEW r, NEW x, x \notin Seen(ls), Seen(r) = Seen(ls) \cup {x}
    PROVE  Labour(m, r) + 1 <= Labour(m, ls)
<1>. DEFINE u == Cardinality(Free(m))
            z == Size
            c == Cardinality(Seen(ls))
            d == Cardinality(Seen(r))
            p == u * (z + 1)
<1>1. u \in Nat /\ c \in Nat /\ c <= z /\ d \in Nat /\ d <= z /\ z \in Nat
  BY FiniteFree
<1>2. d = c + 1
  <2>1. IsFiniteSet(Seen(ls))
    BY FiniteFree
  <2>. QED
    BY <2>1, FS_AddElement
<1>3. Labour(m, ls) = p + (z - c) + 1 /\ Labour(m, r) = p + (z - d) + 1
  BY DEF Labour
<1>. HIDE DEF u, z, c, d
<1>4. p \in Nat
  BY <1>1, Rows
<1>. HIDE DEF p
<1>. QED
  BY <1>1, <1>2, <1>3, <1>4

-----------------------------------------------------------------------------
(* The steps of a wait.                                                    *)

\* The wait for e is under way.
Under(m, ls, e) ==
    /\ Calm(m) /\ ls \in Seq(Calls) /\ ls # <<>> /\ Descending(m, ls) /\ ls[1].event = e
    /\ m.blocked = blocked /\ Armed(m.queue, subList, m.sub) /\ m.failed = "none"

\* A call under way has taken nothing.
LEMMA UnderWaiting ==
    ASSUME NEW m, NEW ls, NEW e, Under(m, ls, e)
    PROVE  Waiting(m, ls, None, e)
BY DEF Under, Waiting

\* As long as a loop is left, the calls are under way.
LEMMA WaitingUnder ==
    ASSUME NEW m, NEW ls, NEW e, NEW taken, Waiting(m, ls, taken, e), ls # <<>>
    PROVE  Under(m, ls, e) /\ taken = None
BY DEF Under, Waiting

\* The wait goes on as n and r.
Advances(m, ls, e, n, r) == Under(n, r, e) /\ Labour(n, r) + 1 <= Labour(m, ls)

\* No loop is left: the order of the loops holds trivially.
LEMMA NothingDescends ==
    ASSUME NEW m
    PROVE  <<>> \in Seq(Calls) /\ Descending(m, <<>>)
BY DEF Descending, Ranged, Various, Chained, Passed

\* The sub-event x of the innermost call of ls is linked.
LEMMA LinkAdvances ==
    ASSUME Lists, NEW m, NEW ls, NEW e, Under(m, ls, e), NEW l, l = Last(ls), l \in Calls,
           l.at <= Len(subList[l.event]), NEW x, x = Entry(l), ~m.sub[x].blocked,
           NEW o, o = sub[x].wait, o # l.event, o \in Sems => m.value[o] = 0,
           o \in Events => InOrder(subList[o], m.sub),
           NEW n, n = Link(m, x), NEW r, r = Forward(ls), NEW before
    PROVE  Advances(m, before, e, n, r)
<1>1. /\ Calm(m) /\ ls \in Seq(Calls) /\ ls # <<>> /\ Descending(m, ls) /\ ls[1].event = e
      /\ m.blocked = blocked /\ Armed(m.queue, subList, m.sub) /\ m.failed = "none"
  BY DEF Under
<1>2. l.event \in Events /\ l.at \in Nat \ {0} /\ x = subList[l.event][l.at]
  BY DEF Calls, Entry
<1>3. x \in Subs /\ sub[x] # None /\ o \in Objects
  <2>. DEFINE d == l.event
              a == l.at
  <2>1. d \in Events /\ a \in Nat \ {0} /\ a <= Len(subList[d]) /\ x = subList[d][a]
    BY <1>2
  <2>. HIDE DEF d, a
  <2>. QED
    BY <2>1, EntryFacts
<1>4. m.sub[x] # None /\ m.sub[x].wait = o /\ m.sub \in SubMemory
  BY <1>1, <1>3 DEF Calm, Same, Mems
<1>p. SubPut(m, n, o, x)
  BY <1>1, <1>3, <1>4, CalmLink, Zenon
<1>5. /\ Calm(n) /\ Put(m, n, o, x)
      /\ n.blocked = m.blocked /\ n.sub = Marked(m.sub, x, TRUE) /\ n.failed = m.failed
  BY <1>p DEF SubPut
<1>6. IsMarked(m.sub, x, TRUE, n.sub)
  <2>1. IsMarked(m.sub, x, TRUE, Marked(m.sub, x, TRUE))
    BY <1>3, <1>4, MarkedIs, Zenon
  <2>. QED
    BY <1>5, <2>1, Zenon
<1>7. n.sub[x] # None /\ n.sub[x].blocked = TRUE /\ \A y \in Subs : y # x => n.sub[y] = m.sub[y]
  BY <1>6 DEF IsMarked
<1>d. Descended(n, ls, r)
  <2>1. ls \in Seq(Calls) /\ ls # <<>> /\ Descending(m, ls) /\ n.sub[x].blocked = TRUE
    BY <1>1, <1>7
  <2>2. OthersKept(m, n, x)
    BY <1>7 DEF OthersKept
  <2>. QED
    BY <2>1, <2>2, DescendForward, Zenon
<1>8. Descending(n, r) /\ r \in Seq(Calls) /\ r # <<>> /\ r[1].event = ls[1].event
  BY <1>d DEF Descended
<1>9. \A j \in Nat \ {0} : j < l.at => m.sub[subList[l.event][j]].blocked = TRUE
  <2>1. l = ls[Len(ls)] /\ Len(ls) \in 1 .. Len(ls)
    BY <1>1, FrontFacts
  <2>. QED
    BY <1>1, <2>1 DEF Descending, Passed
<1>10. Armed(n.queue, subList, n.sub)
  <2>. DEFINE d == l.event
              a == l.at
  <2>1. /\ d \in Events /\ a \in Nat \ {0} /\ a <= Len(subList[d]) /\ x = subList[d][a] /\ o # d
        /\ \A j \in Nat \ {0} : j < a => m.sub[subList[d][j]].blocked = TRUE
    BY <1>2, <1>9
  <2>. HIDE DEF d, a
  <2>. QED
    BY <1>1, <1>3, <1>5, <2>1, LinkArmed, Zenon
<1>11. Under(n, r, e)
  BY <1>1, <1>5, <1>8, <1>10 DEF Under
<1>12. x \in Free(m) /\ Free(n) = Free(m) \ {x}
  BY <1>3, <1>4, <1>7 DEF Free
<1>13. Labour(n, r) + 1 <= Labour(m, before)
  BY <1>12, LabourLink
<1>. QED
  BY <1>11, <1>13 DEF Advances

\* The calls have not looked at the entry they are at.
LEMMA NotSeen ==
    ASSUME Lists, NEW m, NEW ls, NEW e, Under(m, ls, e), NEW l, l = Last(ls),
           l.at <= Len(subList[l.event]), NEW x, x = Entry(l)
    PROVE  x \notin Seen(ls)
<1>. DEFINE k == Len(ls)
<1>1. ls \in Seq(Calls) /\ ls # <<>> /\ Descending(m, ls)
  BY DEF Under
<1>2. l \in Calls /\ l = ls[k] /\ k \in Nat \ {0}
  BY <1>1, FrontFacts
<1>3. l.event \in Events /\ l.at \in Nat \ {0} /\ x = subList[l.event][l.at]
  BY <1>2 DEF Calls, Entry
<1>f. \A i \in 1 .. k : ls[i].event \in Events /\ ls[i].at \in Nat \ {0}
  <2>1. \A i \in 1 .. k : ls[i] \in Calls
    BY <1>1, ElementOfSeq
  <2>. QED
    BY <2>1 DEF Calls
<1>. HIDE DEF k
<1>v. \A i \in 1 .. k : i # k => ls[i].event # ls[k].event
  BY <1>1, <1>2 DEF Descending, Various, k
<1>. SUFFICES ASSUME NEW i \in 1 .. k, NEW j \in Nat \ {0}, j <= Len(subList[ls[i].event]),
                     x = subList[ls[i].event][j], j < ls[i].at \/ (j = ls[i].at /\ i # k)
              PROVE  FALSE
  BY DEF Seen, k
<1>. DEFINE d == l.event
            a == l.at
            f == ls[i].event
<1>a. /\ d \in Events /\ a \in Nat \ {0} /\ a <= Len(subList[d]) /\ f \in Events
      /\ j <= Len(subList[f]) /\ subList[f][j] = subList[d][a]
  BY <1>3, <1>f
<1>. HIDE DEF d, a, f
<1>e. f = d /\ j = a
  BY <1>a, EntryOnce
<1>g. ls[i].event = l.event /\ j = l.at
  BY <1>e DEF d, a, f
<1>h. i = k
  BY <1>2, <1>v, <1>g
<1>. QED
  BY <1>2, <1>3, <1>g, <1>h

\* The innermost call passes an entry that is linked.
LEMMA PassAdvances ==
    ASSUME Lists, NEW m, NEW ls, NEW e, Under(m, ls, e), NEW l, l = Last(ls),
           l.at <= Len(subList[l.event]), NEW x, x = Entry(l), m.sub[x].blocked,
           NEW r, r = Forward(ls)
    PROVE  Advances(m, ls, e, m, r)
<1>. DEFINE k == Len(ls)
<1>1. /\ Calm(m) /\ ls \in Seq(Calls) /\ ls # <<>> /\ Descending(m, ls) /\ ls[1].event = e
  BY DEF Under
<1>2. l \in Calls /\ l = ls[k] /\ k \in Nat \ {0}
  BY <1>1, FrontFacts
<1>3. l.event \in Events /\ l.at \in Nat \ {0} /\ x = subList[l.event][l.at]
  BY <1>2 DEF Calls, Entry
<1>4. x \in Subs /\ sub[x] # None
  BY <1>3, EntryFacts
<1>5. m.sub[x].blocked = TRUE
  <2>1. m.sub[x] # None /\ m.sub \in SubMemory
    BY <1>1, <1>4 DEF Calm, Same, Mems
  <2>2. m.sub[x] \in SubEvent
    BY <1>4, <2>1 DEF SubMemory
  <2>. QED
    BY <2>2 DEF SubEvent
<1>d. Descended(m, ls, r)
  <2>1. OthersKept(m, m, x)
    BY DEF OthersKept
  <2>. QED
    BY <1>1, <1>5, <2>1, DescendForward, Zenon
<1>6. Descending(m, r) /\ r \in Seq(Calls) /\ r # <<>> /\ r[1].event = ls[1].event
  BY <1>d DEF Descended
<1>7. Under(m, r, e)
  BY <1>1, <1>6 DEF Under
<1>8. IsForward(ls, r)
  BY <1>1, ForwardFacts, Zenon
<1>f. /\ Len(r) = k
      /\ \A i \in 1 .. k : /\ ls[i].event \in Events /\ ls[i].at \in Nat \ {0}
                           /\ r[i].event = ls[i].event
                           /\ i # k => r[i].at = ls[i].at
                           /\ i = k => r[i].at = ls[i].at + 1
  BY <1>8 DEF IsForward, Calls
<1>. HIDE DEF k
<1>v. \A i \in 1 .. k : i # k => ls[i].event # ls[k].event
  BY <1>1, <1>2 DEF Descending, Various, k
<1>9. x \notin Seen(ls)
  BY NotSeen, Zenon
<1>10. Seen(r) = Seen(ls) \cup {x}
  <2>1. ASSUME NEW y \in Seen(ls) PROVE y \in Seen(r)
    <3>1. PICK i \in 1 .. k, j \in Nat \ {0} :
             /\ j <= Len(subList[ls[i].event]) /\ y = subList[ls[i].event][j] /\ y \in Subs
             /\ j < ls[i].at \/ (j = ls[i].at /\ i # k)
      BY <2>1 DEF Seen, k
    <3>2. r[i].event = ls[i].event /\ (j < r[i].at \/ (j = r[i].at /\ i # k))
      BY <1>f, <3>1
    <3>. QED
      BY <1>f, <3>1, <3>2 DEF Seen
  <2>2. x \in Seen(r)
    <3>1. /\ r[k].event = l.event /\ r[k].at = l.at + 1 /\ l.at < r[k].at /\ k \in 1 .. k
      BY <1>2, <1>3, <1>f
    <3>. QED
      BY <1>3, <1>4, <1>f, <3>1 DEF Seen
  <2>3. ASSUME NEW y \in Seen(r), y # x PROVE y \in Seen(ls)
    <3>1. PICK i \in 1 .. k, j \in Nat \ {0} :
             /\ j <= Len(subList[r[i].event]) /\ y = subList[r[i].event][j] /\ y \in Subs
             /\ j < r[i].at \/ (j = r[i].at /\ i # k)
      BY <1>f, <2>3 DEF Seen
    <3>2. r[i].event = ls[i].event
      BY <1>f
    <3>3. j < ls[i].at \/ (j = ls[i].at /\ i # k)
      <4>1. CASE i # k
        BY <1>f, <3>1, <4>1
      <4>2. CASE i = k
        <5>1. j # ls[i].at
          BY <1>2, <1>3, <2>3, <3>1, <3>2, <4>2
        <5>2. j < ls[i].at + 1
          BY <1>f, <3>1, <4>2
        <5>. QED
          BY <1>f, <5>1, <5>2
      <4>. QED
        BY <4>1, <4>2
    <3>. QED
      BY <3>1, <3>2, <3>3 DEF Seen, k
  <2>. QED
    BY <2>1, <2>2, <2>3
<1>11. Labour(m, r) + 1 <= Labour(m, ls)
  BY <1>9, <1>10, LabourSeen
<1>. QED
  BY <1>7, <1>11 DEF Advances

\* The innermost call is at its entry x.
AtEntry(m, ls, l, x) ==
    /\ l \in Calls /\ l.event \in Events /\ l.at \in Nat \ {0} /\ x = subList[l.event][l.at]
    /\ x \in Subs /\ sub[x] # None /\ sub[x].event = l.event /\ sub[x].wait \in Objects
    /\ m.sub[x] # None /\ m.sub[x].wait = sub[x].wait /\ m.sub[x].blocked \in BOOLEAN

\* The entry a loop is at is a sub-event of its event, for an object that exists.
LEMMA EntryWaits ==
    ASSUME Lists, NEW m, NEW ls, NEW e, Under(m, ls, e), NEW l, l = Last(ls),
           l.at <= Len(subList[l.event]), NEW x, x = Entry(l)
    PROVE  AtEntry(m, ls, l, x)
<1>1. Calm(m) /\ ls \in Seq(Calls) /\ ls # <<>>
  BY DEF Under
<1>2. l \in Calls
  BY <1>1, FrontFacts
<1>3. l.event \in Events /\ l.at \in Nat \ {0} /\ x = subList[l.event][l.at]
  BY <1>2 DEF Calls, Entry
<1>4. x \in Subs /\ sub[x] # None /\ sub[x].event = l.event /\ sub[x].wait \in Objects
  BY <1>3, EntryFacts
<1>5. m.sub[x] # None /\ m.sub[x].wait = sub[x].wait /\ m.sub \in SubMemory
  BY <1>1, <1>4 DEF Calm, Same, Mems
<1>6. m.sub[x].blocked \in BOOLEAN
  BY <1>4, <1>5 DEF SubMemory, SubEvent
<1>. QED
  BY <1>2, <1>3, <1>4, <1>5, <1>6 DEF AtEntry

\* The innermost call has passed all of its list.
LEMMA ListPassed ==
    ASSUME Lists, NEW m, NEW ls, NEW e, Under(m, ls, e), NEW l, l = Last(ls),
           ~(l.at <= Len(subList[l.event]))
    PROVE  /\ l \in Calls /\ l.event \in Events
           /\ \A i \in 1 .. Len(subList[l.event]) : m.sub[subList[l.event][i]].blocked = TRUE
<1>1. ls \in Seq(Calls) /\ ls # <<>> /\ Passed(m, ls)
  BY DEF Under, Descending
<1>2. l \in Calls /\ l = ls[Len(ls)] /\ Len(ls) \in 1 .. Len(ls)
  BY <1>1, FrontFacts
<1>3. l.event \in Events /\ l.at \in Nat \ {0}
  BY <1>2 DEF Calls
<1>4. Len(subList[l.event]) \in Nat
  BY <1>3, LenProperties DEF Lists
<1>5. \A i \in 1 .. Len(subList[l.event]) : i \in Nat \ {0} /\ i < l.at
  BY <1>3, <1>4
<1>. QED
  BY <1>1, <1>2, <1>3, <1>5 DEF Passed

\* The outermost call ends.
LEMMA WaitEnds ==
    ASSUME Lists, NEW m, NEW ls, NEW e, Under(m, ls, e), NEW l, l = Last(ls), Len(ls) = 1,
           ~(l.at <= Len(subList[l.event]))
    PROVE  Waiting(m, <<>>, None, e)
<1>1. ls \in Seq(Calls) /\ ls # <<>> /\ ls[1].event = e
  BY DEF Under
<1>2. l = ls[1]
  BY <1>1, FrontFacts
<1>3. l.event \in Events /\ \A i \in 1 .. Len(subList[l.event]) : m.sub[subList[l.event][i]].blocked = TRUE
  BY ListPassed, Zenon
<1>4. e \in Events /\ \A i \in 1 .. Len(subList[e]) : m.sub[subList[e][i]].blocked = TRUE
  BY <1>1, <1>2, <1>3
<1>5. \A x \in ToSet(subList[e]) : m.sub[x].blocked = TRUE
  <2>1. subList[e] \in Seq(Subs)
    BY <1>4 DEF Lists
  <2>. QED
    BY <1>4, <2>1, ToSetElement
<1>6. <<>> \in Seq(Calls) /\ Descending(m, <<>>)
  BY NothingDescends
<1>. QED
  BY <1>5, <1>6 DEF Under, Waiting

\* A call returns to the one that waits for its event.
LEMMA ReturnAdvances ==
    ASSUME Lists, NEW m, NEW ls, NEW e, Under(m, ls, e), NEW l, l = Last(ls), Len(ls) # 1,
           ~(l.at <= Len(subList[l.event])), NEW f, f = Front(ls), NEW c, c = Last(f),
           NEW n, n = Link(m, Entry(c)), NEW r, r = Forward(f)
    PROVE  Advances(m, ls, e, n, r)
<1>1. ls \in Seq(Calls) /\ ls # <<>> /\ ls[1].event = e /\ Descending(m, ls)
  BY DEF Under
<1>2. l.event \in Events /\ InOrder(subList[l.event], m.sub)
  <2>1. l.event \in Events /\ \A i \in 1 .. Len(subList[l.event]) : m.sub[subList[l.event][i]].blocked = TRUE
    BY ListPassed, Zenon
  <2>. DEFINE s == subList[l.event]
              sb == m.sub
  <2>2. \A i \in 1 .. Len(s) : sb[s[i]].blocked = TRUE
    BY <2>1
  <2>. HIDE DEF s, sb
  <2>3. InOrder(s, sb)
    BY <2>2, AllLinked
  <2>. QED
    BY <2>1, <2>3 DEF s, sb
<1>3. Ascended(m, ls, f, c)
  BY <1>1, DescendFront, Zenon
<1>4. /\ f \in Seq(Calls) /\ f # <<>> /\ Descending(m, f) /\ f[1].event = ls[1].event
      /\ c \in Calls /\ c.at <= Len(subList[c.event]) /\ ~m.sub[Entry(c)].blocked
      /\ sub[Entry(c)].wait = l.event /\ c.event # l.event
  BY <1>3 DEF Ascended
<1>5. Under(m, f, e)
  BY <1>1, <1>4 DEF Under
<1>. DEFINE x == Entry(c)
            o == sub[x].wait
<1>6. o \notin Sems
  BY <1>2, <1>4, WaitObjectsAssumption
<1>7. /\ c.at <= Len(subList[c.event]) /\ ~m.sub[x].blocked /\ o # c.event
      /\ (o \in Sems => m.value[o] = 0) /\ (o \in Events => InOrder(subList[o], m.sub))
      /\ n = Link(m, x) /\ x = Entry(c) /\ o = sub[x].wait
  BY <1>2, <1>4, <1>6
<1>. HIDE DEF x, o
<1>. QED
  BY <1>4, <1>5, <1>7, LinkAdvances, Zenon

\* The entry waits for a semaphore that cannot be taken.
LEMMA SemaphoreAdvances ==
    ASSUME Lists, NEW m, NEW ls, NEW e, Under(m, ls, e), NEW l, l = Last(ls),
           l.at <= Len(subList[l.event]), NEW x, x = Entry(l), ~m.sub[x].blocked,
           NEW o, o = m.sub[x].wait, o \in Sems, m.value[o] = 0,
           NEW n, n = Link(m, x), NEW r, r = Forward(ls)
    PROVE  Advances(m, ls, e, n, r)
<1>1. AtEntry(m, ls, l, x)
  BY EntryWaits, Zenon
<1>2. l \in Calls /\ l.event \in Events /\ o = sub[x].wait
  BY <1>1 DEF AtEntry
<1>3. o \notin Events /\ o # l.event
  BY <1>2, WaitObjectsAssumption
<1>. QED
  BY <1>2, <1>3, LinkAdvances, Zenon

\* The outermost call is at an entry.
LEMMA FirstEntry ==
    ASSUME Lists, NEW m, NEW ls, NEW e, Under(m, ls, e), Last(ls).at <= Len(subList[Last(ls).event])
    PROVE  m.sub[Entry(ls[1])].wait \in Objects
<1>1. Calm(m) /\ ls \in Seq(Calls) /\ ls # <<>> /\ Chained(m, ls)
  BY DEF Under, Descending
<1>2. Last(ls) = ls[Len(ls)] /\ Len(ls) \in Nat \ {0} /\ 1 \in 1 .. Len(ls)
  <2>1. Last(ls) = ls[Len(ls)] /\ Len(ls) \in Nat \ {0}
    BY <1>1, FrontFacts
  <2>. QED
    BY <2>1
<1>3. ls[1] \in Calls
  BY <1>1, <1>2, ElementOfSeq
<1>4. ls[1].at <= Len(subList[ls[1].event])
  <2>1. CASE Len(ls) = 1
    BY <1>2, <2>1
  <2>2. CASE Len(ls) # 1
    BY <1>1, <1>2, <2>2 DEF Chained
  <2>. QED
    BY <2>1, <2>2
<1>5. ls[1].event \in Events /\ ls[1].at \in Nat \ {0}
  BY <1>3 DEF Calls
<1>6. Entry(ls[1]) \in Subs /\ sub[Entry(ls[1])] # None /\ sub[Entry(ls[1])].wait \in Objects
  BY <1>4, <1>5, EntryFacts DEF Entry
<1>. QED
  BY <1>1, <1>6 DEF Calm, Same

\* A semaphore is taken, and the wait ends.
LEMMA TakeEnds ==
    ASSUME Lists, NEW m, NEW ls, NEW e, Under(m, ls, e), NEW l, l = Last(ls),
           l.at <= Len(subList[l.event]), NEW o \in Sems, m.value[o] # 0,
           NEW n, n = [m EXCEPT !.value[o] = m.value[o] - 1],
           NEW k, k = m.sub[Entry(ls[1])].wait
    PROVE  Waiting(n, <<>>, k, e)
<1>. DEFINE d == m.value[o] - 1
            v == Valued(m.value, o, d)
<1>1. Calm(m) /\ m \in Mems /\ Tokens(m.queue, m.value) /\ m.value \in [Sems -> 0 .. MaxValue]
  BY DEF Under, Calm, Mems
<1>2. d \in 0 .. MaxValue
  BY <1>1, WaitObjectsAssumption
<1>3. n = [m EXCEPT !.value[o] = d]
  OBVIOUS
<1>. HIDE DEF d
<1>4. Counted(m, n, v, m.failed)
  <2>1. Counted(m, [m EXCEPT !.value[o] = d], Valued(m.value, o, d), m.failed)
    BY <1>1, <1>2, ValueCounted, Zenon
  <2>. QED
    BY <1>3, <2>1, Zenon
<1>5. v[o] = d /\ \A r \in Sems : r # o => v[r] = m.value[r]
  BY <1>1, <1>2, ValuedFacts
<1>. HIDE DEF v
<1>6. Tokens(m.queue, v)
  BY <1>1, <1>5 DEF Tokens
<1>7. Calm(n)
  BY <1>1, <1>4, <1>6, CalmCounted
<1>8. k \in Objects /\ k # None
  BY FirstEntry, WaitObjectsAssumption
<1>9. <<>> \in Seq(Calls) /\ Descending(n, <<>>)
  BY NothingDescends
<1>10. /\ m.blocked = blocked /\ Armed(m.queue, subList, m.sub) /\ m.failed = "none"
  BY DEF Under
<1>11. n.blocked = m.blocked /\ n.queue = m.queue /\ n.sub = m.sub /\ n.failed = m.failed
  BY <1>4 DEF Counted
<1>. QED
  BY <1>7, <1>8, <1>9, <1>10, <1>11 DEF Waiting

\* An event is waited for inside of its own wait.
LEMMA EndlessEnds ==
    ASSUME Lists, NEW m, NEW ls, NEW e, Under(m, ls, e), NEW l, l = Last(ls),
           l.at <= Len(subList[l.event]), NEW x, x = Entry(l),
           NEW o \in Events, o = m.sub[x].wait, NEW i \in 1 .. Len(ls), ls[i].event = o,
           NEW n, n = [m EXCEPT !.failed = "endless"]
    PROVE  Waiting(n, <<>>, None, e)
<1>. DEFINE k == Len(ls)
            E == {ls[j].event : j \in i .. k}
<1>1. /\ Calm(m) /\ m \in Mems /\ Tokens(m.queue, m.value) /\ ls \in Seq(Calls) /\ ls # <<>>
      /\ Chained(m, ls) /\ m.blocked = blocked /\ Armed(m.queue, subList, m.sub)
  BY DEF Under, Calm, Descending
<1>2. k \in Nat \ {0} /\ l = ls[k]
  BY <1>1, FrontFacts
<1>3. \A j \in 1 .. k : ls[j].event \in Events /\ ls[j].at \in Nat \ {0}
  <2>1. \A j \in 1 .. k : ls[j] \in Calls
    BY <1>1, ElementOfSeq
  <2>. QED
    BY <2>1 DEF Calls
<1>4. AtEntry(m, ls, l, x)
  BY EntryWaits, Zenon
<1>5. x \in Subs /\ sub[x] # None /\ sub[x].event = l.event /\ sub[x].wait = o
  BY <1>4 DEF AtEntry
<1>6. i \in Nat /\ i <= k /\ 1 <= i
  BY <1>2
<1>c. \A j \in 1 .. k : j # k => /\ ls[j].at <= Len(subList[ls[j].event])
                                 /\ sub[Entry(ls[j])].wait = ls[j + 1].event
  BY <1>1 DEF Chained
<1>i. ls[i].event = o
  OBVIOUS
<1>. HIDE DEF k
<1>7. E \in (SUBSET Events) \ {{}}
  <2>1. E \subseteq Events
    BY <1>2, <1>3, <1>6
  <2>2. ls[i].event \in E
    BY <1>2, <1>6
  <2>. QED
    BY <2>1, <2>2
<1>8. ASSUME NEW d \in E PROVE \E y \in Subs : sub[y] # None /\ sub[y].event = d /\ sub[y].wait \in E
  <2>1. PICK j \in i .. k : d = ls[j].event
    BY <1>8
  <2>2. j \in 1 .. k
    BY <1>2, <1>6
  <2>3. CASE j = k
    <3>1. o \in E
      BY <1>2, <1>6, <1>i
    <3>2. d = l.event
      BY <1>2, <2>1, <2>3
    <3>. QED
      BY <1>5, <3>1, <3>2
  <2>4. CASE j # k
    <3>1. j + 1 \in i .. k
      BY <1>2, <1>6, <2>4
    <3>2. ls[j + 1].event \in E
      BY <3>1
    <3>3. /\ ls[j].at <= Len(subList[ls[j].event])
          /\ sub[Entry(ls[j])].wait = ls[j + 1].event
      BY <1>c, <2>2, <2>4
    <3>. DEFINE y == Entry(ls[j])
    <3>4. y \in Subs /\ sub[y] # None /\ sub[y].event = ls[j].event
      BY <1>3, <2>2, <3>3, EntryFacts DEF Entry
    <3>. QED
      BY <2>1, <3>2, <3>3, <3>4
  <2>. QED
    BY <2>3, <2>4
<1>9. Circle(sub)
  BY <1>7, <1>8 DEF Circle
<1>10. Counted(m, n, m.value, "endless")
  BY <1>1, FailedCounted
<1>11. Calm(n)
  BY <1>1, <1>10, CalmCounted
<1>12. <<>> \in Seq(Calls) /\ Descending(n, <<>>)
  BY NothingDescends
<1>13. n.blocked = m.blocked /\ n.queue = m.queue /\ n.sub = m.sub /\ n.failed = "endless"
  BY <1>10 DEF Counted
<1>. QED
  BY <1>1, <1>9, <1>11, <1>12, <1>13 DEF Waiting

\* The entry waits for an event, which waits for its own entries first.
LEMMA CallAdvances ==
    ASSUME Lists, NEW m, NEW ls, NEW e, Under(m, ls, e), NEW l, l = Last(ls),
           l.at <= Len(subList[l.event]), NEW x, x = Entry(l), ~m.sub[x].blocked,
           NEW o \in Events, o = m.sub[x].wait, \A i \in 1 .. Len(ls) : ls[i].event # o,
           NEW r, r = Append(ls, Call(o))
    PROVE  Advances(m, ls, e, m, r)
<1>. DEFINE k == Len(ls)
            c == Call(o)
<1>1. /\ ls \in Seq(Calls) /\ ls # <<>> /\ ls[1].event = e
      /\ Ranged(ls) /\ Various(ls) /\ Chained(m, ls) /\ Passed(m, ls)
  BY DEF Under, Descending
<1>2. k \in Nat \ {0} /\ l = ls[k]
  BY <1>1, FrontFacts
<1>3. AtEntry(m, ls, l, x)
  BY EntryWaits, Zenon
<1>4. /\ x \in Subs /\ sub[x].wait = o /\ x = Entry(l) /\ x = subList[l.event][l.at]
      /\ l.event \in Events /\ l.at \in Nat \ {0}
  BY <1>3 DEF AtEntry
<1>5. c \in Calls /\ c.event = o /\ c.at = 1
  BY DEF Call, Calls
<1>. HIDE DEF c
<1>6. /\ r \in Seq(Calls) /\ Len(r) = k + 1 /\ r[k + 1] = c
      /\ \A i \in 1 .. k : r[i] = ls[i]
  <2>1. r = Append(ls, c)
    BY DEF c
  <2>. QED
    BY <1>1, <1>5, <2>1, AppendProperties
<1>o. \A i \in 1 .. k : ls[i].event # o
  OBVIOUS
<1>. HIDE DEF k
<1>7. Len(subList[o]) \in Nat
  BY LenProperties DEF Lists
<1>i. \A i \in 1 .. k + 1 : i \in 1 .. k \/ i = k + 1
  BY <1>2
<1>j. \A i \in 1 .. k + 1 : i # k + 1 => i \in 1 .. k
  BY <1>2
<1>8. Ranged(r)
  <2>. SUFFICES ASSUME NEW i \in 1 .. k + 1
                PROVE  r[i].at <= Len(subList[r[i].event]) + 1
    BY <1>6 DEF Ranged
  <2>1. CASE i \in 1 .. k
    BY <1>1, <1>6, <2>1 DEF Ranged, k
  <2>2. CASE i = k + 1
    BY <1>5, <1>6, <1>7, <2>2
  <2>. QED
    BY <1>i, <2>1, <2>2
<1>9. Various(r)
  <2>. SUFFICES ASSUME NEW i \in 1 .. k + 1, NEW j \in 1 .. k + 1, i # j
                PROVE  r[i].event # r[j].event
    BY <1>6 DEF Various
  <2>1. CASE i \in 1 .. k /\ j \in 1 .. k
    BY <1>1, <1>6, <2>1 DEF Various, k
  <2>2. CASE i \in 1 .. k /\ j = k + 1
    BY <1>5, <1>6, <1>o, <2>2
  <2>3. CASE i = k + 1 /\ j \in 1 .. k
    BY <1>5, <1>6, <1>o, <2>3
  <2>. QED
    BY <1>i, <2>1, <2>2, <2>3
<1>10. Chained(m, r)
  <2>. SUFFICES ASSUME NEW i \in 1 .. k
                PROVE  /\ r[i].at <= Len(subList[r[i].event])
                       /\ ~m.sub[Entry(r[i])].blocked
                       /\ sub[Entry(r[i])].wait = r[i + 1].event
    BY <1>6, <1>j DEF Chained
  <2>1. CASE i = k
    <3>1. r[i] = l /\ r[i + 1].event = o
      BY <1>2, <1>5, <1>6, <2>1
    <3>. QED
      BY <1>4, <3>1
  <2>2. CASE i # k
    <3>1. i + 1 \in 1 .. k
      BY <1>2, <2>2
    <3>2. r[i] = ls[i] /\ r[i + 1] = ls[i + 1]
      BY <1>6, <3>1
    <3>. QED
      BY <1>1, <2>2, <3>2 DEF Chained, k
  <2>. QED
    BY <2>1, <2>2
<1>11. Passed(m, r)
  <2>. SUFFICES ASSUME NEW i \in 1 .. k + 1, NEW j \in Nat \ {0}, j < r[i].at
                PROVE  m.sub[subList[r[i].event][j]].blocked = TRUE
    BY <1>6 DEF Passed
  <2>1. i # k + 1
    BY <1>5, <1>6
  <2>2. i \in 1 .. k
    BY <1>i, <2>1
  <2>. QED
    BY <1>1, <1>6, <2>2 DEF Passed, k
<1>12. r # <<>> /\ r[1].event = e
  <2>1. 1 \in 1 .. k /\ k + 1 # 0
    BY <1>2
  <2>. QED
    BY <1>1, <1>6, <2>1, EmptyFacts
<1>13. Under(m, r, e)
  BY <1>6, <1>8, <1>9, <1>10, <1>11, <1>12 DEF Under, Descending
<1>14. x \notin Seen(ls)
  BY NotSeen, Zenon
<1>15. Seen(r) = Seen(ls) \cup {x}
  <2>1. ASSUME NEW y \in Seen(ls) PROVE y \in Seen(r)
    <3>1. PICK i \in 1 .. k, j \in Nat \ {0} :
             /\ j <= Len(subList[ls[i].event]) /\ y = subList[ls[i].event][j] /\ y \in Subs
             /\ j < ls[i].at \/ (j = ls[i].at /\ i # k)
      BY <2>1 DEF Seen, k
    <3>2. r[i] = ls[i] /\ i \in 1 .. k + 1 /\ i # k + 1
      BY <1>2, <1>6
    <3>. QED
      BY <1>6, <3>1, <3>2 DEF Seen
  <2>2. x \in Seen(r)
    <3>1. r[k] = l /\ k \in 1 .. k + 1 /\ k # k + 1
      BY <1>2, <1>6
    <3>. QED
      BY <1>4, <1>6, <3>1 DEF Seen
  <2>3. ASSUME NEW y \in Seen(r), y # x PROVE y \in Seen(ls)
    <3>1. PICK i \in 1 .. k + 1, j \in Nat \ {0} :
             /\ j <= Len(subList[r[i].event]) /\ y = subList[r[i].event][j] /\ y \in Subs
             /\ j < r[i].at \/ (j = r[i].at /\ i # k + 1)
      BY <1>6, <2>3 DEF Seen
    <3>2. i # k + 1
      BY <1>5, <1>6, <3>1
    <3>3. i \in 1 .. k /\ r[i] = ls[i]
      BY <1>6, <1>i, <3>2
    <3>4. j < ls[i].at \/ (j = ls[i].at /\ i # k)
      BY <1>2, <1>4, <2>3, <3>1, <3>3
    <3>5. j <= Len(subList[ls[i].event]) /\ y = subList[ls[i].event][j]
      BY <3>1, <3>3
    <3>6. y \in Subs
      BY <3>1
    <3>. QED
      BY <3>3, <3>4, <3>5, <3>6, Zenon DEF Seen, k
  <2>. QED
    BY <2>1, <2>2, <2>3
<1>16. Labour(m, r) + 1 <= Labour(m, ls)
  BY <1>14, <1>15, LabourSeen
<1>. QED
  BY <1>13, <1>16 DEF Advances

-----------------------------------------------------------------------------
(* A wait ends, and what it leaves.                                        *)

\* One step, from s to z.
Waits(s, e) == s \in WaitStates /\ Waiting(s.mem, s.loops, s.taken, e)
Progress(s, z, e) ==
    Waits(z, e) /\ (z.loops # <<>> => Labour(z.mem, z.loops) + 1 <= Labour(s.mem, s.loops))

\* The record of a step from its fields.
LEMMA StateWaits ==
    ASSUME NEW n, NEW r, NEW k, NEW e, Waiting(n, r, k, e), NEW z, z.mem = n, z.loops = r, z.taken = k,
           z = [mem |-> n, loops |-> r, taken |-> k]
    PROVE  Waits(z, e)
BY DEF Waiting, Waits, WaitStates, Calm

\* A step that goes on with the loops makes progress.
LEMMA AdvancesProgress ==
    ASSUME NEW s, NEW e, NEW n, NEW r, Advances(s.mem, s.loops, e, n, r),
           NEW z, z = [mem |-> n, loops |-> r, taken |-> None]
    PROVE  Progress(s, z, e)
<1>1. Waiting(n, r, None, e)
  BY UnderWaiting DEF Advances
<1>2. z.mem = n /\ z.loops = r /\ z.taken = None
  OBVIOUS
<1>3. Waits(z, e)
  BY <1>1, <1>2, StateWaits, Zenon
<1>. QED
  BY <1>2, <1>3 DEF Advances, Progress

\* A step that leaves no loop makes progress.
LEMMA EndsProgress ==
    ASSUME NEW s, NEW e, NEW n, NEW k, Waiting(n, <<>>, k, e),
           NEW z, z = [mem |-> n, loops |-> <<>>, taken |-> k]
    PROVE  Progress(s, z, e)
<1>2. z.mem = n /\ z.loops = <<>> /\ z.taken = k
  OBVIOUS
<1>3. Waits(z, e)
  BY <1>2, StateWaits, Zenon
<1>. QED
  BY <1>2, <1>3 DEF Progress

\* Every step of __eventWait keeps the order of its loops and the queues, and
\* brings the measure down or ends the call.
LEMMA WaitStepProgress ==
    ASSUME Lists, NEW s, NEW e, Waits(s, e), s.loops # <<>>
    PROVE  Progress(s, WaitStep(s), e)
<1>. DEFINE m == s.mem
            ls == s.loops
            l == Last(ls)
            x == Entry(l)
            o == m.sub[x].wait
            z == WaitStep(s)
<1>0. s = [mem |-> m, loops |-> ls, taken |-> None] /\ Under(m, ls, e)
  <2>1. Under(m, ls, e) /\ s.taken = None
    BY WaitingUnder DEF Waits
  <2>. QED
    BY <2>1 DEF Waits, WaitStates
<1>d. m = s.mem /\ ls = s.loops /\ l = Last(ls) /\ x = Entry(l) /\ o = m.sub[x].wait /\ ls # <<>>
  OBVIOUS
<1>. HIDE DEF m, ls, l, x, o
<1>a. ASSUME l.at <= Len(subList[l.event])
      PROVE  m.sub[x].blocked \in BOOLEAN /\ (o \in Sems \/ o \in Events) /\ ~(l.at > Len(subList[l.event]))
  <2>1. AtEntry(m, ls, l, x)
    BY <1>0, <1>a, <1>d, EntryWaits, Zenon
  <2>2. l.event \in Events /\ l.at \in Nat /\ m.sub[x].blocked \in BOOLEAN /\ o \in Objects
    BY <1>d, <2>1 DEF AtEntry
  <2>3. Len(subList[l.event]) \in Nat
    BY <2>2, LenProperties DEF Lists
  <2>. QED
    BY <1>a, <2>2, <2>3 DEF Objects
<1>b. ASSUME ~(l.at <= Len(subList[l.event]))
      PROVE  l.at > Len(subList[l.event])
  <2>1. l \in Calls /\ l.event \in Events
    BY <1>0, <1>b, <1>d, ListPassed, Zenon
  <2>2. Len(subList[l.event]) \in Nat /\ l.at \in Nat
    BY <2>1, LenProperties DEF Lists, Calls
  <2>. QED
    BY <1>b, <2>2
<1>1. CASE ~(l.at <= Len(subList[l.event])) /\ Len(ls) = 1
  <2>1. z = [mem |-> m, loops |-> <<>>, taken |-> None]
    <3>1. z = [s EXCEPT !.loops = <<>>]
      BY <1>1, <1>b, <1>d DEF WaitStep
    <3>. QED
      BY <1>0, <3>1
  <2>2. Waiting(m, <<>>, None, e)
    BY <1>0, <1>1, <1>d, WaitEnds, Zenon
  <2>. QED
    BY <2>1, <2>2, EndsProgress, Zenon
<1>2. CASE ~(l.at <= Len(subList[l.event])) /\ Len(ls) # 1
  <2>. DEFINE f == Front(ls)
              n == Link(m, Entry(Last(f)))
              r == Forward(f)
  <2>1. z = [mem |-> n, loops |-> r, taken |-> None]
    <3>1. z = [s EXCEPT !.mem = n, !.loops = r]
      BY <1>2, <1>b, <1>d DEF WaitStep
    <3>. HIDE DEF n, r
    <3>. QED
      BY <1>0, <3>1
  <2>2. Advances(m, ls, e, n, r)
    BY <1>0, <1>2, <1>d, ReturnAdvances, Zenon
  <2>. HIDE DEF n, r
  <2>. QED
    BY <1>d, <2>1, <2>2, AdvancesProgress, Zenon
<1>3. CASE l.at <= Len(subList[l.event]) /\ m.sub[x].blocked
  <2>. DEFINE r == Forward(ls)
  <2>1. z = [mem |-> m, loops |-> r, taken |-> None]
    <3>1. z = [s EXCEPT !.loops = r]
      BY <1>3, <1>a, <1>d DEF WaitStep
    <3>. HIDE DEF r
    <3>. QED
      BY <1>0, <3>1
  <2>2. Advances(m, ls, e, m, r)
    BY <1>0, <1>3, <1>d, PassAdvances, Zenon
  <2>. HIDE DEF r
  <2>. QED
    BY <1>d, <2>1, <2>2, AdvancesProgress, Zenon
<1>4. CASE l.at <= Len(subList[l.event]) /\ ~m.sub[x].blocked /\ o \in Sems /\ m.value[o] = 0
  <2>. DEFINE n == Link(m, x)
              r == Forward(ls)
  <2>1. z = [mem |-> n, loops |-> r, taken |-> None]
    <3>1. z = [[s EXCEPT !.loops = r] EXCEPT !.mem = n]
      BY <1>4, <1>a, <1>d, WaitObjectsAssumption DEF WaitStep
    <3>. HIDE DEF n, r
    <3>. QED
      BY <1>0, <3>1
  <2>2. Advances(m, ls, e, n, r)
    BY <1>0, <1>4, <1>d, SemaphoreAdvances, Zenon
  <2>. HIDE DEF n, r
  <2>. QED
    BY <1>d, <2>1, <2>2, AdvancesProgress, Zenon
<1>5. CASE l.at <= Len(subList[l.event]) /\ ~m.sub[x].blocked /\ o \in Sems /\ m.value[o] # 0
  <2>. DEFINE n == [m EXCEPT !.value[o] = m.value[o] - 1]
              k == m.sub[Entry(ls[1])].wait
  <2>1. z = [mem |-> n, loops |-> <<>>, taken |-> k]
    <3>1. z = [s EXCEPT !.mem.value[o] = m.value[o] - 1, !.loops = <<>>, !.taken = k]
      BY <1>5, <1>a, <1>d, WaitObjectsAssumption DEF WaitStep
    <3>. HIDE DEF k
    <3>. QED
      BY <1>0, <1>d, <3>1
  <2>2. Waiting(n, <<>>, k, e)
    BY <1>0, <1>5, <1>d, TakeEnds, Zenon
  <2>. HIDE DEF n, k
  <2>. QED
    BY <2>1, <2>2, EndsProgress, Zenon
<1>6. CASE /\ l.at <= Len(subList[l.event]) /\ ~m.sub[x].blocked /\ o \in Events
           /\ \E i \in 1 .. Len(ls) : ls[i].event = o
  <2>. DEFINE n == [m EXCEPT !.failed = "endless"]
  <2>1. z = [mem |-> n, loops |-> <<>>, taken |-> None]
    <3>1. z = [s EXCEPT !.mem.failed = "endless", !.loops = <<>>]
      <4>1. DOMAIN ls = 1 .. Len(ls)
        BY <1>0, LenProperties DEF Under
      <4>. QED
        BY <1>6, <1>a, <1>d, <4>1, WaitObjectsAssumption DEF WaitStep
    <3>. QED
      BY <1>0, <1>d, <3>1
  <2>2. Waiting(n, <<>>, None, e)
    BY <1>0, <1>6, <1>d, EndlessEnds, Zenon
  <2>. HIDE DEF n
  <2>. QED
    BY <2>1, <2>2, EndsProgress, Zenon
<1>7. CASE /\ l.at <= Len(subList[l.event]) /\ ~m.sub[x].blocked /\ o \in Events
           /\ \A i \in 1 .. Len(ls) : ls[i].event # o
  <2>. DEFINE r == Append(ls, Call(o))
  <2>1. z = [mem |-> m, loops |-> r, taken |-> None]
    <3>1. z = [s EXCEPT !.loops = r]
      <4>1. DOMAIN ls = 1 .. Len(ls)
        BY <1>0, LenProperties DEF Under
      <4>. QED
        BY <1>7, <1>a, <1>d, <4>1, WaitObjectsAssumption DEF WaitStep
    <3>. HIDE DEF r
    <3>. QED
      BY <1>0, <3>1
  <2>2. Advances(m, ls, e, m, r)
    BY <1>0, <1>7, <1>d, CallAdvances, Zenon
  <2>. HIDE DEF r
  <2>. QED
    BY <1>d, <2>1, <2>2, AdvancesProgress, Zenon
<1>. HIDE DEF z
<1>8. CASE l.at <= Len(subList[l.event])
  BY <1>3, <1>4, <1>5, <1>6, <1>7, <1>8, <1>a DEF z
<1>9. CASE ~(l.at <= Len(subList[l.event]))
  BY <1>1, <1>2, <1>9 DEF z
<1>. QED
  BY <1>8, <1>9

\* What Waited computes: there is a state after each of its steps.
WaitRun(f, s, n) ==
    /\ f[0] = s
    /\ \A i \in 1 .. n : f[i] = WaitStep(f[i - 1])
    /\ Iterate(WaitStep, s, n) = f[n]

\* The states that the steps of __eventWait go through.
LEMMA WaitRuns ==
    ASSUME Lists, NEW e, NEW s, Waits(s, e), NEW n \in Nat
    PROVE  \E f : WaitRun(f, s, n)
<1>. DEFINE G == {x \in WaitStates : Waits(x, e)}
            F == [z \in G \X (1 .. n) |-> WaitStep(z[1])]
            Step(f) == [i \in 0 .. n |-> IF i = 0 THEN s ELSE WaitStep(f[i - 1])]
            after == CHOOSE f : f = Step(f)
<1>0. s \in G
  BY DEF Waits
<1>1. Loop(G, n, F)
  <2>. SUFFICES ASSUME NEW x \in G
                PROVE  WaitStep(x) \in G
    BY DEF Loop
  <2>1. CASE x.loops = <<>>
    <3>1. WaitStep(x) = x
      BY <2>1 DEF WaitStep
    <3>. QED
      BY <3>1
  <2>2. CASE x.loops # <<>>
    <3>1. Progress(x, WaitStep(x), e)
      BY <2>2, WaitStepProgress
    <3>. QED
      BY <3>1 DEF Progress, Waits
  <2>. QED
    BY <2>1, <2>2
<1>2. PICK h : RunOf(G, n, F, s, h)
  <2>. HIDE DEF F, G
  <2>. QED
    BY <1>0, <1>1, LoopRuns
<1>h. /\ h \in [0 .. n -> G] /\ h[0] = s
      /\ \A i \in 1 .. n : h[i] = F[<<h[i - 1], i>>]
  BY <1>2 DEF RunOf
<1>3. \A i \in 1 .. n : h[i] = WaitStep(h[i - 1])
  <2>. SUFFICES ASSUME NEW i \in 1 .. n
                PROVE  F[<<h[i - 1], i>>] = WaitStep(h[i - 1])
    BY <1>h
  <2>1. h[i - 1] \in G
    BY <1>h
  <2>. HIDE DEF G
  <2>. QED
    BY <2>1
<1>4. h = Step(h)
  <2>1. \A i \in 0 .. n : i # 0 => i \in 1 .. n
    OBVIOUS
  <2>. QED
    BY <1>h, <1>3, <2>1
<1>5. after = Step(after)
  BY <1>4
<1>. HIDE DEF after
<1>6. after[0] = s /\ \A i \in 1 .. n : after[i] = WaitStep(after[i - 1])
  <2>1. 0 \in 0 .. n /\ \A i \in 1 .. n : i \in 0 .. n /\ i # 0
    OBVIOUS
  <2>. DEFINE g == Step(after)
  <2>2. g[0] = s /\ \A i \in 1 .. n : g[i] = WaitStep(after[i - 1])
    BY <2>1
  <2>. HIDE DEF g
  <2>3. after = g
    BY <1>5 DEF g
  <2>. QED
    BY <2>2, <2>3
<1>7. Iterate(WaitStep, s, n) = after[n]
  BY Zenon DEF Iterate, after
<1>. QED
  BY <1>6, <1>7 DEF WaitRun

\* A wait ends: it has taken a semaphore, or linked every sub-event of e, or the
\* events are attached in a circle.
LEMMA WaitedDone ==
    ASSUME Lists, Calm(State), failed = "none", Armed(queue, subList, sub), NEW e \in Events
    PROVE  Waits(Waited(e), e) /\ Waited(e).loops = <<>>
<1>. DEFINE m == State
            c == Call(e)
            ls == <<c>>
            s == [mem |-> m, loops |-> ls, taken |-> None]
            n == WaitSteps
<1>1. m.blocked = blocked /\ m.queue = queue /\ m.sub = sub /\ m.failed = failed /\ Calm(m)
  BY DEF State
<1>. HIDE DEF m
<1>2. c \in Calls /\ c.event = e /\ c.at = 1
  BY DEF Call, Calls
<1>. HIDE DEF c
<1>3. ls \in Seq(Calls) /\ Len(ls) = 1 /\ ls[1] = c
  <2>1. ls \in Seq(Calls) /\ Len(ls) = 1
    BY <1>2, SingletonFacts
  <2>. QED
    BY <2>1
<1>. HIDE DEF ls
<1>4. ls # <<>> /\ Len(subList[e]) \in Nat
  <2>1. ls # <<>>
    BY <1>3, EmptyFacts
  <2>2. Len(subList[e]) \in Nat
    BY LenProperties DEF Lists
  <2>. QED
    BY <2>1, <2>2
<1>5. Descending(m, ls)
  <2>0. \A i \in 1 .. Len(ls) : i = 1 /\ ls[i] = c
    BY <1>3
  <2>1. Ranged(ls)
    BY <1>2, <1>4, <2>0 DEF Ranged
  <2>2. Various(ls) /\ Chained(m, ls)
    BY <1>3, <2>0 DEF Various, Chained
  <2>3. Passed(m, ls)
    BY <1>2, <2>0 DEF Passed
  <2>. QED
    BY <2>1, <2>2, <2>3 DEF Descending
<1>6. Under(m, ls, e)
  BY <1>1, <1>2, <1>3, <1>4, <1>5 DEF Under
<1>7. Waits(s, e) /\ s.mem = m /\ s.loops = ls
  <2>1. Waiting(m, ls, None, e)
    BY <1>6, UnderWaiting
  <2>2. s.mem = m /\ s.loops = ls /\ s.taken = None /\ s = [mem |-> m, loops |-> ls, taken |-> None]
    OBVIOUS
  <2>. HIDE DEF s
  <2>. QED
    BY <2>1, <2>2, StateWaits, Zenon
<1>8. n \in Nat /\ Labour(m, ls) \in Nat \ {0} /\ Labour(m, ls) <= n
  <2>1. Size \in Nat
    BY FiniteFree
  <2>. QED
    BY <2>1, LabourNat DEF WaitSteps
<1>9. Waited(e) = Iterate(WaitStep, s, n)
  BY DEF Waited, WaitSteps, Size, m, ls, c
<1>. HIDE DEF s, n
<1>p. PICK f : WaitRun(f, s, n)
  BY <1>7, <1>8, WaitRuns, Zenon
<1>10. /\ f[0] = s
       /\ \A i \in 1 .. n : f[i] = WaitStep(f[i - 1])
       /\ Iterate(WaitStep, s, n) = f[n]
  BY <1>p DEF WaitRun
<1>. DEFINE A == {i \in 0 .. n : /\ Waits(f[i], e)
                                 /\ f[i].loops # <<>> => Labour(f[i].mem, f[i].loops) + i <= n}
<1>11. 0 \in A
  BY <1>7, <1>8, <1>10
<1>12. ASSUME NEW i \in 1 .. n, i - 1 \in A PROVE i \in A
  <2>. DEFINE x == f[i - 1]
              y == f[i]
  <2>1. /\ Waits(x, e) /\ i - 1 \in 0 .. n
        /\ x.loops # <<>> => Labour(x.mem, x.loops) + (i - 1) <= n
    BY <1>12
  <2>2. y = WaitStep(x) /\ i \in 0 .. n
    BY <1>8, <1>10
  <2>. HIDE DEF x, y
  <2>3. CASE x.loops = <<>>
    <3>1. y = x
      BY <2>2, <2>3 DEF WaitStep
    <3>. QED
      BY <2>1, <2>2, <2>3, <3>1 DEF y
  <2>4. CASE x.loops # <<>>
    <3>1. Progress(x, y, e)
      BY <2>1, <2>2, <2>4, WaitStepProgress
    <3>2. Waits(y, e) /\ (y.loops # <<>> => Labour(y.mem, y.loops) + 1 <= Labour(x.mem, x.loops))
      BY <3>1 DEF Progress
    <3>3. Labour(y.mem, y.loops) \in Nat /\ Labour(x.mem, x.loops) \in Nat
      BY LabourNat
    <3>4. y.loops # <<>> => Labour(y.mem, y.loops) + i <= n
      BY <1>8, <2>1, <2>4, <3>2, <3>3
    <3>. QED
      BY <2>2, <3>2, <3>4 DEF y
  <2>. QED
    BY <2>3, <2>4
<1>. HIDE DEF A
<1>13. n \in A
  <2>1. \A i \in 0 .. n : i \in A
    BY <1>8, <1>11, <1>12, UpTo
  <2>. QED
    BY <1>8, <2>1
<1>. DEFINE z == f[n]
<1>14. Waits(z, e) /\ (z.loops # <<>> => Labour(z.mem, z.loops) + n <= n)
  BY <1>13 DEF A
<1>15. Waited(e) = z
  BY <1>9, <1>10
<1>. HIDE DEF z
<1>16. z.loops = <<>>
  <2>1. Labour(z.mem, z.loops) \in Nat \ {0}
    BY LabourNat
  <2>. QED
    BY <1>8, <1>14, <2>1
<1>. QED
  BY <1>14, <1>15, <1>16

-----------------------------------------------------------------------------
(* The calls that change queues step by step.                              *)

\* What a call starts with.
LEMMA InvState ==
    ASSUME Inv
    PROVE  /\ Lists /\ Calm(State)
           /\ State.blocked = blocked /\ State.result = result /\ State.value = value
           /\ State.queue = queue /\ State.sub = sub /\ State.failed = failed
<1>1. Lists
  BY DEF Inv, TypeOK, Lists, SubMemory
<1>2. /\ State.blocked = blocked /\ State.result = result /\ State.value = value
      /\ State.queue = queue /\ State.sub = sub /\ State.failed = failed
  BY DEF State
<1>3. State \in Mems
  BY DEF Inv, TypeOK, State, Mems, Flags, Codes, Queues, Entries, SubMemory
<1>4. Same(sub) /\ Awaited(queue)
  BY DEF Same, Awaited, Inv, Held
<1>5. Linked(alive, blocked, queue, sub) /\ Tokens(queue, value)
  BY DEF Inv
<1>. QED
  BY <1>1, <1>2, <1>3, <1>4, <1>5 DEF Calm

\* The sub-events refer to the same objects.
LEMMA SameRefers ==
    ASSUME NEW sb, Same(sb)
    PROVE  /\ \A o : Referred(open, sb, o) <=> Referred(open, sub, o)
           /\ Circle(sub) => Circle(sb)
           /\ \A sl : Listed(sl, sub) => Listed(sl, sb)
<1>1. \A o : Referred(open, sb, o) <=> Referred(open, sub, o)
  BY DEF Same, Referred
<1>2. ASSUME Circle(sub) PROVE Circle(sb)
  <2>1. PICK E \in (SUBSET Events) \ {{}} :
           \A e \in E : \E x \in Subs : sub[x] # None /\ sub[x].event = e /\ sub[x].wait \in E
    BY <1>2 DEF Circle
  <2>2. \A e \in E : \E x \in Subs : sb[x] # None /\ sb[x].event = e /\ sb[x].wait \in E
    BY <2>1 DEF Same
  <2>. QED
    BY <2>1, <2>2 DEF Circle
<1>3. \A sl : Listed(sl, sub) => Listed(sl, sb)
  BY DEF Same, Listed
<1>. QED
  BY <1>1, <1>2, <1>3

\* A call that leaves its memory in order keeps the invariant.
LEMMA BecomeInv ==
    ASSUME Inv, NEW m, Done(m), Become(m), UNCHANGED <<alive, open, subList>>
    PROVE  Inv'
<1>1. /\ blocked' = m.blocked /\ result' = m.result /\ value' = m.value
      /\ queue' = m.queue /\ sub' = m.sub /\ failed' = m.failed
      /\ alive' = alive /\ open' = open /\ subList' = subList
  BY DEF Become
<1>2. /\ m \in Mems /\ Same(m.sub) /\ Linked(alive, m.blocked, m.queue, m.sub)
      /\ Awaited(m.queue) /\ Tokens(m.queue, m.value)
      /\ m.failed # "none" => Circle(sub)
      /\ m.failed = "none" => Armed(m.queue, subList, m.sub)
  BY DEF Done, Calm
<1>3. /\ \A o : Referred(open, m.sub, o) <=> Referred(open, sub, o)
      /\ Circle(sub) => Circle(m.sub)
      /\ Listed(subList, sub) => Listed(subList, m.sub)
  BY <1>2, SameRefers
<1>4. TypeOK'
  BY <1>1, <1>2 DEF Inv, TypeOK, Mems, Flags, Codes, Queues, Entries, SubMemory
<1>5. Linked(alive', blocked', queue', sub') /\ Listed(subList', sub')
  BY <1>1, <1>2, <1>3 DEF Inv
<1>6. Held(open', queue', subList', sub')
  BY <1>1, <1>2, <1>3 DEF Inv, Held, Awaited
<1>7. Tokens(queue', value')
  BY <1>1, <1>2
<1>8. /\ failed' # "none" => Circle(sub')
      /\ failed' = "none" => Armed(queue', subList', sub')
  BY <1>1, <1>2, <1>3
<1>. QED
  BY <1>4, <1>5, <1>6, <1>7, <1>8 DEF Inv

\* The caller's result changes nothing else.
LEMMA DoneCounted ==
    ASSUME NEW m, Done(m), NEW n, NEW v, Counted(m, n, v, m.failed), Tokens(m.queue, v)
    PROVE  Done(n)
<1>1. Calm(n)
  BY CalmCounted DEF Done
<1>. QED
  BY <1>1 DEF Done, Counted

\* A call that is done still is after its result is stored.
LEMMA DoneReturns ==
    ASSUME NEW m, Done(m), NEW t, NEW code \in Codes
    PROVE  Done(Returns(m, t, code))
<1>1. m \in Mems /\ Tokens(m.queue, m.value)
  BY DEF Done, Calm
<1>2. Counted(m, Returns(m, t, code), m.value, m.failed)
  BY <1>1, ReturnsCounted
<1>. QED
  BY <1>1, <1>2, DoneCounted

\* Between two system calls every call is done.
LEMMA DoneState ==
    ASSUME Inv
    PROVE  Done(State)
<1>1. Calm(State) /\ State.queue = queue /\ State.sub = sub /\ State.failed = failed
  BY InvState
<1>. QED
  BY <1>1 DEF Done, Inv

\* A wakeup, and the call returns code.
LEMMA WakeupReturns ==
    ASSUME Inv, failed = "none", NEW o \in Objects, NEW all \in BOOLEAN, NEW code \in Codes,
           o \in Events /\ WakeupAll[o] => all = TRUE, NEW t, NEW back \in Codes
    PROVE  Done(Returns(Wakeup(State, o, all, code), t, back))
<1>. DEFINE m == State
<1>1. Lists /\ Calm(m) /\ m.failed = "none" /\ Armed(m.queue, subList, m.sub)
  BY InvState DEF Inv
<1>. HIDE DEF m
<1>2. Done(Wakeup(m, o, all, code))
  BY <1>1, WakeupDone
<1>. QED
  BY <1>2, DoneReturns DEF m

\* The results that the calls return are codes.
LEMMA CodeFacts == {-1, 0, 1} \subseteq Codes /\ Objects \subseteq Codes /\ 0 .. MaxValue \subseteq Codes
BY WaitObjectsAssumption DEF Codes

\* __semaphoreShutdown and __eventShutdown wake everybody.
LEMMA ShutdownInv ==
    ASSUME Inv, NEW t, NEW o \in Objects, Shutdown(t, o)
    PROVE  Inv'
<1>1. failed = "none"
  BY DEF Shutdown, CanCall
<1>2. Done(Returns(Wakeup(State, o, TRUE, -1), t, 1))
  BY <1>1, CodeFacts, WakeupReturns
<1>3. Become(Returns(Wakeup(State, o, TRUE, -1), t, 1)) /\ UNCHANGED <<alive, open, subList>>
  BY DEF Shutdown
<1>. QED
  BY <1>2, <1>3, BecomeInv

\* __eventSignal wakes one thread, or all of them.
LEMMA EventSignalInv ==
    ASSUME Inv, NEW t, NEW e \in Events, EventSignal(t, e, 0)
    PROVE  Inv'
<1>1. failed = "none" /\ e \in Objects /\ WakeupAll[e] \in BOOLEAN
  BY WaitObjectsAssumption DEF EventSignal, CanCall, Objects
<1>. DEFINE all == WakeupAll[e]
<1>2. all \in BOOLEAN /\ (WakeupAll[e] => all = TRUE)
  BY <1>1
<1>. HIDE DEF all
<1>3. Done(Returns(Wakeup(State, e, all, 0), t, 1))
  BY <1>1, <1>2, CodeFacts, WakeupReturns
<1>4. Become(Returns(Wakeup(State, e, all, 0), t, 1)) /\ UNCHANGED <<alive, open, subList>>
  BY DEF EventSignal, all
<1>. QED
  BY <1>3, <1>4, BecomeInv

\* __semaphoreSignal wakes somebody or, if nobody waits, adds a token.
LEMMA SemaphoreSignalInv ==
    ASSUME Inv, NEW t, NEW s \in Sems, SemaphoreSignal(t, s)
    PROVE  Inv'
<1>1. failed = "none" /\ s \in Objects /\ s \notin Events
  BY WaitObjectsAssumption DEF SemaphoreSignal, CanCall, Objects
<1>. DEFINE m == State
<1>m. /\ Done(m) /\ m \in Mems /\ m.value = value /\ m.queue = queue
      /\ value \in [Sems -> 0 .. MaxValue] /\ Tokens(queue, value)
  BY InvState, DoneState DEF Calm, Inv, TypeOK
<1>2. CASE queue[s] # <<>>
  <2>1. Done(Returns(Wakeup(m, s, FALSE, 0), t, 1))
    BY <1>1, CodeFacts, WakeupReturns
  <2>2. Become(Returns(Wakeup(m, s, FALSE, 0), t, 1)) /\ UNCHANGED <<alive, open, subList>>
    BY <1>2 DEF SemaphoreSignal
  <2>. QED
    BY <2>1, <2>2, BecomeInv
<1>3. CASE queue[s] = <<>>
  <2>. DEFINE k == value[s] + 1
              n == [m EXCEPT !.value[s] = k]
              v == Valued(m.value, s, k)
  <2>1. k \in 0 .. MaxValue
    <3>1. value[s] \in 0 .. MaxValue /\ value[s] < MaxValue
      BY <1>3, <1>m DEF SemaphoreSignal
    <3>. QED
      BY <3>1, WaitObjectsAssumption
  <2>2. Become(Returns(n, t, 1)) /\ UNCHANGED <<alive, open, subList>>
    BY <1>3 DEF SemaphoreSignal
  <2>. HIDE DEF k, m
  <2>3. Counted(m, n, v, m.failed)
    BY <1>m, <2>1, ValueCounted
  <2>4. v[s] = k /\ \A r \in Sems : r # s => v[r] = m.value[r]
    BY <1>m, <2>1, ValuedFacts
  <2>. HIDE DEF v, n
  <2>5. Tokens(m.queue, v)
    BY <1>3, <1>m, <2>4 DEF Tokens
  <2>6. Done(n)
    BY <1>m, <2>3, <2>5, DoneCounted
  <2>7. Done(Returns(n, t, 1))
    BY <2>6, CodeFacts, DoneReturns
  <2>. QED
    BY <2>2, <2>7, BecomeInv
<1>. QED
  BY <1>2, <1>3

\* A thread blocks on o.  If o is an event its sub-events are all linked.
LEMMA DoneBlock ==
    ASSUME NEW m, Done(m), m.failed = "none", NEW t \in Threads, t \in alive, ~m.blocked[t],
           NEW o \in Objects, o \in open, o \in Sems => m.value[o] = 0,
           o \in Events => InOrder(subList[o], m.sub)
    PROVE  Done(Block(m, t, o))
<1>. DEFINE n == Block(m, t, o)
<1>1. Calm(m) /\ Referred(open, sub, o) /\ Armed(m.queue, subList, m.sub)
  BY DEF Done, Referred
<1>2. n = Block(m, t, o)
  OBVIOUS
<1>. HIDE DEF n
<1>3. ThreadPut(m, n, o, t)
  BY <1>1, <1>2, CalmBlock, Zenon
<1>4. Calm(n) /\ Put(m, n, o, t) /\ n.sub = m.sub /\ n.failed = m.failed
  BY <1>3 DEF ThreadPut
<1>5. Armed(n.queue, subList, n.sub)
  <2>. SUFFICES ASSUME NEW e \in Events, WakeupAll[e], n.queue[e] # <<>>
                PROVE  InOrder(subList[e], m.sub)
    BY <1>4 DEF Armed
  <2>1. CASE e = o
    BY <2>1
  <2>2. CASE e # o
    BY <1>1, <1>4, <2>2 DEF Put, Armed, Objects
  <2>. QED
    BY <2>1, <2>2
<1>6. Done(n)
  BY <1>4, <1>5 DEF Done
<1>. QED
  BY <1>6 DEF n

\* __semaphoreWait takes a token or blocks.
LEMMA SemaphoreWaitInv ==
    ASSUME Inv, NEW t \in Threads, NEW s \in Sems, SemaphoreWait(t, s)
    PROVE  Inv'
<1>. DEFINE m == State
<1>1. /\ failed = "none" /\ t \in alive /\ ~blocked[t] /\ s \in open /\ s \in Objects
      /\ s \notin Events
  BY WaitObjectsAssumption DEF SemaphoreWait, CanCall, Objects
<1>m. /\ Done(m) /\ m \in Mems /\ m.value = value /\ m.queue = queue /\ m.blocked = blocked
      /\ value \in [Sems -> 0 .. MaxValue] /\ Tokens(queue, value) /\ m.failed = "none"
  BY <1>1, InvState, DoneState DEF Calm, Inv, TypeOK
<1>2. CASE value[s] = 0
  <2>1. Become(Block(m, t, s)) /\ UNCHANGED <<alive, open, subList>>
    BY <1>2 DEF SemaphoreWait
  <2>. HIDE DEF m
  <2>2. Done(Block(m, t, s))
    BY <1>1, <1>2, <1>m, DoneBlock
  <2>. QED
    BY <2>1, <2>2, BecomeInv
<1>3. CASE value[s] # 0
  <2>. DEFINE k == value[s] - 1
              n == [m EXCEPT !.value[s] = k]
              v == Valued(m.value, s, k)
  <2>1. k \in 0 .. MaxValue
    <3>1. value[s] \in 0 .. MaxValue
      BY <1>m
    <3>. QED
      BY <1>3, <3>1, WaitObjectsAssumption
  <2>2. Become(Returns(n, t, k)) /\ UNCHANGED <<alive, open, subList>>
    BY <1>3 DEF SemaphoreWait
  <2>. HIDE DEF k, m
  <2>3. Counted(m, n, v, m.failed)
    BY <1>m, <2>1, ValueCounted
  <2>4. v[s] = k /\ \A r \in Sems : r # s => v[r] = m.value[r]
    BY <1>m, <2>1, ValuedFacts
  <2>. HIDE DEF v, n
  <2>5. Tokens(m.queue, v)
    BY <1>3, <1>m, <2>4 DEF Tokens
  <2>6. Done(n)
    BY <1>m, <2>3, <2>5, DoneCounted
  <2>7. Done(Returns(n, t, k))
    BY <2>1, <2>6, CodeFacts, DoneReturns
  <2>. QED
    BY <2>2, <2>7, BecomeInv
<1>. QED
  BY <1>2, <1>3

\* __eventWait takes a token of an attached semaphore, blocks after it has linked
\* every sub-event, or does not return.
LEMMA EventWaitInv ==
    ASSUME Inv, NEW t \in Threads, NEW e \in Events, EventWait(t, e)
    PROVE  Inv'
<1>. DEFINE w == Waited(e)
            m == w.mem
<1>1. /\ failed = "none" /\ t \in alive /\ ~blocked[t] /\ e \in open /\ e \in Objects
      /\ e \notin Sems
  BY WaitObjectsAssumption DEF EventWait, CanCall, Objects
<1>2. Waits(w, e) /\ w.loops = <<>>
  BY <1>1, InvState, WaitedDone DEF Inv
<1>3. /\ Become(IF m.failed # "none" THEN m
                ELSE IF w.taken # None THEN Returns(m, t, w.taken) ELSE Block(m, t, e))
      /\ UNCHANGED <<alive, open, subList>>
  BY DEF EventWait
<1>. HIDE DEF w
<1>4. /\ Calm(m) /\ w.taken \in Objects \cup {None} /\ m.blocked = blocked
      /\ Armed(m.queue, subList, m.sub) /\ (m.failed # "none" => Circle(sub))
      /\ (w.taken = None /\ m.failed = "none" => \A x \in ToSet(subList[e]) : m.sub[x].blocked = TRUE)
  BY <1>2 DEF Waits, Waiting
<1>. HIDE DEF m
<1>5. Done(m)
  BY <1>4 DEF Done
<1>6. CASE m.failed # "none"
  <2>1. Become(m)
    BY <1>3, <1>6
  <2>. QED
    BY <1>3, <1>5, <2>1, BecomeInv
<1>7. CASE m.failed = "none" /\ w.taken # None
  <2>1. Become(Returns(m, t, w.taken))
    BY <1>3, <1>7
  <2>2. w.taken \in Codes
    BY <1>4, <1>7, CodeFacts
  <2>3. Done(Returns(m, t, w.taken))
    BY <1>5, <2>2, DoneReturns
  <2>. QED
    BY <1>3, <2>1, <2>3, BecomeInv
<1>8. CASE m.failed = "none" /\ w.taken = None
  <2>1. Become(Block(m, t, e))
    BY <1>3, <1>8
  <2>2. InOrder(subList[e], m.sub)
    <3>. DEFINE s == subList[e]
                sb == m.sub
    <3>1. s \in Seq(Subs)
      BY DEF Inv, TypeOK
    <3>2. \A x \in ToSet(s) : sb[x].blocked = TRUE
      BY <1>4, <1>8
    <3>. HIDE DEF s, sb
    <3>3. \A i \in 1 .. Len(s) : sb[s[i]].blocked = TRUE
      BY <3>1, <3>2, ToSetElement
    <3>4. InOrder(s, sb)
      BY <3>3, AllLinked
    <3>. QED
      BY <3>4 DEF s, sb
  <2>3. Done(Block(m, t, e))
    BY <1>1, <1>4, <1>5, <1>8, <2>2, DoneBlock
  <2>. QED
    BY <1>3, <2>1, <2>3, BecomeInv
<1>. QED
  BY <1>6, <1>7, <1>8

-----------------------------------------------------------------------------
(* The calls that create objects, sub-events and threads.                  *)

\* Nobody waits for an object that does not exist.
LEMMA NobodyWaits ==
    ASSUME Inv, NEW o \in Objects, ~Exists(o)
    PROVE  queue[o] = <<>>
<1>1. ~Referred(open, sub, o)
  BY ExistsReferred
<1>2. queue[o] \in Seq(Threads \cup Subs)
  BY DEF Inv, TypeOK
<1>3. \A y \in Threads \cup Subs : y \notin ToSet(queue[o])
  BY <1>1 DEF Inv, Held, Linked, Referred
<1>. QED
  BY <1>2, <1>3, EmptyFacts

\* A handle is added.
LEMMA OpenInv ==
    ASSUME Inv, NEW o \in Objects, open' = open \cup {o},
           TypeOK', Tokens(queue', value'),
           UNCHANGED <<alive, blocked, queue, subList, sub, failed>>
    PROVE  Inv'
<1>1. \A p : Referred(open, sub, p) => Referred(open', sub, p)
  BY DEF Referred
<1>2. Held(open', queue, subList, sub)
  BY <1>1 DEF Inv, Held
<1>. QED
  BY <1>2 DEF Inv

\* A new semaphore has no waiters.
LEMMA SemaphoreCreateInv ==
    ASSUME Inv, NEW t, NEW s \in Sems, NEW v \in 0 .. MaxValue, SemaphoreCreate(t, s, v)
    PROVE  Inv'
<1>1. /\ ~Exists(s) /\ open' = open \cup {s} /\ value' = [value EXCEPT ![s] = v]
      /\ UNCHANGED <<alive, blocked, result, queue, subList, sub, failed>> /\ s \in Objects
  BY DEF SemaphoreCreate, Objects
<1>2. queue[s] = <<>>
  BY <1>1, NobodyWaits
<1>3. value \in [Sems -> 0 .. MaxValue]
  BY DEF Inv, TypeOK
<1>4. Tokens(queue', value')
  BY <1>1, <1>2, <1>3 DEF Inv, Tokens
<1>5. TypeOK'
  BY <1>1, <1>3 DEF Inv, TypeOK
<1>. QED
  BY <1>1, <1>4, <1>5, OpenInv

\* A new event has no waiters and no sub-events.
LEMMA EventCreateInv ==
    ASSUME Inv, NEW t, NEW e \in Events, EventCreate(t, e)
    PROVE  Inv'
<1>1. /\ open' = open \cup {e} /\ e \in Objects
      /\ UNCHANGED <<alive, blocked, result, value, queue, subList, sub, failed>>
  BY DEF EventCreate, Objects
<1>2. TypeOK' /\ Tokens(queue', value')
  BY <1>1 DEF Inv, TypeOK
<1>. QED
  BY <1>1, <1>2, OpenInv

\* A sub-event that is attached while threads wait stays unlinked, at the end of
\* the list.
LEMMA EventAttachInv ==
    ASSUME Inv, NEW t \in Threads, NEW e \in Events, NEW o \in Objects, NEW x \in Subs,
           EventAttach(t, e, o, x)
    PROVE  Inv'
<1>. DEFINE r == [event |-> e, wait |-> o, blocked |-> FALSE]
            a == Append(subList[e], x)
<1>1. /\ failed = "none" /\ e \in open /\ o \in open /\ sub[x] = None
      /\ sub' = [sub EXCEPT ![x] = r] /\ subList' = [subList EXCEPT ![e] = a]
      /\ result' = [result EXCEPT ![t] = 1]
      /\ UNCHANGED <<alive, blocked, open, value, queue, failed>>
  BY DEF EventAttach, CanCall, Used
<1>2. r \in SubEvent /\ r.event = e /\ r.wait = o /\ r.blocked = FALSE
  BY DEF SubEvent
<1>3. r # None
  BY <1>2, WaitObjectsAssumption DEF SubEvent
<1>. HIDE DEF r
<1>4. /\ sub \in [Subs -> SubEvent \cup {None}] /\ subList \in [Events -> Seq(Subs)]
      /\ result \in [Threads -> Objects \cup {-1, 1} \cup 0 .. MaxValue]
      /\ Linked(alive, blocked, queue, sub) /\ Listed(subList, sub)
      /\ Held(open, queue, subList, sub) /\ Armed(queue, subList, sub) /\ Tokens(queue, value)
  BY <1>1 DEF Inv, TypeOK
<1>5. sub'[x] = r /\ \A y \in Subs : y # x => sub'[y] = sub[y]
  BY <1>1, <1>4
<1>6. subList'[e] = a /\ \A d \in Events : d # e => subList'[d] = subList[d]
  BY <1>1, <1>4
<1>7. \A d \in Events : x \notin ToSet(subList[d])
  BY <1>1, <1>4 DEF Listed
<1>8. /\ a \in Seq(Subs) /\ ToSet(a) = ToSet(subList[e]) \cup {x} /\ Distinct(a)
      /\ Len(a) = Len(subList[e]) + 1 /\ a[Len(subList[e]) + 1] = x
      /\ \A i \in 1 .. Len(subList[e]) : a[i] = subList[e][i]
  <2>1. subList[e] \in Seq(Subs) /\ Distinct(subList[e])
    BY <1>4 DEF Listed
  <2>. QED
    BY <1>7, <2>1, AppendFacts
<1>. HIDE DEF a
<1>9. TypeOK'
  <2>1. sub' \in [Subs -> SubEvent \cup {None}] /\ subList' \in [Events -> Seq(Subs)]
    BY <1>1, <1>2, <1>4, <1>8
  <2>2. result' \in [Threads -> Objects \cup {-1, 1} \cup 0 .. MaxValue]
    BY <1>1, <1>4
  <2>. QED
    BY <1>1, <2>1, <2>2 DEF Inv, TypeOK
<1>10. Linked(alive', blocked', queue', sub')
  <2>1. \A y \in Subs, p \in Objects :
           y \in ToSet(queue[p]) <=> sub'[y] # None /\ sub'[y].wait = p /\ sub'[y].blocked
    <3>. SUFFICES ASSUME NEW y \in Subs, NEW p \in Objects
                  PROVE  y \in ToSet(queue[p]) <=> sub'[y] # None /\ sub'[y].wait = p /\ sub'[y].blocked
      OBVIOUS
    <3>1. CASE y = x
      BY <1>1, <1>2, <1>4, <1>5, <3>1 DEF Linked
    <3>2. CASE y # x
      BY <1>4, <1>5, <3>2 DEF Linked
    <3>. QED
      BY <3>1, <3>2
  <2>. QED
    BY <1>1, <1>4, <2>1 DEF Linked
<1>11. Listed(subList', sub')
  <2>1. \A d \in Events : Distinct(subList'[d])
    BY <1>4, <1>6, <1>8 DEF Listed
  <2>2. ASSUME NEW d \in Events, NEW y \in Subs
        PROVE  y \in ToSet(subList'[d]) <=> sub'[y] # None /\ sub'[y].event = d
    <3>1. CASE y = x /\ d = e
      BY <1>2, <1>3, <1>5, <1>6, <1>8, <3>1
    <3>2. CASE y = x /\ d # e
      BY <1>2, <1>5, <1>6, <1>7, <3>2
    <3>3. CASE y # x /\ d = e
      <4>1. y \in ToSet(subList'[d]) <=> y \in ToSet(subList[d])
        BY <1>6, <1>8, <3>3
      <4>. QED
        BY <1>4, <1>5, <3>3, <4>1 DEF Listed
    <3>4. CASE y # x /\ d # e
      BY <1>4, <1>5, <1>6, <3>4 DEF Listed
    <3>. QED
      BY <3>1, <3>2, <3>3, <3>4
  <2>. QED
    BY <2>1, <2>2 DEF Listed
<1>12. Held(open', queue', subList', sub')
  <2>1. \A p : Referred(open, sub, p) => Referred(open', sub', p)
    BY <1>1, <1>5 DEF Referred
  <2>2. Referred(open', sub', e)
    BY <1>1 DEF Referred
  <2>. QED
    BY <1>1, <1>4, <1>6, <2>1, <2>2 DEF Held
<1>13. Armed(queue', subList', sub')
  <2>. SUFFICES ASSUME NEW d \in Events, WakeupAll[d], queue[d] # <<>>,
                       NEW i \in 1 .. Len(subList'[d]), NEW j \in 1 .. Len(subList'[d]), i < j,
                       sub'[subList'[d][j]].blocked
                PROVE  sub'[subList'[d][i]].blocked
    BY <1>1 DEF Armed, InOrder
  <2>1. InOrder(subList[d], sub) /\ subList[d] \in Seq(Subs) /\ Len(subList[d]) \in Nat
    BY <1>4, LenProperties DEF Armed
  <2>2. \A k \in 1 .. Len(subList[d]) : subList[d][k] \in Subs /\ subList[d][k] # x
    BY <1>7, <2>1, ElementOfSeq, ToSetElement
  <2>3. i \in 1 .. Len(subList[d]) /\ j \in 1 .. Len(subList[d])
        /\ subList'[d][i] = subList[d][i] /\ subList'[d][j] = subList[d][j]
    <3>1. CASE d # e
      BY <1>6, <3>1
    <3>2. CASE d = e
      <4>1. j # Len(subList[e]) + 1
        BY <1>2, <1>5, <1>6, <1>8, <3>2
      <4>2. i \in 1 .. Len(subList[e]) /\ j \in 1 .. Len(subList[e])
        <5>. DEFINE k == Len(subList[e])
        <5>1. i \in 1 .. k + 1 /\ j \in 1 .. k + 1 /\ k \in Nat /\ j # k + 1
          BY <1>6, <1>8, <2>1, <3>2, <4>1
        <5>. HIDE DEF k
        <5>2. i \in 1 .. k /\ j \in 1 .. k
          BY <5>1
        <5>. QED
          BY <5>2 DEF k
      <4>. QED
        BY <1>6, <1>8, <3>2, <4>2
    <3>. QED
      BY <3>1, <3>2
  <2>. QED
    BY <1>5, <2>1, <2>2, <2>3 DEF InOrder
<1>14. Tokens(queue', value') /\ failed' = "none"
  BY <1>1, <1>4
<1>. QED
  BY <1>9, <1>10, <1>11, <1>12, <1>13, <1>14 DEF Inv

-----------------------------------------------------------------------------
(* Threads.                                                                *)

\* Thread u is unlinked, and is not blocked any more or has ended.
LEMMA UnlinkInv ==
    ASSUME Inv, NEW u \in Threads, Unlink(u), TypeOK', ~(u \in alive' /\ blocked'[u]),
           \A v \in Threads : v # u => (v \in alive' <=> v \in alive) /\ blocked'[v] = blocked[v],
           UNCHANGED <<open, value, subList, sub, failed>>
    PROVE  Inv'
<1>1. /\ blocked \in Flags /\ blocked' \in Flags /\ queue \in Queues
      /\ Linked(alive, blocked, queue, sub) /\ Listed(subList, sub)
      /\ Held(open, queue, subList, sub) /\ Tokens(queue, value)
      /\ failed # "none" => Circle(sub)
      /\ failed = "none" => Armed(queue, subList, sub)
  BY DEF Inv, TypeOK, Flags, Queues, Entries
<1>2. queue' = Unlinked(queue, u)
  BY DEF Unlink, Unlinked
<1>3. /\ Linked(alive', blocked', queue', sub) /\ queue' \in Queues
      /\ \A o \in Objects : ToSet(queue'[o]) = ToSet(queue[o]) \ {u}
  <2>. DEFINE live2 == alive'
              blk2 == blocked'
              q2 == queue'
  <2>1. /\ blk2 \in Flags /\ ~(u \in live2 /\ blk2[u]) /\ q2 = Unlinked(queue, u)
        /\ OtherThreads(alive, blocked, live2, blk2, u)
    BY <1>1, <1>2 DEF OtherThreads
  <2>. HIDE DEF live2, blk2, q2
  <2>2. ThreadOut(live2, blk2, queue, sub, q2, u)
    BY <1>1, <2>1, UnlinkLinked, Zenon
  <2>. QED
    BY <2>2 DEF live2, blk2, q2, ThreadOut
<1>4. \A o \in Objects : queue'[o] # <<>> => queue[o] # <<>>
  <2>. TAKE o \in Objects
  <2>. DEFINE a == queue[o]
              b == queue'[o]
  <2>1. a \in Seq(Entries) /\ b \in Seq(Entries) /\ ToSet(b) = ToSet(a) \ {u}
    BY <1>1, <1>3 DEF Queues
  <2>. HIDE DEF a, b
  <2>2. a = <<>> => b = <<>>
    BY <2>1, EmptyFacts
  <2>. QED
    BY <2>2 DEF a, b
<1>5. Held(open', queue', subList', sub')
  BY <1>1, <1>3 DEF Held
<1>6. Tokens(queue', value')
  BY <1>1, <1>4 DEF Tokens, Objects
<1>7. failed' = "none" => Armed(queue', subList', sub')
  BY <1>1, <1>4 DEF Armed, Objects
<1>. QED
  BY <1>1, <1>3, <1>5, <1>6, <1>7 DEF Inv

\* A queue without an entry.
LEMMA UnlinkType ==
    ASSUME Inv, NEW u, Unlink(u)
    PROVE  queue' \in [Objects -> Seq(Threads \cup Subs)]
<1>1. /\ queue \in Queues /\ \A o \in Objects : Distinct(queue[o])
      /\ queue' = Unlinked(queue, u)
  BY DEF Inv, TypeOK, Linked, Queues, Entries, Unlink, Unlinked
<1>2. \A o \in Objects : Unlinked(queue, u)[o] \in Seq(Entries)
  BY <1>1, UnlinkedFacts
<1>. QED
  BY <1>1, <1>2 DEF Unlinked, Entries

\* A thread is woken by a signal of its own.
LEMMA ThreadSignalInv ==
    ASSUME Inv, NEW t \in Threads, NEW u \in Threads, ThreadSignal(t, u, 0)
    PROVE  Inv'
<1>1. /\ Unlink(u) /\ blocked' = [blocked EXCEPT ![u] = FALSE]
      /\ result' = [result EXCEPT ![u] = 0, ![t] = 1]
      /\ UNCHANGED <<alive, open, value, subList, sub, failed>>
  BY DEF ThreadSignal
<1>2. blocked \in [Threads -> BOOLEAN] /\ result \in [Threads -> Codes]
  BY DEF Inv, TypeOK, Codes
<1>3. blocked' \in [Threads -> BOOLEAN] /\ blocked'[u] = FALSE
      /\ \A v \in Threads : v # u => blocked'[v] = blocked[v]
  BY <1>1, <1>2
<1>4. result' \in [Threads -> Codes]
  <2>1. 0 \in Codes /\ 1 \in Codes
    BY CodeFacts
  <2>. QED
    BY <1>1, <1>2, <2>1
<1>5. TypeOK'
  BY <1>1, <1>3, <1>4, UnlinkType DEF Inv, TypeOK, Codes
<1>. QED
  BY <1>1, <1>3, <1>5, UnlinkInv

\* A thread that is shut down leaves its queue.
LEMMA ThreadShutdownInv ==
    ASSUME Inv, NEW t \in Threads, NEW u \in Threads, ThreadShutdown(t, u)
    PROVE  Inv'
<1>1. /\ Unlink(u) /\ alive' = alive \ {u}
      /\ UNCHANGED <<blocked, result, open, value, subList, sub, failed>>
  BY DEF ThreadShutdown
<1>2. TypeOK'
  BY <1>1, UnlinkType DEF Inv, TypeOK
<1>. QED
  BY <1>1, <1>2, UnlinkInv

\* A new thread is in no queue.
LEMMA ThreadCreateInv ==
    ASSUME Inv, NEW t \in Threads, NEW u \in Threads, ThreadCreate(t, u)
    PROVE  Inv'
<1>1. /\ u \notin alive /\ alive' = alive \cup {u} /\ blocked' = [blocked EXCEPT ![u] = FALSE]
      /\ result' = [result EXCEPT ![u] = 0]
      /\ UNCHANGED <<open, value, queue, subList, sub, failed>>
  BY DEF ThreadCreate
<1>2. blocked \in [Threads -> BOOLEAN] /\ result \in [Threads -> Codes]
      /\ Linked(alive, blocked, queue, sub)
  BY DEF Inv, TypeOK, Codes
<1>3. blocked' \in [Threads -> BOOLEAN] /\ blocked'[u] = FALSE
      /\ \A v \in Threads : v # u => blocked'[v] = blocked[v]
  BY <1>1, <1>2
<1>4. result' \in [Threads -> Codes]
  BY <1>1, <1>2, CodeFacts
<1>5. TypeOK'
  BY <1>1, <1>3, <1>4 DEF Inv, TypeOK, Codes
<1>6. \A v \in Threads : v \in alive' /\ blocked'[v] <=> v \in alive /\ blocked[v]
  BY <1>1, <1>3
<1>7. Linked(alive', blocked', queue', sub')
  BY <1>1, <1>2, <1>6 DEF Linked
<1>. QED
  BY <1>1, <1>5, <1>7 DEF Inv

-----------------------------------------------------------------------------
(* References.                                                             *)

\* Unreferenced is a fixed point: what is destroyed has lost its last reference.
LEMMA UnreferencedFixed ==
    ASSUME NEW H, NEW X, NEW D, D = Unreferenced(H, X)
    PROVE  D = Losing(H, X, D) /\ D \subseteq Objects
<1>. DEFINE may == Losing(H, X, Objects)
            L(A) == Losing(H, X, A)
<1>1. \A A, B : A \subseteq B => L(A) \subseteq L(B)
  BY DEF Losing
<1>2. D = {o \in may : \A A \in SUBSET may : L(A) \subseteq A => o \in A}
  BY DEF Unreferenced
<1>3. may \subseteq Objects /\ may = L(Objects)
  BY DEF Losing
<1>. HIDE DEF may, L
<1>4. D \subseteq may /\ D \subseteq Objects
  BY <1>2, <1>3
<1>5. L(D) \subseteq may
  BY <1>1, <1>3, <1>4
<1>6. ASSUME NEW A \in SUBSET may, L(A) \subseteq A PROVE D \subseteq A
  BY <1>2, <1>6
<1>7. L(D) \subseteq D
  <2>. SUFFICES ASSUME NEW o \in L(D), NEW A \in SUBSET may, L(A) \subseteq A
                PROVE  o \in A
    BY <1>2, <1>5
  <2>1. D \subseteq A
    BY <1>6
  <2>2. L(D) \subseteq L(A)
    BY <1>1, <2>1
  <2>. QED
    BY <2>2
<1>8. D \subseteq L(D)
  <2>1. L(L(D)) \subseteq L(D)
    BY <1>1, <1>7
  <2>2. L(D) \in SUBSET may
    BY <1>5
  <2>. QED
    BY <1>6, <2>1, <2>2
<1>9. D = L(D)
  BY <1>7, <1>8
<1>. QED
  BY <1>4, <1>9 DEF L

\* What is destroyed and what stays when the handles become H and the sub-events
\* in X are freed: D are the objects destroyed, gone the sub-events freed.
Gone(X, D) == X \cup UNION {SubsOf(e) : e \in D \cap Events}
Freed(H, X, D, g) ==
    /\ D \subseteq Objects /\ g \subseteq Subs
    /\ \A o \in D, x \in Subs : sub[x] # None /\ sub[x].wait = o => x \in g
    /\ \A e \in D, x \in Subs : sub[x] # None /\ sub[x].event = e => x \in g
    /\ \A o \in Objects : o \notin D /\ Referred(open, sub, o) =>
          o \in H \/ \E x \in Subs : sub[x] # None /\ sub[x].wait = o /\ x \notin g

\* What is destroyed: nothing refers to it but what goes with it.
LEMMA ReleaseFrees ==
    ASSUME Inv, NEW H, NEW X \in SUBSET Subs, NEW D, D = Unreferenced(H, X), NEW g, g = Gone(X, D)
    PROVE  Freed(H, X, D, g)
<1>1. D = Losing(H, X, D) /\ D \subseteq Objects
  BY UnreferencedFixed, Zenon
<1>2. \A o : o \in D <=> /\ o \in Objects /\ Exists(o) /\ o \notin H
                        /\ \A x \in SubsOn(o) : x \in X \/ sub[x].event \in D
  BY <1>1 DEF Losing
<1>3. \A x : x \in g <=> x \in X \/ (x \in Subs /\ sub[x] # None /\ sub[x].event \in D \cap Events)
  BY DEF Gone, SubsOf, Used
<1>4. \A x \in Subs : sub[x] # None => sub[x].event \in Events
  BY DEF Inv, TypeOK, SubEvent
<1>5. g \subseteq Subs
  BY <1>3
<1>6. \A o \in D, x \in Subs : sub[x] # None /\ sub[x].wait = o => x \in g
  BY <1>2, <1>3, <1>4 DEF SubsOn, Used
<1>7. \A e \in D, x \in Subs : sub[x] # None /\ sub[x].event = e => x \in g
  BY <1>3, <1>4
<1>8. ASSUME NEW o \in Objects, o \notin D, Referred(open, sub, o), o \notin H
      PROVE  \E x \in Subs : sub[x] # None /\ sub[x].wait = o /\ x \notin g
  <2>1. Exists(o)
    BY <1>8, ExistsReferred
  <2>2. PICK x \in SubsOn(o) : ~(x \in X \/ sub[x].event \in D)
    BY <1>2, <1>8, <2>1
  <2>. QED
    BY <1>3, <2>2 DEF SubsOn, Used
<1>. QED
  BY <1>1, <1>5, <1>6, <1>7, <1>8 DEF Freed

\* What a release does to queues, lists, sub-events and threads.
Released(D, g) ==
    /\ \A x \in Subs : sub'[x] = IF x \in g THEN None ELSE sub[x]
    /\ \A e \in Events : Pruned(Subs, subList[e], g, subList'[e])
    /\ \A o \in Objects : IF o \in D THEN queue'[o] = <<>>
                          ELSE Pruned(Entries, queue[o], g, queue'[o])
    /\ \A s \in Sems : value'[s] = IF s \in D THEN 0 ELSE value[s]
    /\ \A u \in Threads : blocked'[u] <=>
          blocked[u] /\ \A o \in D : u \notin ToSet(queue[o])

\* What the release of handles and sub-events does to the state.
LEMMA ReleaseDoes ==
    ASSUME Inv, NEW H \in SUBSET Objects, NEW X \in SUBSET Subs, NEW t \in Threads,
           NEW code \in {0, 1}, Release(H, X, t, code),
           NEW D, D = Unreferenced(H, X), NEW g, g = Gone(X, D), Freed(H, X, D, g)
    PROVE  Released(D, g) /\ TypeOK' /\ open' = H /\ UNCHANGED <<alive, failed>>
<1>. DEFINE woken == UNION {ToSet(queue[o]) \cap Threads : o \in D}
<1>1. /\ open' = H /\ UNCHANGED <<alive, failed>>
      /\ sub' = [x \in Subs |-> IF x \in g THEN None ELSE sub[x]]
      /\ subList' = [e \in Events |-> WithoutAll(subList[e], g)]
      /\ queue' = [o \in Objects |-> IF o \in D THEN <<>> ELSE WithoutAll(queue[o], g)]
      /\ value' = [s \in Sems |-> IF s \in D THEN 0 ELSE value[s]]
      /\ blocked' = [u \in Threads |-> blocked[u] /\ u \notin woken]
      /\ result' = [u \in Threads |-> IF u \in woken THEN -1
                                      ELSE IF u = t THEN code ELSE result[u]]
  BY DEF Release, Gone
<1>2. /\ \A u \in Threads : u \in woken <=> \E o \in D : u \in ToSet(queue[o])
  OBVIOUS
<1>. HIDE DEF woken
<1>3. /\ sub \in [Subs -> SubEvent \cup {None}] /\ subList \in [Events -> Seq(Subs)]
      /\ queue \in [Objects -> Seq(Entries)] /\ value \in [Sems -> 0 .. MaxValue]
      /\ blocked \in [Threads -> BOOLEAN] /\ result \in [Threads -> Codes]
      /\ alive \subseteq Threads /\ failed \in {"none", "endless", "left"}
      /\ \A o \in Objects : Distinct(queue[o])
      /\ \A e \in Events : Distinct(subList[e])
  BY DEF Inv, TypeOK, Linked, Listed, Codes, Entries
<1>4. \A e \in Events : Pruned(Subs, subList[e], g, subList'[e])
  <2>. SUFFICES ASSUME NEW e \in Events PROVE Pruned(Subs, subList[e], g, subList'[e])
    OBVIOUS
  <2>. DEFINE s == subList[e]
              r == subList'[e]
  <2>1. s \in Seq(Subs) /\ Distinct(s) /\ r = WithoutAll(s, g)
    BY <1>1, <1>3
  <2>. HIDE DEF s, r
  <2>2. Pruned(Subs, s, g, WithoutAll(s, g))
    BY <2>1, WithoutAllFacts, Zenon
  <2>. QED
    BY <2>1, <2>2, Zenon DEF s, r
<1>5. ASSUME NEW o \in Objects, o \notin D PROVE Pruned(Entries, queue[o], g, queue'[o])
  <2>. DEFINE s == queue[o]
              r == queue'[o]
  <2>1. s \in Seq(Entries) /\ Distinct(s) /\ r = WithoutAll(s, g)
    BY <1>1, <1>3, <1>5
  <2>. HIDE DEF s, r
  <2>2. Pruned(Entries, s, g, WithoutAll(s, g))
    BY <2>1, WithoutAllFacts, Zenon
  <2>. QED
    BY <2>1, <2>2, Zenon DEF s, r
<1>6. \A o \in Objects : o \in D => queue'[o] = <<>>
  BY <1>1
<1>7. Released(D, g)
  <2>1. \A x \in Subs : sub'[x] = IF x \in g THEN None ELSE sub[x]
    BY <1>1
  <2>2. \A s \in Sems : value'[s] = IF s \in D THEN 0 ELSE value[s]
    BY <1>1
  <2>3. \A u \in Threads : blocked'[u] <=> blocked[u] /\ \A o \in D : u \notin ToSet(queue[o])
    BY <1>1, <1>2
  <2>. QED
    BY <1>4, <1>5, <1>6, <2>1, <2>2, <2>3 DEF Released
<1>8. queue' \in [Objects -> Seq(Entries)] /\ subList' \in [Events -> Seq(Subs)]
  <2>1. \A e \in Events : subList'[e] \in Seq(Subs)
    BY <1>4 DEF Pruned
  <2>2. \A o \in Objects : queue'[o] \in Seq(Entries)
    <3>. TAKE o \in Objects
    <3>1. CASE o \in D
      <4>1. <<>> \in Seq(Entries)
        OBVIOUS
      <4>. QED
        BY <1>6, <3>1, <4>1, Zenon
    <3>2. CASE o \notin D
      BY <1>5, <3>2 DEF Pruned
    <3>. QED
      BY <3>1, <3>2
  <2>. QED
    BY <1>1, <2>1, <2>2
<1>9. sub' \in [Subs -> SubEvent \cup {None}] /\ blocked' \in [Threads -> BOOLEAN]
  BY <1>1, <1>3
<1>10. value' \in [Sems -> 0 .. MaxValue]
  <2>1. 0 \in 0 .. MaxValue
    BY WaitObjectsAssumption
  <2>. QED
    BY <1>1, <1>3, <2>1
<1>11. result' \in [Threads -> Codes]
  <2>1. -1 \in Codes /\ code \in Codes
    BY CodeFacts
  <2>. QED
    BY <1>1, <1>3, <2>1
<1>12. TypeOK'
  BY <1>1, <1>3, <1>8, <1>9, <1>10, <1>11 DEF TypeOK, Codes, Entries
<1>. QED
  BY <1>1, <1>7, <1>12

\* Destroying what nothing refers to any more, and the sub-events of it, keeps
\* the invariant.
LEMMA ReleaseInv ==
    ASSUME Inv, failed = "none", NEW H \in SUBSET Objects, NEW X \in SUBSET Subs,
           NEW t \in Threads, NEW code \in {0, 1}, Release(H, X, t, code)
    PROVE  Inv'
<1>. DEFINE D == Unreferenced(H, X)
            g == Gone(X, D)
<1>0. D = Unreferenced(H, X) /\ g = Gone(X, D)
  OBVIOUS
<1>. HIDE DEF D, g
<1>f. Freed(H, X, D, g)
  BY <1>0, ReleaseFrees, Zenon
<1>r. Released(D, g) /\ TypeOK' /\ open' = H /\ UNCHANGED <<alive, failed>>
  BY <1>0, <1>f, ReleaseDoes, Zenon
<1>1. /\ D \subseteq Objects /\ g \subseteq Subs
      /\ \A o \in D, x \in Subs : sub[x] # None /\ sub[x].wait = o => x \in g
      /\ \A e \in D, x \in Subs : sub[x] # None /\ sub[x].event = e => x \in g
      /\ \A o \in Objects : o \notin D /\ Referred(open, sub, o) =>
            o \in H \/ \E x \in Subs : sub[x] # None /\ sub[x].wait = o /\ x \notin g
  BY <1>f DEF Freed
<1>2. /\ \A x \in Subs : /\ x \in g => sub'[x] = None
                         /\ x \notin g => sub'[x] = sub[x]
      /\ \A e \in Events : Pruned(Subs, subList[e], g, subList'[e])
      /\ \A o \in Objects : /\ o \in D => queue'[o] = <<>>
                            /\ o \notin D => Pruned(Entries, queue[o], g, queue'[o])
      /\ \A s \in Sems : s \notin D => value'[s] = value[s]
      /\ \A u \in Threads : blocked'[u] <=> blocked[u] /\ \A o \in D : u \notin ToSet(queue[o])
  BY <1>r DEF Released
<1>3. /\ Linked(alive, blocked, queue, sub) /\ Listed(subList, sub)
      /\ Held(open, queue, subList, sub) /\ Tokens(queue, value) /\ Armed(queue, subList, sub)
      /\ queue \in [Objects -> Seq(Entries)] /\ subList \in [Events -> Seq(Subs)]
  BY DEF Inv, TypeOK, Entries
<1>4. \A o \in Objects : /\ Distinct(queue'[o]) /\ queue'[o] \in Seq(Entries)
                         /\ o \in D => ToSet(queue'[o]) = {}
                         /\ o \notin D => ToSet(queue'[o]) = ToSet(queue[o]) \ g
  <2>. TAKE o \in Objects
  <2>1. CASE o \in D
    <3>0. <<>> \in Seq(Entries)
      OBVIOUS
    <3>1. ToSet(<<>>) = {} /\ Distinct(<<>>) /\ <<>> \in Seq(Entries)
      BY <3>0, EmptyFacts
    <3>2. queue'[o] = <<>>
      BY <1>2, <2>1
    <3>. QED
      BY <2>1, <3>1, <3>2, Zenon
  <2>2. CASE o \notin D
    BY <1>2, <2>2 DEF Pruned
  <2>. QED
    BY <2>1, <2>2
<1>5. \A e \in Events : /\ Distinct(subList'[e]) /\ ToSet(subList'[e]) = ToSet(subList[e]) \ g
                        /\ subList'[e] \in Seq(Subs)
  BY <1>2 DEF Pruned
<1>t. \A u \in Threads : u \notin g
  BY <1>1, ThreadsNoSubs
<1>6. Linked(alive', blocked', queue', sub')
  <2>1. \A o \in Objects : Distinct(queue'[o])
    BY <1>4
  <2>2. \A o1, o2 \in Objects, u \in Threads :
           u \in ToSet(queue'[o1]) /\ u \in ToSet(queue'[o2]) => o1 = o2
    <3>1. \A o \in Objects : ToSet(queue'[o]) \subseteq ToSet(queue[o])
      BY <1>4
    <3>. QED
      BY <1>3, <3>1 DEF Linked
  <2>3. ASSUME NEW u \in Threads
        PROVE  u \in alive' /\ blocked'[u] <=> \E o \in Objects : u \in ToSet(queue'[o])
    <3>1. \A o \in Objects : u \in ToSet(queue'[o]) <=> u \in ToSet(queue[o]) /\ o \notin D
      BY <1>4, <1>t
    <3>2. u \in alive /\ blocked[u] <=> \E o \in Objects : u \in ToSet(queue[o])
      BY <1>3 DEF Linked
    <3>3. \A o1, o2 \in Objects : u \in ToSet(queue[o1]) /\ u \in ToSet(queue[o2]) => o1 = o2
      BY <1>3 DEF Linked
    <3>4. u \in alive' <=> u \in alive
      BY <1>r
    <3>5. blocked'[u] <=> blocked[u] /\ \A o \in D : u \notin ToSet(queue[o])
      BY <1>2
    <3>. QED
      BY <1>1, <3>1, <3>2, <3>3, <3>4, <3>5
  <2>4. ASSUME NEW x \in Subs, NEW o \in Objects
        PROVE  x \in ToSet(queue'[o]) <=> sub'[x] # None /\ sub'[x].wait = o /\ sub'[x].blocked
    <3>1. x \in ToSet(queue[o]) <=> sub[x] # None /\ sub[x].wait = o /\ sub[x].blocked
      BY <1>3 DEF Linked
    <3>2. CASE x \in g
      BY <1>2, <1>4, <3>2
    <3>3. CASE x \notin g
      <4>1. x \in ToSet(queue[o]) => o \notin D
        BY <1>1, <3>1, <3>3
      <4>2. x \in ToSet(queue'[o]) <=> x \in ToSet(queue[o])
        BY <1>4, <3>3, <4>1
      <4>. QED
        BY <1>2, <3>1, <3>3, <4>2
    <3>. QED
      BY <3>2, <3>3
  <2>. QED
    BY <2>1, <2>2, <2>3, <2>4 DEF Linked
<1>7. Listed(subList', sub')
  <2>1. ASSUME NEW e \in Events, NEW x \in Subs
        PROVE  x \in ToSet(subList'[e]) <=> sub'[x] # None /\ sub'[x].event = e
    BY <1>2, <1>3, <1>5 DEF Listed
  <2>. QED
    BY <1>5, <2>1 DEF Listed
<1>8. \A o \in Objects : o \notin D /\ Referred(open, sub, o) => Referred(open', sub', o)
  BY <1>1, <1>2, <1>r DEF Referred
<1>9. Held(open', queue', subList', sub')
  <2>1. ASSUME NEW o \in Objects, NEW u \in Threads, u \in ToSet(queue'[o])
        PROVE  Referred(open', sub', o)
    <3>1. o \notin D /\ u \in ToSet(queue[o])
      BY <1>4, <2>1
    <3>. QED
      BY <1>3, <1>8, <3>1 DEF Held
  <2>2. ASSUME NEW e \in Events, subList'[e] # <<>>
        PROVE  Referred(open', sub', e)
    <3>1. PICK x : x \in ToSet(subList'[e])
      <4>. DEFINE r == subList'[e]
      <4>1. r \in Seq(Subs) /\ r # <<>>
        BY <1>5, <2>2
      <4>. HIDE DEF r
      <4>2. ToSet(r) # {}
        BY <4>1, EmptyFacts
      <4>. QED
        BY <4>2 DEF r
    <3>2. x \in ToSet(subList[e]) /\ x \notin g
      BY <1>5, <3>1
    <3>3. ToSet(subList[e]) \subseteq Subs /\ subList[e] # <<>>
      <4>. DEFINE r == subList[e]
      <4>1. r \in Seq(Subs) /\ x \in ToSet(r)
        BY <1>3, <3>2
      <4>. HIDE DEF r
      <4>2. ToSet(r) \subseteq Subs /\ r # <<>>
        BY <4>1, EmptyFacts
      <4>. QED
        BY <4>2 DEF r
    <3>4. sub[x] # None /\ sub[x].event = e /\ x \in Subs
      BY <1>3, <3>2, <3>3 DEF Listed
    <3>5. e \notin D /\ e \in Objects
      BY <1>1, <3>2, <3>4 DEF Objects
    <3>. QED
      BY <1>3, <1>8, <3>3, <3>5 DEF Held
  <2>. QED
    BY <2>1, <2>2 DEF Held
<1>10. \A o \in Objects : queue'[o] # <<>> => o \notin D /\ queue[o] # <<>>
  <2>. TAKE o \in Objects
  <2>1. o \in D => queue'[o] = <<>>
    BY <1>2
  <2>2. ASSUME o \notin D, queue[o] = <<>> PROVE queue'[o] = <<>>
    <3>. DEFINE a == queue[o]
                r == queue'[o]
    <3>1. a \in Seq(Entries) /\ r \in Seq(Entries) /\ ToSet(r) = ToSet(a) \ g /\ a = <<>>
      BY <1>3, <1>4, <2>2
    <3>. HIDE DEF a, r
    <3>2. r = <<>>
      BY <3>1, EmptyFacts
    <3>. QED
      BY <3>2 DEF r
  <2>. QED
    BY <2>1, <2>2
<1>11. Tokens(queue', value')
  BY <1>2, <1>3, <1>10 DEF Tokens, Objects
<1>12. Armed(queue', subList', sub')
  <2>. SUFFICES ASSUME NEW e \in Events, WakeupAll[e], queue'[e] # <<>>,
                       NEW i \in 1 .. Len(subList'[e]), NEW j \in 1 .. Len(subList'[e]), i < j,
                       sub'[subList'[e][j]].blocked
                PROVE  sub'[subList'[e][i]].blocked
    BY DEF Armed, InOrder
  <2>1. InOrder(subList[e], sub)
    BY <1>3, <1>10 DEF Armed, Objects
  <2>2. PICK a, b \in 1 .. Len(subList[e]) :
           a < b /\ subList'[e][i] = subList[e][a] /\ subList'[e][j] = subList[e][b]
    <3>. DEFINE r == subList'[e]
                s == subList[e]
    <3>1. Pruned(Subs, s, g, r) /\ i \in 1 .. Len(r) /\ j \in 1 .. Len(r)
      BY <1>2
    <3>. HIDE DEF r, s
    <3>2. \E a, b \in 1 .. Len(s) : a < b /\ r[i] = s[a] /\ r[j] = s[b]
      BY <3>1 DEF Pruned
    <3>. QED
      BY <3>2 DEF r, s
  <2>3. subList'[e][i] \in Subs \ g /\ subList'[e][j] \in Subs \ g
    <3>. DEFINE r == subList'[e]
    <3>1. r \in Seq(Subs) /\ i \in 1 .. Len(r) /\ j \in 1 .. Len(r) /\ ToSet(r) \cap g = {}
      BY <1>5
    <3>. HIDE DEF r
    <3>2. r[i] \in Subs /\ r[j] \in Subs /\ r[i] \in ToSet(r) /\ r[j] \in ToSet(r)
      BY <3>1, ElementOfSeq, ToSetElement
    <3>3. r[i] \in Subs \ g /\ r[j] \in Subs \ g
      BY <3>1, <3>2
    <3>. QED
      BY <3>3 DEF r
  <2>4. sub'[subList'[e][i]] = sub[subList[e][a]] /\ sub'[subList'[e][j]] = sub[subList[e][b]]
    BY <1>2, <2>2, <2>3
  <2>. QED
    BY <2>1, <2>2, <2>4 DEF InOrder
<1>. QED
  BY <1>r, <1>6, <1>7, <1>9, <1>11, <1>12 DEF Inv

\* A handle is closed.
LEMMA CloseInv ==
    ASSUME Inv, NEW t \in Threads, NEW o \in Objects, Close(t, o)
    PROVE  Inv'
<1>1. failed = "none" /\ Release(open \ {o}, {}, t, 1)
  BY DEF Close, CanCall
<1>2. open \ {o} \in SUBSET Objects /\ {} \in SUBSET Subs /\ 1 \in {0, 1}
  BY DEF Inv, TypeOK
<1>. QED
  BY <1>1, <1>2, ReleaseInv

\* An object is detached from an event.
LEMMA EventDetachInv ==
    ASSUME Inv, NEW t \in Threads, NEW e \in Events, NEW o \in Objects, EventDetach(t, e, o)
    PROVE  Inv'
<1>. DEFINE X == SubsOf(e) \cap SubsOn(o)
            code == IF X = {} THEN 0 ELSE 1
<1>1. failed = "none" /\ Release(open, X, t, code)
  BY DEF EventDetach, CanCall
<1>2. open \in SUBSET Objects /\ X \in SUBSET Subs /\ code \in {0, 1}
  BY DEF Inv, TypeOK, SubsOf
<1>. HIDE DEF X, code
<1>. QED
  BY <1>1, <1>2, ReleaseInv

\* Nothing exists at the start, and nobody waits.
LEMMA InitInv ==
    ASSUME Init
    PROVE  Inv
<1>1. TypeOK
  <2>1. 0 \in 0 .. MaxValue
    BY WaitObjectsAssumption
  <2>2. <<>> \in Seq(Threads \cup Subs) /\ <<>> \in Seq(Subs)
    OBVIOUS
  <2>. QED
    BY <2>1, <2>2 DEF Init, TypeOK
<1>2. ToSet(<<>>) = {} /\ Distinct(<<>>)
  <2>1. <<>> \in Seq(Subs)
    OBVIOUS
  <2>. QED
    BY <2>1, EmptyFacts
<1>3. /\ \A o \in Objects : queue[o] = <<>>
      /\ \A e \in Events : subList[e] = <<>>
      /\ \A x \in Subs : sub[x] = None
      /\ \A u \in Threads : blocked[u] = FALSE
  BY DEF Init
<1>4. Linked(alive, blocked, queue, sub) /\ Listed(subList, sub)
  BY <1>2, <1>3 DEF Linked, Listed
<1>5. Held(open, queue, subList, sub) /\ Tokens(queue, value) /\ Armed(queue, subList, sub)
  BY <1>2, <1>3 DEF Held, Tokens, Armed, Objects
<1>6. failed = "none"
  BY DEF Init
<1>. QED
  BY <1>1, <1>4, <1>5, <1>6 DEF Inv

\* Every system call keeps the invariant.
LEMMA NextInv ==
    ASSUME Inv, [Next]_vars
    PROVE  Inv'
<1>1. CASE UNCHANGED vars
  BY <1>1 DEF vars, Inv, TypeOK
<1>2. CASE Next
  <2>. PICK t \in Threads :
        \/ \E s \in Sems :
            \/ \E v \in 0 .. MaxValue : SemaphoreCreate(t, s, v)
            \/ SemaphoreWait(t, s)
            \/ SemaphoreSignal(t, s)
        \/ \E e \in Events :
            \/ EventCreate(t, e)
            \/ EventSignal(t, e, 0)
            \/ EventWait(t, e)
            \/ \E o \in Objects : EventDetach(t, e, o) \/ \E x \in Subs : EventAttach(t, e, o, x)
        \/ \E o \in Objects : Close(t, o) \/ Shutdown(t, o)
        \/ \E u \in Threads : ThreadSignal(t, u, 0) \/ ThreadShutdown(t, u) \/ ThreadCreate(t, u)
    BY <1>2 DEF Next
  <2>1. ASSUME NEW s \in Sems, NEW v \in 0 .. MaxValue, SemaphoreCreate(t, s, v) PROVE Inv'
    BY <2>1, SemaphoreCreateInv
  <2>2. ASSUME NEW s \in Sems, SemaphoreWait(t, s) PROVE Inv'
    BY <2>2, SemaphoreWaitInv
  <2>3. ASSUME NEW s \in Sems, SemaphoreSignal(t, s) PROVE Inv'
    BY <2>3, SemaphoreSignalInv
  <2>4. ASSUME NEW e \in Events, EventCreate(t, e) PROVE Inv'
    BY <2>4, EventCreateInv
  <2>5. ASSUME NEW e \in Events, EventSignal(t, e, 0) PROVE Inv'
    BY <2>5, EventSignalInv
  <2>6. ASSUME NEW e \in Events, EventWait(t, e) PROVE Inv'
    BY <2>6, EventWaitInv
  <2>7. ASSUME NEW e \in Events, NEW o \in Objects, EventDetach(t, e, o) PROVE Inv'
    BY <2>7, EventDetachInv
  <2>8. ASSUME NEW e \in Events, NEW o \in Objects, NEW x \in Subs, EventAttach(t, e, o, x)
        PROVE  Inv'
    BY <2>8, EventAttachInv
  <2>9. ASSUME NEW o \in Objects, Close(t, o) PROVE Inv'
    BY <2>9, CloseInv
  <2>10. ASSUME NEW o \in Objects, Shutdown(t, o) PROVE Inv'
    BY <2>10, ShutdownInv
  <2>11. ASSUME NEW u \in Threads, ThreadSignal(t, u, 0) PROVE Inv'
    BY <2>11, ThreadSignalInv
  <2>12. ASSUME NEW u \in Threads, ThreadShutdown(t, u) PROVE Inv'
    BY <2>12, ThreadShutdownInv
  <2>13. ASSUME NEW u \in Threads, ThreadCreate(t, u) PROVE Inv'
    BY <2>13, ThreadCreateInv
  <2>. QED
    BY <2>1, <2>2, <2>3, <2>4, <2>5, <2>6, <2>7, <2>8, <2>9, <2>10, <2>11, <2>12, <2>13, Zenon
<1>. QED
  BY <1>1, <1>2

\* The invariant holds of every behaviour.
LEMMA WaitObjectsInv == Spec => []Inv
BY InitInv, NextInv, PTL DEF Spec

-----------------------------------------------------------------------------
(* The theorems.                                                           *)

\* The flag `blocked' tells the truth in every state: a blocked thread is linked
\* into exactly one wait queue, once; a blocked sub-event into the queue of its
\* object; nothing else is in any queue; and what does not exist has no waiters.
\* threadWait, __threadSignal, __subEventSignal, __eventWait and the destroy
\* functions rely on it when they call ll_remove without a check.
THEOREM WaitObjectsQueuesSound == Spec => []QueuesSound
<1>1. Inv => QueuesSound
  BY InvQueuesExact DEF Inv, QueuesSound
<1>. QED
  BY <1>1, WaitObjectsInv, PTL

\* Nobody waits for a semaphore that could be taken (the assertion at
\* semaphore.c:175), and while threads wait for an event that wakes all of them,
\* the sub-events that are not linked were attached after those that are
\* (__eventWait, __subEventSignal).
THEOREM WaitObjectsWaitsArmed == Spec => []WaitsArmed
<1>1. Inv => WaitsArmed
  BY DEF Inv, WaitsArmed, NoWaitersWithTokens, ArmedWhileWaiting, Tokens, Armed, InOrder
<1>. QED
  BY <1>1, WaitObjectsInv, PTL

\* As long as no events are attached in a circle, however deep they are nested,
\* __eventWait returns and queueWakeup comes back to the queue it walks through.
THEOREM WaitObjectsNestingSafe == Spec => []NestingSafe
<1>1. Inv => NestingSafe
  BY DEF Inv, NestingSafe, Circle, Circular, SubsOf, Used
<1>. QED
  BY <1>1, WaitObjectsInv, PTL
=============================================================================
