--------------------------- MODULE SchedulerProofs ---------------------------
(***************************************************************************)
(* Proofs about Scheduler, for every number of threads and processes.      *)
(*                                                                         *)
(* The lists are described by their entries: Kept says that no list has an *)
(* entry twice, that no thread is in two of them, and that those in one    *)
(* are the threads of processes.  With Counted and Empty, the reference    *)
(* counts and what is left of a terminated object, this is Good, which     *)
(* every shutdown of a thread keeps; a loop over threads keeps it step by  *)
(* step.                                                                   *)
(*                                                                         *)
(* RunsRunnable needs more.  The run loop follows a pointer that was read  *)
(* a time slice ago, and from terminated threads the links they had when   *)
(* they were unlinked.  Chain(C) says where this can lead: to the threads  *)
(* in C, which are in the list when they live, and point into C again when *)
(* they do not; and what is behind a thread of C in the list is in C, so   *)
(* that a thread of C that is unlinked now points into C.                  *)
(***************************************************************************)
EXTENDS Scheduler, CommonTheorems, FiniteSetTheorems, TLAPS

Waitable == Objects \cup {Device}
Lists == [Waitable -> Seq(Threads)]

\* The lists agree with each other and with the processes.
Kept(list, q, proc, thr) ==
    /\ Distinct(list)
    /\ \A o \in Waitable : Distinct(q[o])
    /\ \A o \in Waitable, u \in Threads : ~(u \in ToSet(list) /\ u \in ToSet(q[o]))
    /\ \A o1, o2 \in Waitable, u \in Threads :
          u \in ToSet(q[o1]) /\ u \in ToSet(q[o2]) => o1 = o2
    /\ \A u \in Threads :
          proc[u] # None <=> u \in ToSet(list) \/ \E o \in Waitable : u \in ToSet(q[o])
    /\ \A p \in Procs : Distinct(thr[p])
    /\ \A u \in Threads, p \in Procs : u \in ToSet(thr[p]) <=> proc[u] = p

-----------------------------------------------------------------------------
(* What the steps of the kernel do to the lists.                           *)

\* What is left of the queues, the processes and the lists of threads when u
\* has been terminated.
QueuesLeft(q, u) == [o \in Waitable |-> Without(q[o], u)]
ProcessLeft(proc, u) == [proc EXCEPT ![u] = None]
ThreadsLeft(thr, p, u) == [thr EXCEPT ![p] = Without(@, u)]
LinkLeft(s, u) ==
    [s.link EXCEPT ![u] = IF u \in ToSet(s.list) THEN Successor(s.list, u) ELSE None]

\* A thread is terminated: it leaves its list and its process.
LEMMA LeftKept ==
    ASSUME NEW list \in Seq(Threads), NEW q \in Lists,
           NEW proc \in [Threads -> Procs \cup {None}], NEW thr \in [Procs -> Seq(Threads)],
           Kept(list, q, proc, thr), NEW u \in Threads, NEW p \in Procs, proc[u] = p
    PROVE  /\ Without(list, u) \in Seq(Threads)
           /\ QueuesLeft(q, u) \in Lists
           /\ ThreadsLeft(thr, p, u) \in [Procs -> Seq(Threads)]
           /\ Kept(Without(list, u), QueuesLeft(q, u),
                   ProcessLeft(proc, u), ThreadsLeft(thr, p, u))
<1>. DEFINE list2 == Without(list, u)
            q2 == QueuesLeft(q, u)
            proc2 == ProcessLeft(proc, u)
            thr2 == ThreadsLeft(thr, p, u)
<1>0. None \notin Procs
  BY SchedulerAssumption DEF Objects
<1>1. list2 \in Seq(Threads) /\ ToSet(list2) = ToSet(list) \ {u} /\ Distinct(list2)
  <2>1. Distinct(list)
    BY DEF Kept
  <2>. QED
    BY <2>1, WithoutFacts, Zenon
<1>2. \A o \in Waitable : q2[o] \in Seq(Threads) /\ ToSet(q2[o]) = ToSet(q[o]) \ {u}
                          /\ Distinct(q2[o])
  <2>. SUFFICES ASSUME NEW o \in Waitable
                PROVE  q2[o] \in Seq(Threads) /\ ToSet(q2[o]) = ToSet(q[o]) \ {u}
                       /\ Distinct(q2[o])
    OBVIOUS
  <2>1. q[o] \in Seq(Threads) /\ Distinct(q[o])
    BY DEF Lists, Kept
  <2>2. q2[o] = Without(q[o], u)
    BY DEF QueuesLeft
  <2>. QED
    BY <2>1, <2>2, WithoutFacts
<1>3. \A r \in Procs : thr2[r] \in Seq(Threads) /\ Distinct(thr2[r])
                       /\ ToSet(thr2[r]) = IF r = p THEN ToSet(thr[r]) \ {u} ELSE ToSet(thr[r])
  <2>. SUFFICES ASSUME NEW r \in Procs
                PROVE  thr2[r] \in Seq(Threads) /\ Distinct(thr2[r])
                       /\ ToSet(thr2[r]) = IF r = p THEN ToSet(thr[r]) \ {u} ELSE ToSet(thr[r])
    OBVIOUS
  <2>1. thr[r] \in Seq(Threads) /\ Distinct(thr[r])
    BY DEF Kept
  <2>2. thr2[r] = IF r = p THEN Without(thr[r], u) ELSE thr[r]
    BY DEF ThreadsLeft
  <2>. HIDE DEF thr2
  <2>3. CASE r = p
    BY <2>1, <2>2, <2>3, WithoutFacts
  <2>4. CASE r # p
    BY <2>1, <2>2, <2>4
  <2>. QED
    BY <2>3, <2>4
<1>4. \A x \in Threads : proc2[x] = IF x = u THEN None ELSE proc[x]
  BY DEF ProcessLeft
<1>5. q2 \in Lists
  BY <1>2, Zenon DEF Lists, QueuesLeft
<1>6. thr2 \in [Procs -> Seq(Threads)]
  BY <1>3 DEF ThreadsLeft
<1>. HIDE DEF list2, q2, proc2, thr2
<1>7. Kept(list2, q2, proc2, thr2)
  <2>1. Distinct(list2) /\ (\A o \in Waitable : Distinct(q2[o]))
        /\ \A r \in Procs : Distinct(thr2[r])
    BY <1>1, <1>2, <1>3
  <2>2. ASSUME NEW o \in Waitable, NEW x \in Threads
        PROVE  ~(x \in ToSet(list2) /\ x \in ToSet(q2[o]))
    <3>1. ~(x \in ToSet(list) /\ x \in ToSet(q[o]))
      BY DEF Kept
    <3>. QED
      BY <1>1, <1>2, <3>1
  <2>3. ASSUME NEW o1 \in Waitable, NEW o2 \in Waitable, NEW x \in Threads,
               x \in ToSet(q2[o1]), x \in ToSet(q2[o2])
        PROVE  o1 = o2
    <3>1. x \in ToSet(q[o1]) /\ x \in ToSet(q[o2])
      BY <1>2, <2>3
    <3>. QED
      BY <3>1 DEF Kept
  <2>4. ASSUME NEW x \in Threads
        PROVE  proc2[x] # None <=> x \in ToSet(list2) \/ \E o \in Waitable : x \in ToSet(q2[o])
    <3>1. proc[x] # None <=> x \in ToSet(list) \/ \E o \in Waitable : x \in ToSet(q[o])
      BY DEF Kept
    <3>. QED
      BY <1>1, <1>2, <1>4, <3>1
  <2>5. ASSUME NEW x \in Threads, NEW r \in Procs
        PROVE  x \in ToSet(thr2[r]) <=> proc2[x] = r
    <3>1. x \in ToSet(thr[r]) <=> proc[x] = r
      BY DEF Kept
    <3>2. r # None
      BY <1>0
    <3>3. ToSet(thr2[r]) = IF r = p THEN ToSet(thr[r]) \ {u} ELSE ToSet(thr[r])
      BY <1>3
    <3>4. CASE x = u
      <4>1. proc2[x] # r
        BY <1>4, <3>2, <3>4
      <4>2. x \notin ToSet(thr2[r])
        BY <3>1, <3>3, <3>4
      <4>. QED
        BY <4>1, <4>2
    <3>5. CASE x # u
      <4>1. proc2[x] = proc[x]
        BY <1>4, <3>5
      <4>2. x \in ToSet(thr2[r]) <=> x \in ToSet(thr[r])
        BY <3>3, <3>5
      <4>. QED
        BY <3>1, <4>1, <4>2
    <3>. QED
      BY <3>4, <3>5
  <2>. QED
    BY <2>1, <2>2, <2>3, <2>4, <2>5 DEF Kept
<1>. QED
  BY <1>1, <1>5, <1>6, <1>7 DEF list2, q2, proc2, thr2

\* The threads that wait for o are woken.
QueuesWoken(q, o) == [q EXCEPT ![o] = <<>>]

\* Waking everybody in a queue keeps the lists distinct and apart.
LEMMA WokenKept ==
    ASSUME NEW list \in Seq(Threads), NEW q \in Lists, NEW proc, NEW thr,
           Kept(list, q, proc, thr), NEW o \in Waitable
    PROVE  /\ list \o q[o] \in Seq(Threads)
           /\ QueuesWoken(q, o) \in Lists
           /\ Kept(list \o q[o], QueuesWoken(q, o), proc, thr)
<1>. DEFINE list2 == list \o q[o]
            q2 == QueuesWoken(q, o)
<1>1. q[o] \in Seq(Threads) /\ Distinct(q[o]) /\ ToSet(q[o]) \subseteq Threads
  BY EmptyFacts DEF Lists, Kept
<1>2. ToSet(list) \cap ToSet(q[o]) = {}
  BY <1>1 DEF Kept
<1>3. list2 \in Seq(Threads) /\ ToSet(list2) = ToSet(list) \cup ToSet(q[o]) /\ Distinct(list2)
  BY <1>1, <1>2, ConcatFacts DEF Kept
<1>4. q2 \in Lists
  BY EmptyFacts DEF Lists, QueuesWoken
<1>5. \A w \in Waitable : q2[w] = IF w = o THEN <<>> ELSE q[w]
  BY DEF Lists, QueuesWoken
<1>6. ToSet(<<>>) = {} /\ Distinct(<<>>)
  BY EmptyFacts
<1>. HIDE DEF list2, q2
<1>7. Kept(list2, q2, proc, thr)
  BY <1>3, <1>5, <1>6 DEF Kept
<1>. QED
  BY <1>3, <1>4, <1>7 DEF list2, q2

\* A new thread.
ProcessMade(proc, u, p) == [proc EXCEPT ![u] = p]
ThreadsMade(thr, p, u) == [thr EXCEPT ![p] = Append(@, u)]

\* A new thread enters the list of runnable threads and that of its process.
LEMMA CreatedKept ==
    ASSUME NEW list \in Seq(Threads), NEW q \in Lists,
           NEW proc \in [Threads -> Procs \cup {None}], NEW thr \in [Procs -> Seq(Threads)],
           Kept(list, q, proc, thr), NEW u \in Threads, proc[u] = None, NEW p \in Procs,
           q[u] = <<>>
    PROVE  /\ Append(list, u) \in Seq(Threads)
           /\ QueuesWoken(q, u) = q
           /\ ThreadsMade(thr, p, u) \in [Procs -> Seq(Threads)]
           /\ Kept(Append(list, u), q, ProcessMade(proc, u, p), ThreadsMade(thr, p, u))
<1>. DEFINE list2 == Append(list, u)
            proc2 == ProcessMade(proc, u, p)
            thr2 == ThreadsMade(thr, p, u)
<1>0. None \notin Procs
  BY SchedulerAssumption DEF Objects
<1>1. u \notin ToSet(list) /\ \A o \in Waitable : u \notin ToSet(q[o])
  BY DEF Kept
<1>2. \A r \in Procs : u \notin ToSet(thr[r])
  BY <1>0 DEF Kept
<1>3. list2 \in Seq(Threads) /\ ToSet(list2) = ToSet(list) \cup {u} /\ Distinct(list2)
  BY <1>1, AppendFacts DEF Kept
<1>4. \A r \in Procs : thr2[r] \in Seq(Threads) /\ Distinct(thr2[r])
                       /\ ToSet(thr2[r]) = IF r = p THEN ToSet(thr[r]) \cup {u} ELSE ToSet(thr[r])
  <2>. SUFFICES ASSUME NEW r \in Procs
                PROVE  thr2[r] \in Seq(Threads) /\ Distinct(thr2[r])
                       /\ ToSet(thr2[r]) = IF r = p THEN ToSet(thr[r]) \cup {u} ELSE ToSet(thr[r])
    OBVIOUS
  <2>1. thr[r] \in Seq(Threads) /\ Distinct(thr[r])
    BY DEF Kept
  <2>2. thr2[r] = IF r = p THEN Append(thr[r], u) ELSE thr[r]
    BY DEF ThreadsMade
  <2>. QED
    <3>1. CASE r = p
      <4>1. u \notin ToSet(thr[r]) /\ thr2[r] = Append(thr[r], u)
        BY <1>2, <2>2, <3>1
      <4>. QED
        BY <2>1, <3>1, <4>1, AppendFacts
    <3>2. CASE r # p
      BY <2>1, <2>2, <3>2
    <3>. QED
      BY <3>1, <3>2
<1>5. \A x \in Threads : proc2[x] = IF x = u THEN p ELSE proc[x]
  BY DEF ProcessMade
<1>6. thr2 \in [Procs -> Seq(Threads)]
  BY <1>4 DEF ThreadsMade
<1>7. u \in Waitable
  BY DEF Waitable, Objects
<1>8. QueuesWoken(q, u) = q
  BY <1>7 DEF Lists, QueuesWoken
<1>. HIDE DEF list2, proc2, thr2
<1>9. Kept(list2, q, proc2, thr2)
  <2>1. /\ Distinct(list2)
        /\ \A o \in Waitable : Distinct(q[o])
        /\ \A o \in Waitable, x \in Threads : ~(x \in ToSet(list2) /\ x \in ToSet(q[o]))
        /\ \A o1, o2 \in Waitable, x \in Threads :
              x \in ToSet(q[o1]) /\ x \in ToSet(q[o2]) => o1 = o2
        /\ \A r \in Procs : Distinct(thr2[r])
    BY <1>1, <1>3, <1>4 DEF Kept
  <2>2. ASSUME NEW x \in Threads
        PROVE  proc2[x] # None <=> x \in ToSet(list2) \/ \E o \in Waitable : x \in ToSet(q[o])
    BY <1>0, <1>3, <1>5 DEF Kept
  <2>3. ASSUME NEW x \in Threads, NEW r \in Procs
        PROVE  x \in ToSet(thr2[r]) <=> proc2[x] = r
    <3>1. x \in ToSet(thr[r]) <=> proc[x] = r
      BY DEF Kept
    <3>2. ToSet(thr2[r]) = IF r = p THEN ToSet(thr[r]) \cup {u} ELSE ToSet(thr[r])
      BY <1>4
    <3>3. CASE x = u
      BY <1>0, <1>5, <3>1, <3>2, <3>3
    <3>4. CASE x # u
      BY <1>5, <3>1, <3>2, <3>4
    <3>. QED
      BY <3>3, <3>4
  <2>. QED
    BY <2>1, <2>2, <2>3 DEF Kept
<1>. QED
  BY <1>3, <1>6, <1>8, <1>9 DEF list2, proc2, thr2

\* A thread of the list waits for o.
LEMMA BlockedKept ==
    ASSUME NEW list \in Seq(Threads), NEW q \in Lists, NEW proc, NEW thr,
           Kept(list, q, proc, thr), NEW u \in Threads, u \in ToSet(list), NEW o \in Waitable
    PROVE  /\ Without(list, u) \in Seq(Threads)
           /\ [q EXCEPT ![o] = <<u>> \o @] \in Lists
           /\ Kept(Without(list, u), [q EXCEPT ![o] = <<u>> \o @], proc, thr)
<1>. DEFINE list2 == Without(list, u)
            q2 == [q EXCEPT ![o] = <<u>> \o @]
<1>1. \A w \in Waitable : u \notin ToSet(q[w]) /\ q[w] \in Seq(Threads) /\ Distinct(q[w])
  BY DEF Lists, Kept
<1>2. list2 \in Seq(Threads) /\ ToSet(list2) = ToSet(list) \ {u} /\ Distinct(list2)
  BY WithoutFacts DEF Kept
<1>3. /\ <<u>> \o q[o] \in Seq(Threads) /\ ToSet(<<u>> \o q[o]) = ToSet(q[o]) \cup {u}
      /\ Distinct(<<u>> \o q[o])
  <2>. DEFINE s == <<u>>
  <2>1. s \in Seq(Threads) /\ ToSet(s) = {u} /\ Distinct(s)
    BY SingletonFacts
  <2>. HIDE DEF s
  <2>2. ToSet(s) \cap ToSet(q[o]) = {}
    BY <1>1, <2>1
  <2>3. /\ s \o q[o] \in Seq(Threads) /\ ToSet(s \o q[o]) = ToSet(s) \cup ToSet(q[o])
        /\ Distinct(s \o q[o])
    BY <1>1, <2>1, <2>2, ConcatFacts
  <2>. QED
    BY <2>1, <2>3 DEF s
<1>4. \A w \in Waitable : q2[w] = IF w = o THEN <<u>> \o q[o] ELSE q[w]
  BY DEF Lists
<1>5. q2 \in Lists
  BY <1>3 DEF Lists
<1>. HIDE DEF list2, q2
<1>6. \A w \in Waitable : Distinct(q2[w])
                          /\ ToSet(q2[w]) = IF w = o THEN ToSet(q[o]) \cup {u} ELSE ToSet(q[w])
  BY <1>1, <1>3, <1>4
<1>7. Kept(list2, q2, proc, thr)
  <2>1. ASSUME NEW x \in Threads
        PROVE  proc[x] # None <=> x \in ToSet(list2) \/ \E w \in Waitable : x \in ToSet(q2[w])
    BY <1>2, <1>6 DEF Kept
  <2>2. \A w \in Waitable, x \in Threads : ~(x \in ToSet(list2) /\ x \in ToSet(q2[w]))
    BY <1>2, <1>6 DEF Kept
  <2>3. \A o1, o2 \in Waitable, x \in Threads :
            x \in ToSet(q2[o1]) /\ x \in ToSet(q2[o2]) => o1 = o2
    BY <1>1, <1>6 DEF Kept
  <2>. QED
    BY <1>2, <1>6, <2>1, <2>2, <2>3 DEF Kept
<1>. QED
  BY <1>2, <1>5, <1>7 DEF list2, q2

\* Some queues lose thread u, which waits, and the list gets it.
LEMMA SignalledKept ==
    ASSUME NEW list \in Seq(Threads), NEW q \in Lists, NEW proc, NEW thr,
           Kept(list, q, proc, thr), NEW u \in Threads, NEW o \in Waitable, u \in ToSet(q[o]),
           NEW q2 \in Lists,
           \A w \in Waitable : Distinct(q2[w]) /\ ToSet(q2[w]) = ToSet(q[w]) \ {u}
    PROVE  Append(list, u) \in Seq(Threads) /\ Kept(Append(list, u), q2, proc, thr)
<1>. DEFINE list2 == Append(list, u)
<1>1. u \notin ToSet(list)
  BY DEF Kept
<1>2. list2 \in Seq(Threads) /\ ToSet(list2) = ToSet(list) \cup {u} /\ Distinct(list2)
  BY <1>1, AppendFacts DEF Kept
<1>. HIDE DEF list2
<1>3. Kept(list2, q2, proc, thr)
  <2>1. \A w \in Waitable, x \in Threads : ~(x \in ToSet(list2) /\ x \in ToSet(q2[w]))
    BY <1>2 DEF Kept
  <2>2. \A o1, o2 \in Waitable, x \in Threads :
            x \in ToSet(q2[o1]) /\ x \in ToSet(q2[o2]) => o1 = o2
    BY DEF Kept
  <2>3. ASSUME NEW x \in Threads
        PROVE  proc[x] # None <=> x \in ToSet(list2) \/ \E w \in Waitable : x \in ToSet(q2[w])
    <3>1. proc[x] # None <=> x \in ToSet(list) \/ \E w \in Waitable : x \in ToSet(q[w])
      BY DEF Kept
    <3>2. CASE x = u
      BY <1>2, <3>1, <3>2
    <3>3. CASE x # u
      BY <1>2, <3>1, <3>3
    <3>. QED
      BY <3>2, <3>3
  <2>. QED
    BY <1>2, <2>1, <2>2, <2>3 DEF Kept
<1>. QED
  BY <1>2, <1>3 DEF list2

-----------------------------------------------------------------------------
(* Where the pointer of the run loop can lead.                             *)

Chain(list, proc, lnk, C) ==
    /\ \A x \in C : proc[x] # None => x \in ToSet(list)
    /\ \A x \in C : proc[x] = None => lnk[x] \in C \cup {List}
    /\ \A i, j \in 1 .. Len(list) : i < j /\ list[i] \in C => list[j] \in C

\* The successor of an entry of a list.
LEMMA SuccessorFacts ==
    ASSUME NEW list \in Seq(Threads), Distinct(list), NEW u \in ToSet(list)
    PROVE  \E i \in 1 .. Len(list) :
              /\ list[i] = u
              /\ \/ i = Len(list) /\ Successor(list, u) = List
                 \/ /\ i < Len(list) /\ i + 1 \in 1 .. Len(list)
                    /\ Successor(list, u) = list[i + 1]
<1>. DEFINE k == CHOOSE j \in 1 .. Len(list) : list[j] = u
<1>1. k \in 1 .. Len(list) /\ list[k] = u
  BY ToSetElement
<1>2. Successor(list, u) = IF k = Len(list) THEN List ELSE list[k + 1]
  BY DEF Successor
<1>. HIDE DEF k
<1>3. Len(list) \in Nat
  BY LenProperties
<1>4. k = Len(list) \/ (k < Len(list) /\ k + 1 \in 1 .. Len(list))
  BY <1>1, <1>3
<1>. QED
  BY <1>1, <1>2, <1>4

\* A thread is terminated.
LEMMA RemovedChain ==
    ASSUME NEW list \in Seq(Threads), Distinct(list),
           NEW proc \in [Threads -> Procs \cup {None}],
           NEW lnk \in [Threads -> Threads \cup {List, None}],
           NEW C \in SUBSET Threads, Chain(list, proc, lnk, C),
           NEW u \in Threads, proc[u] # None, NEW v, u \in ToSet(list) => v = Successor(list, u)
    PROVE  Chain(Without(list, u), [proc EXCEPT ![u] = None], [lnk EXCEPT ![u] = v], C)
<1>. DEFINE w == Without(list, u)
            proc2 == [proc EXCEPT ![u] = None]
            lnk2 == [lnk EXCEPT ![u] = v]
<1>1. /\ w \in Seq(Threads) /\ ToSet(w) = ToSet(list) \ {u}
      /\ \A i, j \in 1 .. Len(w) : i < j =>
            \E a, b \in 1 .. Len(list) : a < b /\ w[i] = list[a] /\ w[j] = list[b]
  BY WithoutCells DEF Distinct
<1>2. \A x \in Threads : proc2[x] = IF x = u THEN None ELSE proc[x]
  OBVIOUS
<1>3. \A x \in Threads : lnk2[x] = IF x = u THEN v ELSE lnk[x]
  OBVIOUS
<1>. HIDE DEF w, proc2, lnk2
<1>4. \A x \in C : proc2[x] # None => x \in ToSet(w)
  BY <1>1, <1>2 DEF Chain
<1>5. ASSUME NEW x \in C, proc2[x] = None
      PROVE  lnk2[x] \in C \cup {List}
  <2>1. CASE x # u
    BY <1>2, <1>3, <1>5, <2>1 DEF Chain
  <2>2. CASE x = u
    <3>1. u \in ToSet(list)
      BY <2>2 DEF Chain
    <3>2. PICK i \in 1 .. Len(list) :
              /\ list[i] = u
              /\ \/ i = Len(list) /\ Successor(list, u) = List
                 \/ /\ i < Len(list) /\ i + 1 \in 1 .. Len(list)
                    /\ Successor(list, u) = list[i + 1]
      BY <3>1, SuccessorFacts
    <3>3. CASE Successor(list, u) = List
      BY <1>3, <2>2, <3>1, <3>3
    <3>4. CASE i + 1 \in 1 .. Len(list) /\ Successor(list, u) = list[i + 1]
      <4>1. i < i + 1
        BY <3>2
      <4>2. list[i + 1] \in C
        BY <2>2, <3>2, <3>4, <4>1 DEF Chain
      <4>. QED
        BY <1>3, <2>2, <3>1, <3>4, <4>2
    <3>. QED
      BY <3>2, <3>3, <3>4
  <2>. QED
    BY <2>1, <2>2
<1>6. \A i, j \in 1 .. Len(w) : i < j /\ w[i] \in C => w[j] \in C
  BY <1>1 DEF Chain
<1>. QED
  BY <1>4, <1>5, <1>6 DEF Chain, w, proc2, lnk2

\* Threads are linked at the end of the list.
LEMMA LongerChain ==
    ASSUME NEW list \in Seq(Threads), NEW s \in Seq(Threads), NEW proc, NEW proc2, NEW lnk,
           NEW C \in SUBSET Threads, Chain(list, proc, lnk, C),
           ToSet(list) \cap ToSet(s) = {},
           \A x \in ToSet(s) : proc2[x] # None,
           \A x \in Threads \ ToSet(s) : proc2[x] = proc[x]
    PROVE  Chain(list \o s, proc2, lnk, C \cup ToSet(s))
<1>. DEFINE c == list \o s
            D == C \cup ToSet(s)
<1>1. /\ c \in Seq(Threads) /\ ToSet(c) = ToSet(list) \cup ToSet(s)
      /\ Len(c) = Len(list) + Len(s)
      /\ \A i \in 1 .. Len(list) : c[i] = list[i]
      /\ \A i \in 1 .. Len(c) : i > Len(list) => c[i] \in ToSet(s)
  BY ConcatFacts
<1>2. Len(list) \in Nat /\ Len(s) \in Nat
  BY LenProperties
<1>. HIDE DEF c
<1>3. \A x \in D : proc2[x] # None => x \in ToSet(c)
  BY <1>1 DEF Chain
<1>4. \A x \in D : proc2[x] = None => lnk[x] \in D \cup {List}
  BY DEF Chain
<1>5. ASSUME NEW i \in 1 .. Len(c), NEW j \in 1 .. Len(c), i < j, c[i] \in D
      PROVE  c[j] \in D
  <2>1. CASE j > Len(list)
    BY <1>1, <2>1
  <2>2. CASE j <= Len(list)
    <3>1. i \in 1 .. Len(list) /\ j \in 1 .. Len(list)
      BY <1>2, <1>5, <2>2
    <3>2. list[i] \in ToSet(list)
      BY <3>1, ToSetElement
    <3>3. list[i] \in C
      BY <1>1, <1>5, <3>1, <3>2
    <3>. QED
      BY <1>1, <1>5, <3>1, <3>3 DEF Chain
  <2>. QED
    BY <1>2, <2>1, <2>2
<1>. QED
  BY <1>3, <1>4, <1>5 DEF Chain, c

\* A thread that the pointer does not lead to leaves the list.
LEMMA BlockedChain ==
    ASSUME NEW list \in Seq(Threads), Distinct(list), NEW proc, NEW lnk,
           NEW C \in SUBSET Threads, Chain(list, proc, lnk, C), NEW u, u \notin C
    PROVE  Chain(Without(list, u), proc, lnk, C)
<1>. DEFINE w == Without(list, u)
<1>1. /\ w \in Seq(Threads) /\ ToSet(w) = ToSet(list) \ {u}
      /\ \A i, j \in 1 .. Len(w) : i < j =>
            \E a, b \in 1 .. Len(list) : a < b /\ w[i] = list[a] /\ w[j] = list[b]
  BY WithoutCells DEF Distinct
<1>. HIDE DEF w
<1>2. \A x \in C : proc[x] # None => x \in ToSet(w)
  BY <1>1 DEF Chain
<1>3. \A i, j \in 1 .. Len(w) : i < j /\ w[i] \in C => w[j] \in C
  BY <1>1 DEF Chain
<1>. QED
  BY <1>2, <1>3 DEF Chain, w

\* A pass begins at the head of the list.
LEMMA HeadChain ==
    ASSUME NEW list \in Seq(Threads), NEW proc, NEW lnk,
           \A x \in ToSet(list) : proc[x] # None
    PROVE  ToSet(list) \in SUBSET Threads /\ Chain(list, proc, lnk, ToSet(list))
<1>1. ToSet(list) \in SUBSET Threads
  BY EmptyFacts
<1>2. \A j \in 1 .. Len(list) : list[j] \in ToSet(list)
  BY ToSetElement
<1>. QED
  BY <1>1, <1>2 DEF Chain

\* __threadRun reads the successor of the thread it runs.
LEMMA NextChain ==
    ASSUME NEW list \in Seq(Threads), Distinct(list), NEW proc, NEW lnk,
           \A x \in ToSet(list) : proc[x] # None, NEW u \in ToSet(list)
    PROVE  \E C \in SUBSET (Threads \ {u}) :
              Successor(list, u) \in C \cup {List} /\ Chain(list, proc, lnk, C)
<1>0. Len(list) \in Nat /\ \A j \in 1 .. Len(list) : list[j] \in Threads
  BY LenProperties, ElementOfSeq
<1>1. PICK k \in 1 .. Len(list) :
              /\ list[k] = u
              /\ \/ k = Len(list) /\ Successor(list, u) = List
                 \/ /\ k < Len(list) /\ k + 1 \in 1 .. Len(list)
                    /\ Successor(list, u) = list[k + 1]
  BY SuccessorFacts
<1>. DEFINE C == {list[j] : j \in {i \in 1 .. Len(list) : i > k}}
<1>2. C \in SUBSET (Threads \ {u})
  BY <1>0, <1>1 DEF Distinct
<1>3. Successor(list, u) \in C \cup {List}
  <2>1. k + 1 > k
    OBVIOUS
  <2>. QED
    BY <1>1, <2>1
<1>4. \A x \in C : x \in ToSet(list)
  BY ToSetElement
<1>5. ASSUME NEW i \in 1 .. Len(list), NEW j \in 1 .. Len(list), i < j, list[i] \in C
      PROVE  list[j] \in C
  <2>1. PICK a \in 1 .. Len(list) : a > k /\ list[a] = list[i]
    BY <1>5
  <2>2. a = i
    BY <2>1 DEF Distinct
  <2>3. j > k
    BY <1>0, <1>5, <2>1, <2>2
  <2>. QED
    BY <2>3
<1>. HIDE DEF C
<1>6. Chain(list, proc, lnk, C)
  BY <1>4, <1>5 DEF Chain
<1>. QED
  BY <1>2, <1>3, <1>6

-----------------------------------------------------------------------------
(* Reference counts.                                                       *)

Tables == [Procs -> SUBSET Objects]
Counts == [Objects -> Int]

\* The handles to o.
Holders(tab, o) == Cardinality({q \in Procs : o \in tab[q]})

Holds(tab, q, o) == IF o \in tab[q] THEN 1 ELSE 0

\* A set and the same set with or without one element.
LEMMA CountOne ==
    ASSUME NEW A, NEW B, NEW S, IsFiniteSet(S), A \subseteq S, B \subseteq S, NEW p \in S,
           \A q \in S \ {p} : q \in A <=> q \in B
    PROVE  /\ Cardinality(A) \in Nat /\ Cardinality(B) \in Nat
           /\ Cardinality(B) = Cardinality(A) - (IF p \in A THEN 1 ELSE 0)
                                              + (IF p \in B THEN 1 ELSE 0)
<1>1. IsFiniteSet(A) /\ IsFiniteSet(B)
  BY FS_Subset
<1>2. Cardinality(A) \in Nat /\ Cardinality(B) \in Nat
  BY <1>1, FS_CardinalityType
<1>3. CASE p \in A /\ p \in B
  <2>1. A = B
    BY <1>3
  <2>. QED
    BY <1>2, <1>3, <2>1
<1>4. CASE p \notin A /\ p \notin B
  <2>1. A = B
    BY <1>4
  <2>. QED
    BY <1>2, <1>4, <2>1
<1>5. CASE p \in A /\ p \notin B
  <2>1. B = A \ {p}
    BY <1>5
  <2>2. Cardinality(B) = Cardinality(A) - 1
    BY <1>1, <1>5, <2>1, FS_RemoveElement
  <2>. QED
    BY <1>2, <1>5, <2>2
<1>6. CASE p \notin A /\ p \in B
  <2>1. A = B \ {p}
    BY <1>6
  <2>2. Cardinality(A) = Cardinality(B) - 1
    BY <1>1, <1>6, <2>1, FS_RemoveElement
  <2>. QED
    BY <1>2, <1>6, <2>2
<1>. QED
  BY <1>3, <1>4, <1>5, <1>6

\* The table of p changes.
LEMMA HoldersChange ==
    ASSUME NEW tab \in Tables, NEW tab2 \in Tables, NEW p \in Procs, NEW o,
           \A q \in Procs \ {p} : tab2[q] = tab[q]
    PROVE  /\ Holders(tab, o) \in Nat /\ Holders(tab2, o) \in Nat
           /\ Holders(tab2, o) = Holders(tab, o) - Holds(tab, p, o) + Holds(tab2, p, o)
<1>. DEFINE A == {q \in Procs : o \in tab[q]}
            B == {q \in Procs : o \in tab2[q]}
<1>1. A \subseteq Procs /\ B \subseteq Procs /\ (\A q \in Procs \ {p} : q \in A <=> q \in B)
      /\ (p \in A <=> o \in tab[p]) /\ (p \in B <=> o \in tab2[p])
  OBVIOUS
<1>. HIDE DEF A, B
<1>2. /\ Cardinality(A) \in Nat /\ Cardinality(B) \in Nat
      /\ Cardinality(B) = Cardinality(A) - (IF p \in A THEN 1 ELSE 0)
                                         + (IF p \in B THEN 1 ELSE 0)
  BY <1>1, CountOne, SchedulerAssumption
<1>3. Holders(tab, o) = Cardinality(A) /\ Holders(tab2, o) = Cardinality(B)
  BY DEF Holders, A, B
<1>. QED
  BY <1>1, <1>2, <1>3 DEF Holds

\* An object without handles is in no table.
LEMMA HoldersZero ==
    ASSUME NEW tab \in Tables, NEW o
    PROVE  /\ Holders(tab, o) \in Nat
           /\ Holders(tab, o) = 0 <=> \A q \in Procs : o \notin tab[q]
<1>. DEFINE A == {q \in Procs : o \in tab[q]}
<1>1. IsFiniteSet(A)
  BY FS_Subset, SchedulerAssumption
<1>2. Cardinality(A) \in Nat /\ (Cardinality(A) = 0 <=> A = {})
  BY <1>1, FS_CardinalityType, FS_EmptySet
<1>. QED
  BY <1>2 DEF Holders

\* Every count is the number of references.
Counted(cnt, tab, proc, thr) ==
    /\ \A u \in Threads : cnt[u] = Holders(tab, u) + (IF proc[u] # None THEN 1 ELSE 0)
    /\ \A p \in Procs : cnt[p] = Holders(tab, p) + Len(thr[p])

\* Nobody waits for what is terminated, and it holds nothing.
Empty(q, proc, thr, tab) ==
    /\ \A u \in Threads : proc[u] = None => q[u] = <<>>
    /\ \A p \in Procs : thr[p] = <<>> => q[p] = <<>> /\ tab[p] = {}

-----------------------------------------------------------------------------
(* States as records, and what the operations of Scheduler do to them.     *)

States == [list : Seq(Threads), queue : Lists, process : [Threads -> Procs \cup {None}],
           threads : [Procs -> Seq(Threads)], handles : Tables, refs : Counts,
           link : [Threads -> Threads \cup {List, None}]]

Good(s) ==
    /\ s \in States
    /\ Kept(s.list, s.queue, s.process, s.threads)
    /\ Counted(s.refs, s.handles, s.process, s.threads)
    /\ Empty(s.queue, s.process, s.threads, s.handles)

\* The pointer at b leads to threads outside of X only, which are in the list.
Leads(s, b, X) ==
    \E C \in SUBSET (Threads \ X) :
        b \in C \cup {List} /\ Chain(s.list, s.process, s.link, C)

\* Which fields queueWakeup writes.
LEMMA WakeAllFields ==
    ASSUME NEW s \in States, NEW o \in Waitable
    PROVE  LET d == WakeAll(s, o)
           IN  /\ d.list = s.list \o s.queue[o] /\ d.queue = QueuesWoken(s.queue, o)
               /\ d.process = s.process /\ d.threads = s.threads /\ d.handles = s.handles
               /\ d.refs = s.refs /\ d.link = s.link
               /\ d \in States
<1>1. s.list \o s.queue[o] \in Seq(Threads) /\ QueuesWoken(s.queue, o) \in Lists
  <2>1. s.list \in Seq(Threads) /\ s.queue[o] \in Seq(Threads) /\ s.queue \in Lists
    BY DEF States, Lists
  <2>2. s.list \o s.queue[o] \in Seq(Threads)
    BY <2>1, ConcatFacts
  <2>. QED
    BY <2>1, <2>2, EmptyFacts DEF Lists, QueuesWoken
<1>. QED
  BY <1>1 DEF WakeAll, States, QueuesWoken

\* A handle table that is freed gives back one reference for each of its objects.
LEMMA FreeTableFields ==
    ASSUME NEW s \in States, NEW p \in Procs
    PROVE  LET d == FreeTable(s, p)
           IN  /\ d.list = s.list /\ d.queue = s.queue /\ d.process = s.process
               /\ d.threads = s.threads /\ d.link = s.link
               /\ d.handles = [s.handles EXCEPT ![p] = {}]
               /\ \A o \in Objects : d.refs[o] = s.refs[o] - Holds(s.handles, p, o)
               /\ d \in States
<1>. DEFINE R == [o \in Objects |-> s.refs[o] - (IF o \in s.handles[p] THEN 1 ELSE 0)]
            H == [s.handles EXCEPT ![p] = {}]
<1>1. FreeTable(s, p) = [s EXCEPT !.refs = R, !.handles = H]
  BY DEF FreeTable
<1>2. s.refs \in [Objects -> Int] /\ s.handles \in [Procs -> SUBSET Objects]
  BY DEF States, Counts, Tables
<1>3. R \in Counts /\ H \in Tables
  BY <1>2 DEF Counts, Tables
<1>4. \A o \in Objects : R[o] = s.refs[o] - Holds(s.handles, p, o)
  BY DEF Holds
<1>. HIDE DEF R, H
<1>. DEFINE d == [s EXCEPT !.refs = R, !.handles = H]
<1>5. /\ d.list = s.list /\ d.queue = s.queue /\ d.process = s.process
      /\ d.threads = s.threads /\ d.link = s.link /\ d.handles = H /\ d.refs = R
      /\ d \in States
  BY <1>3 DEF States
<1>. HIDE DEF d
<1>6. FreeTable(s, p) = d
  BY <1>1 DEF d
<1>. QED
  BY <1>4, <1>5, <1>6, Zenon DEF H

\* Which fields __objectRelease writes.
LEMMA ReleaseFields ==
    ASSUME NEW s \in States, NEW o \in Objects
    PROVE  LET d == Release(s, o)
           IN  /\ d.list = s.list /\ d.queue = s.queue /\ d.process = s.process
               /\ d.threads = s.threads /\ d.link = s.link /\ d.handles = s.handles
               /\ \A x \in Objects : d.refs[x] = s.refs[x] - (IF x = o THEN 1 ELSE 0)
               /\ d \in States
<1>. DEFINE R == [s.refs EXCEPT ![o] = @ - 1]
<1>1. Release(s, o) = [s EXCEPT !.refs = R]
  BY DEF Release
<1>2. s.refs \in [Objects -> Int]
  BY DEF States, Counts
<1>3. R \in Counts /\ \A x \in Objects : R[x] = s.refs[x] - (IF x = o THEN 1 ELSE 0)
  BY <1>2 DEF Counts
<1>. HIDE DEF R
<1>. QED
  BY <1>1, <1>3 DEF States

\* Which fields ll_remove writes, with the links a removed entry keeps.
LEMMA UnlinkFields ==
    ASSUME NEW s \in States, Kept(s.list, s.queue, s.process, s.threads),
           NEW u \in Threads, s.process[u] \in Procs
    PROVE  LET d == Unlink(s, u)
           IN  /\ d.list = Without(s.list, u) /\ d.queue = QueuesLeft(s.queue, u)
               /\ d.process = s.process /\ d.threads = s.threads
               /\ d.handles = s.handles /\ d.refs = s.refs /\ d.link = LinkLeft(s, u)
               /\ d \in States
<1>0. /\ s.list \in Seq(Threads) /\ s.queue \in Lists
      /\ s.process \in [Threads -> Procs \cup {None}] /\ s.threads \in [Procs -> Seq(Threads)]
      /\ s.link \in [Threads -> Threads \cup {List, None}]
  BY DEF States
<1>1. LinkLeft(s, u) \in [Threads -> Threads \cup {List, None}]
  <2>. DEFINE v == IF u \in ToSet(s.list) THEN Successor(s.list, u) ELSE None
  <2>1. CASE u \in ToSet(s.list)
    <3>1. PICK i \in 1 .. Len(s.list) :
              \/ Successor(s.list, u) = List
              \/ i + 1 \in 1 .. Len(s.list) /\ Successor(s.list, u) = s.list[i + 1]
      <4>1. Distinct(s.list)
        BY DEF Kept
      <4>. QED
        BY <1>0, <2>1, <4>1, SuccessorFacts
    <3>. QED
      BY <1>0, <2>1, <3>1, ElementOfSeq DEF LinkLeft
  <2>2. CASE u \notin ToSet(s.list)
    BY <1>0, <2>2 DEF LinkLeft
  <2>. QED
    BY <2>1, <2>2
<1>2. Without(s.list, u) \in Seq(Threads) /\ QueuesLeft(s.queue, u) \in Lists
  BY <1>0, LeftKept
<1>3. DOMAIN s.queue = Waitable
  BY <1>0 DEF Lists
<1>. DEFINE L == Without(s.list, u)
            Q == QueuesLeft(s.queue, u)
            K == LinkLeft(s, u)
<1>4. Unlink(s, u) = [s EXCEPT !.list = L, !.queue = Q, !.link = K]
  BY <1>3 DEF Unlink, QueuesLeft, LinkLeft
<1>. HIDE DEF L, Q, K
<1>5. L \in Seq(Threads) /\ Q \in Lists /\ K \in [Threads -> Threads \cup {List, None}]
  BY <1>1, <1>2 DEF L, Q, K
<1>. DEFINE d == [s EXCEPT !.list = L, !.queue = Q, !.link = K]
<1>6. /\ d.list = L /\ d.queue = Q /\ d.process = s.process /\ d.threads = s.threads
      /\ d.handles = s.handles /\ d.refs = s.refs /\ d.link = K /\ d \in States
  BY <1>5 DEF States
<1>. HIDE DEF d
<1>7. Unlink(s, u) = d
  BY <1>4 DEF d
<1>. QED
  BY <1>6, <1>7, Zenon DEF L, Q, K

\* A thread is unlinked and leaves its process, as __threadShutdown begins.
Removed(s, u, p) ==
    [Unlink(s, u) EXCEPT !.process[u] = None, !.threads[p] = Without(@, u)]

\* Which fields __threadShutdown writes to take a thread out of all lists.
LEMMA RemovedFields ==
    ASSUME NEW s \in States, Kept(s.list, s.queue, s.process, s.threads),
           NEW u \in Threads, NEW p \in Procs, s.process[u] = p
    PROVE  LET d == Removed(s, u, p)
           IN  /\ d.list = Without(s.list, u) /\ d.queue = QueuesLeft(s.queue, u)
               /\ d.process = ProcessLeft(s.process, u)
               /\ d.threads = ThreadsLeft(s.threads, p, u)
               /\ d.handles = s.handles /\ d.refs = s.refs /\ d.link = LinkLeft(s, u)
               /\ d \in States
               /\ Kept(d.list, d.queue, d.process, d.threads)
<1>. DEFINE e == Unlink(s, u)
<1>0. /\ s.list \in Seq(Threads) /\ s.queue \in Lists
      /\ s.process \in [Threads -> Procs \cup {None}] /\ s.threads \in [Procs -> Seq(Threads)]
  BY DEF States
<1>1. /\ e.list = Without(s.list, u) /\ e.queue = QueuesLeft(s.queue, u)
      /\ e.process = s.process /\ e.threads = s.threads
      /\ e.handles = s.handles /\ e.refs = s.refs /\ e.link = LinkLeft(s, u)
      /\ e \in States
  BY UnlinkFields
<1>2. /\ ThreadsLeft(s.threads, p, u) \in [Procs -> Seq(Threads)]
      /\ Kept(Without(s.list, u), QueuesLeft(s.queue, u), ProcessLeft(s.process, u),
              ThreadsLeft(s.threads, p, u))
  BY <1>0, LeftKept
<1>3. ProcessLeft(s.process, u) \in [Threads -> Procs \cup {None}]
  BY <1>0 DEF ProcessLeft
<1>. HIDE DEF e
<1>. DEFINE P == ProcessLeft(e.process, u)
            T == ThreadsLeft(e.threads, p, u)
<1>4. Removed(s, u, p) = [e EXCEPT !.process = P, !.threads = T]
  BY DEF Removed, ProcessLeft, ThreadsLeft, e
<1>5. P = ProcessLeft(s.process, u) /\ T = ThreadsLeft(s.threads, p, u)
      /\ P \in [Threads -> Procs \cup {None}] /\ T \in [Procs -> Seq(Threads)]
  BY <1>1, <1>2, <1>3
<1>. HIDE DEF P, T
<1>. DEFINE d == [e EXCEPT !.process = P, !.threads = T]
<1>6. /\ d.list = e.list /\ d.queue = e.queue /\ d.process = P /\ d.threads = T
      /\ d.handles = e.handles /\ d.refs = e.refs /\ d.link = e.link /\ d \in States
  BY <1>1, <1>5 DEF States
<1>. HIDE DEF d
<1>7. Removed(s, u, p) = d
  BY <1>4 DEF d
<1>8. /\ d.list = Without(s.list, u) /\ d.queue = QueuesLeft(s.queue, u)
      /\ d.process = ProcessLeft(s.process, u) /\ d.threads = ThreadsLeft(s.threads, p, u)
      /\ d.handles = s.handles /\ d.refs = s.refs /\ d.link = LinkLeft(s, u)
  BY <1>1, <1>5, <1>6, Zenon
<1>9. Kept(d.list, d.queue, d.process, d.threads)
  BY <1>2, <1>8, Zenon
<1>. QED
  BY <1>6, <1>7, <1>8, <1>9, Zenon

-----------------------------------------------------------------------------
(* A thread is shut down.                                                  *)

\* Only threads of U may have left the list since s, and where the pointer
\* leads to is in the list still.
Onward(s, d, U) ==
    \A X \in SUBSET (ToSet(s.list) \ U) :
        X \subseteq ToSet(d.list) /\ \A b : Leads(s, b, X) => Leads(d, b, X)

\* What two changes keep one after the other, both together keep.
LEMMA OnwardTwice ==
    ASSUME NEW s, NEW d, NEW e, NEW U, Onward(s, d, U), Onward(d, e, U)
    PROVE  Onward(s, e, U)
<1>. SUFFICES ASSUME NEW X \in SUBSET (ToSet(s.list) \ U)
              PROVE  X \subseteq ToSet(e.list) /\ \A b : Leads(s, b, X) => Leads(e, b, X)
  BY Zenon DEF Onward
<1>1. X \subseteq ToSet(d.list) /\ \A b : Leads(s, b, X) => Leads(d, b, X)
  BY Zenon DEF Onward
<1>2. X \in SUBSET (ToSet(d.list) \ U)
  BY <1>1
<1>3. X \subseteq ToSet(e.list) /\ \A b : Leads(d, b, X) => Leads(e, b, X)
  BY <1>2, Zenon DEF Onward
<1>. QED
  BY <1>1, <1>3, Zenon

\* A change outside of the list, the links and the owners keeps every chain.
LEMMA OnwardSame ==
    ASSUME NEW s, NEW d, d.list = s.list, d.process = s.process, d.link = s.link, NEW U
    PROVE  Onward(s, d, U)
<1>1. \A b, X : Leads(s, b, X) => Leads(d, b, X)
  BY Zenon DEF Leads
<1>2. \A X \in SUBSET (ToSet(s.list) \ U) : X \subseteq ToSet(d.list)
  OBVIOUS
<1>. QED
  BY <1>1, <1>2, Zenon DEF Onward

\* Waking a queue appends to the list of runnable threads, which keeps every chain.
LEMMA WakeAllOnward ==
    ASSUME NEW s \in States, Kept(s.list, s.queue, s.process, s.threads), NEW o \in Waitable
    PROVE  LET d == WakeAll(s, o)
           IN  /\ Kept(d.list, d.queue, d.process, d.threads)
               /\ \A w \in Waitable : d.queue[w] = IF w = o THEN <<>> ELSE s.queue[w]
               /\ \A U : Onward(s, d, U)
<1>. DEFINE d == WakeAll(s, o)
            C2(C) == C \cup ToSet(s.queue[o])
<1>1. /\ d.list = s.list \o s.queue[o] /\ d.queue = QueuesWoken(s.queue, o)
      /\ d.process = s.process /\ d.threads = s.threads /\ d.link = s.link
      /\ d \in States
  BY WakeAllFields
<1>2. /\ s.list \in Seq(Threads) /\ s.queue \in Lists /\ s.queue[o] \in Seq(Threads)
  BY DEF States, Lists
<1>. HIDE DEF d
<1>3. Kept(d.list, d.queue, d.process, d.threads)
  <2>1. Kept(s.list \o s.queue[o], QueuesWoken(s.queue, o), s.process, s.threads)
    BY <1>2, WokenKept
  <2>. QED
    BY <1>1, <2>1, Zenon
<1>4. \A w \in Waitable : d.queue[w] = IF w = o THEN <<>> ELSE s.queue[w]
  BY <1>1, <1>2 DEF Lists, QueuesWoken
<1>5. /\ ToSet(d.list) = ToSet(s.list) \cup ToSet(s.queue[o])
      /\ ToSet(s.queue[o]) \subseteq Threads
  BY <1>1, <1>2, ConcatFacts, EmptyFacts
<1>6. ToSet(s.list) \cap ToSet(s.queue[o]) = {}
  BY <1>5 DEF Kept
<1>7. \A x \in ToSet(s.queue[o]) : s.process[x] # None
  BY <1>5 DEF Kept
<1>8. ASSUME NEW U, NEW X \in SUBSET (ToSet(s.list) \ U), NEW b, Leads(s, b, X)
      PROVE  Leads(d, b, X)
  <2>1. PICK C \in SUBSET (Threads \ X) :
            b \in C \cup {List} /\ Chain(s.list, s.process, s.link, C)
    BY <1>8 DEF Leads
  <2>2. Chain(s.list \o s.queue[o], s.process, s.link, C2(C))
    BY <1>2, <1>6, <1>7, <2>1, LongerChain
  <2>3. C2(C) \in SUBSET (Threads \ X) /\ b \in C2(C) \cup {List}
    BY <1>5, <1>6, <2>1
  <2>. QED
    BY <1>1, <2>2, <2>3 DEF Leads
<1>9. \A U : Onward(s, d, U)
  BY <1>5, <1>8 DEF Onward
<1>. QED
  BY <1>3, <1>4, <1>9 DEF d

\* Removing a thread keeps every chain: it may lead through the removed one.
LEMMA RemovedOnward ==
    ASSUME NEW s \in States, Kept(s.list, s.queue, s.process, s.threads),
           NEW u \in Threads, NEW p \in Procs, s.process[u] = p
    PROVE  Onward(s, Removed(s, u, p), {u})
<1>. DEFINE d == Removed(s, u, p)
            v == IF u \in ToSet(s.list) THEN Successor(s.list, u) ELSE None
<1>0. None \notin Procs
  BY SchedulerAssumption DEF Objects
<1>1. /\ d.list = Without(s.list, u) /\ d.process = ProcessLeft(s.process, u)
      /\ d.link = LinkLeft(s, u)
  BY RemovedFields
<1>2. /\ s.list \in Seq(Threads) /\ s.process \in [Threads -> Procs \cup {None}]
      /\ s.link \in [Threads -> Threads \cup {List, None}] /\ Distinct(s.list)
  BY DEF States, Kept
<1>3. LinkLeft(s, u) = [s.link EXCEPT ![u] = v]
  BY DEF LinkLeft
<1>4. u \in ToSet(s.list) => v = Successor(s.list, u)
  OBVIOUS
<1>. HIDE DEF d, v
<1>5. ASSUME NEW X, NEW b, Leads(s, b, X)
      PROVE  Leads(d, b, X)
  <2>1. PICK C \in SUBSET (Threads \ X) :
            b \in C \cup {List} /\ Chain(s.list, s.process, s.link, C)
    BY <1>5 DEF Leads
  <2>2. Chain(Without(s.list, u), [s.process EXCEPT ![u] = None], [s.link EXCEPT ![u] = v], C)
    BY <1>0, <1>2, <1>4, <2>1, RemovedChain
  <2>3. Chain(d.list, d.process, d.link, C)
    BY <1>1, <1>3, <2>2, Zenon DEF ProcessLeft
  <2>. QED
    BY <2>1, <2>3 DEF Leads
<1>6. ToSet(d.list) = ToSet(s.list) \ {u}
  BY <1>1, <1>2, WithoutFacts
<1>. QED
  BY <1>5, <1>6 DEF Onward, d

\* The references to o that are not handles.
Rest(s, o) == s.refs[o] - Holders(s.handles, o)

\* Exact counts, stated by what is left of a count without the handles.
LEMMA RestCounted ==
    ASSUME NEW s \in States
    PROVE  /\ Counted(s.refs, s.handles, s.process, s.threads)
                <=> /\ \A u \in Threads : Rest(s, u) = IF s.process[u] # None THEN 1 ELSE 0
                    /\ \A p \in Procs : Rest(s, p) = Len(s.threads[p])
           /\ \A o \in Objects : Rest(s, o) \in Int /\ s.refs[o] \in Int
                                 /\ Holders(s.handles, o) \in Nat
           /\ \A p \in Procs : Len(s.threads[p]) \in Nat
<1>0. s.refs \in Counts /\ s.handles \in Tables /\ s.threads \in [Procs -> Seq(Threads)]
  BY DEF States
<1>1. \A o \in Objects : s.refs[o] \in Int /\ Holders(s.handles, o) \in Nat
  BY <1>0, HoldersZero DEF Counts
<1>2. \A o \in Objects : Rest(s, o) \in Int
                         /\ \A k \in Int : Rest(s, o) = k <=> s.refs[o] = Holders(s.handles, o) + k
  BY <1>1 DEF Rest
<1>3. \A p \in Procs : Len(s.threads[p]) \in Nat
  BY <1>0, LenProperties
<1>4. (\A u \in Threads : u \in Objects) /\ \A p \in Procs : p \in Objects
  BY DEF Objects
<1>5. \A u \in Threads : (IF s.process[u] # None THEN 1 ELSE 0) \in Int
  OBVIOUS
<1>6. ASSUME NEW u \in Threads
      PROVE  Rest(s, u) = (IF s.process[u] # None THEN 1 ELSE 0)
                <=> s.refs[u] = Holders(s.handles, u) + (IF s.process[u] # None THEN 1 ELSE 0)
  BY <1>2, <1>4, <1>5, Zenon
<1>7. ASSUME NEW p \in Procs
      PROVE  Rest(s, p) = Len(s.threads[p])
                <=> s.refs[p] = Holders(s.handles, p) + Len(s.threads[p])
  <2>1. Len(s.threads[p]) \in Int
    BY <1>3
  <2>. QED
    BY <1>2, <1>4, <2>1, Zenon
<1>8. Counted(s.refs, s.handles, s.process, s.threads)
        <=> /\ \A u \in Threads : Rest(s, u) = IF s.process[u] # None THEN 1 ELSE 0
            /\ \A p \in Procs : Rest(s, p) = Len(s.threads[p])
  BY <1>6, <1>7, Zenon DEF Counted
<1>. QED
  BY <1>1, <1>2, <1>3, <1>8, Zenon

\* A table is freed: the references its handles were are gone with them.
LEMMA FreeTableRest ==
    ASSUME NEW s \in States, NEW p \in Procs, NEW o \in Objects
    PROVE  Rest(FreeTable(s, p), o) = Rest(s, o)
<1>. DEFINE d == FreeTable(s, p)
<1>1. /\ d.handles = [s.handles EXCEPT ![p] = {}] /\ d \in States
      /\ d.refs[o] = s.refs[o] - Holds(s.handles, p, o)
  BY FreeTableFields
<1>. HIDE DEF d
<1>2. s.handles \in Tables /\ d.handles \in Tables /\ s.refs[o] \in Int
  BY <1>1 DEF States, Counts
<1>3. (\A q \in Procs \ {p} : d.handles[q] = s.handles[q]) /\ d.handles[p] = {}
  BY <1>1, <1>2 DEF Tables
<1>4. /\ Holders(s.handles, o) \in Nat /\ Holders(d.handles, o) \in Nat
      /\ Holders(d.handles, o) = Holders(s.handles, o) - Holds(s.handles, p, o)
                                                        + Holds(d.handles, p, o)
  BY <1>2, <1>3, HoldersChange
<1>5. Holds(d.handles, p, o) = 0 /\ Holds(s.handles, p, o) \in Int
  BY <1>3 DEF Holds
<1>6. d.refs[o] - Holders(d.handles, o) = s.refs[o] - Holders(s.handles, o)
  BY <1>1, <1>2, <1>4, <1>5
<1>. QED
  BY <1>6 DEF Rest, d

\* __processShutdown of a process without threads, which its last thread does.
Ended(w, p) == IF w.threads[p] = <<>> THEN FreeTable(WakeAll(w, p), p) ELSE w

\* What the end of a process without threads does.
LEMMA EndedFields ==
    ASSUME NEW w \in States, Kept(w.list, w.queue, w.process, w.threads), NEW p \in Procs
    PROVE  LET e == Ended(w, p)
           IN  /\ e \in States
               /\ Kept(e.list, e.queue, e.process, e.threads)
               /\ e.process = w.process /\ e.threads = w.threads
               /\ \A o \in Objects : Rest(e, o) = Rest(w, o)
               /\ \A q \in Procs : w.handles[q] = {} => e.handles[q] = {}
               /\ \A x \in Waitable : w.queue[x] = <<>> => e.queue[x] = <<>>
               /\ e.threads[p] = <<>> => e.queue[p] = <<>> /\ e.handles[p] = {}
               /\ \A U : Onward(w, e, U)
<1>. DEFINE a == WakeAll(w, p)
            e == Ended(w, p)
<1>0. p \in Waitable
  BY DEF Waitable, Objects
<1>1. /\ a.process = w.process /\ a.threads = w.threads /\ a.handles = w.handles
      /\ a.refs = w.refs /\ a \in States
  BY <1>0, WakeAllFields
<1>2. /\ Kept(a.list, a.queue, a.process, a.threads)
      /\ \A x \in Waitable : a.queue[x] = IF x = p THEN <<>> ELSE w.queue[x]
      /\ \A U : Onward(w, a, U)
  BY <1>0, WakeAllOnward
<1>. HIDE DEF a
<1>3. CASE w.threads[p] = <<>>
  <2>. DEFINE f == FreeTable(a, p)
  <2>1. e = f
    BY <1>3 DEF Ended, a
  <2>2. /\ f.list = a.list /\ f.queue = a.queue /\ f.process = a.process
        /\ f.threads = a.threads /\ f.link = a.link
        /\ f.handles = [a.handles EXCEPT ![p] = {}]
        /\ f \in States
    BY <1>1, FreeTableFields
  <2>3. \A o \in Objects : Rest(f, o) = Rest(a, o)
    BY <1>1, FreeTableRest
  <2>. HIDE DEF f
  <2>4. \A o \in Objects : Rest(a, o) = Rest(w, o)
    BY <1>1, Zenon DEF Rest
  <2>5. a.handles \in [Procs -> SUBSET Objects]
    BY <1>1 DEF States, Tables
  <2>6. \A q \in Procs : f.handles[q] = IF q = p THEN {} ELSE w.handles[q]
    BY <1>1, <2>2, <2>5
  <2>7. \A U : Onward(w, f, U)
    <3>1. \A U : Onward(a, f, U)
      BY <2>2, OnwardSame
    <3>. QED
      BY <1>2, <3>1, OnwardTwice
  <2>8. Kept(f.list, f.queue, f.process, f.threads)
    BY <1>2, <2>2, Zenon
  <2>9. /\ \A o \in Objects : Rest(f, o) = Rest(w, o)
        /\ f.process = w.process /\ f.threads = w.threads
    BY <1>1, <2>2, <2>3, <2>4
  <2>10. \A x \in Waitable : f.queue[x] = IF x = p THEN <<>> ELSE w.queue[x]
    BY <1>2, <2>2
  <2>. HIDE DEF e
  <2>. QED
    BY <1>0, <2>1, <2>2, <2>6, <2>7, <2>8, <2>9, <2>10 DEF e
<1>4. CASE w.threads[p] # <<>>
  <2>1. e = w
    BY <1>4 DEF Ended
  <2>2. \A U : Onward(w, w, U)
    BY OnwardSame
  <2>. HIDE DEF e
  <2>. QED
    BY <1>4, <2>1, <2>2 DEF e
<1>. QED
  BY <1>3, <1>4

\* One reference less.
LEMMA ReleaseRest ==
    ASSUME NEW s \in States, NEW o \in Objects, NEW x \in Objects
    PROVE  Rest(Release(s, o), x) = Rest(s, x) - (IF x = o THEN 1 ELSE 0)
<1>. DEFINE d == Release(s, o)
<1>1. d.handles = s.handles /\ d.refs[x] = s.refs[x] - (IF x = o THEN 1 ELSE 0)
  BY ReleaseFields
<1>. HIDE DEF d
<1>2. s.refs[x] \in Int /\ Holders(s.handles, x) \in Nat
  BY RestCounted
<1>3. d.refs[x] - Holders(d.handles, x)
        = s.refs[x] - Holders(s.handles, x) - (IF x = o THEN 1 ELSE 0)
  BY <1>1, <1>2
<1>. QED
  BY <1>3 DEF Rest, d

\* A thread that is shut down leaves everything else consistent: those that
\* waited for it are runnable, and its process ends with its last thread.
LEMMA ThreadDownGood ==
    ASSUME NEW s, Good(s), NEW u \in Threads
    PROVE  Good(ThreadDown(s, u)) /\ Onward(s, ThreadDown(s, u), {u})
<1>0. /\ s \in States /\ Kept(s.list, s.queue, s.process, s.threads)
      /\ Counted(s.refs, s.handles, s.process, s.threads)
      /\ Empty(s.queue, s.process, s.threads, s.handles)
  BY DEF Good
<1>. DEFINE p == s.process[u]
<1>1. CASE p = None
  <2>1. ThreadDown(s, u) = s
    BY <1>1 DEF ThreadDown
  <2>. QED
    BY <2>1, OnwardSame
<1>2. CASE p # None
  <2>. DEFINE r == Removed(s, u, p)
              w == WakeAll(r, u)
              e == Ended(w, p)
              f == Release(e, u)
              d == Release(f, p)
  <2>0. /\ p \in Procs /\ p # u /\ u \in Waitable /\ u \in Objects /\ p \in Objects
        /\ None \notin Procs /\ s.threads \in [Procs -> Seq(Threads)] /\ s.queue \in Lists
        /\ s.process \in [Threads -> Procs \cup {None}]
    BY <1>0, <1>2, SchedulerAssumption DEF States, Waitable, Objects
  <2>1. ThreadDown(s, u) = d
    BY <1>2, Zenon DEF ThreadDown, Removed, Ended
  <2>2. /\ r.queue = QueuesLeft(s.queue, u) /\ r.process = ProcessLeft(s.process, u)
        /\ r.threads = ThreadsLeft(s.threads, p, u)
        /\ r.handles = s.handles /\ r.refs = s.refs /\ r \in States
        /\ Kept(r.list, r.queue, r.process, r.threads)
    BY <1>0, <2>0, RemovedFields
  <2>3. Onward(s, r, {u})
    BY <1>0, <2>0, RemovedOnward
  <2>. HIDE DEF r
  <2>4. /\ w.process = r.process /\ w.threads = r.threads /\ w.handles = r.handles
        /\ w.refs = r.refs /\ w \in States
    BY <2>0, <2>2, WakeAllFields
  <2>5. /\ Kept(w.list, w.queue, w.process, w.threads)
        /\ \A x \in Waitable : w.queue[x] = IF x = u THEN <<>> ELSE r.queue[x]
        /\ \A U : Onward(r, w, U)
    BY <2>0, <2>2, WakeAllOnward
  <2>. HIDE DEF w
  <2>6. /\ e \in States /\ Kept(e.list, e.queue, e.process, e.threads)
        /\ e.process = w.process /\ e.threads = w.threads
        /\ \A o \in Objects : Rest(e, o) = Rest(w, o)
        /\ \A q \in Procs : w.handles[q] = {} => e.handles[q] = {}
        /\ \A x \in Waitable : w.queue[x] = <<>> => e.queue[x] = <<>>
        /\ e.threads[p] = <<>> => e.queue[p] = <<>> /\ e.handles[p] = {}
        /\ \A U : Onward(w, e, U)
    BY <2>0, <2>4, <2>5, EndedFields
  <2>. HIDE DEF e
  <2>7. /\ f.list = e.list /\ f.queue = e.queue /\ f.process = e.process
        /\ f.threads = e.threads /\ f.link = e.link /\ f.handles = e.handles /\ f \in States
        /\ \A x \in Objects : Rest(f, x) = Rest(e, x) - (IF x = u THEN 1 ELSE 0)
    BY <2>0, <2>6, ReleaseFields, ReleaseRest
  <2>. HIDE DEF f
  <2>8. /\ d.list = f.list /\ d.queue = f.queue /\ d.process = f.process
        /\ d.threads = f.threads /\ d.link = f.link /\ d.handles = f.handles /\ d \in States
        /\ \A x \in Objects : Rest(d, x) = Rest(f, x) - (IF x = p THEN 1 ELSE 0)
    BY <2>0, <2>7, ReleaseFields, ReleaseRest
  <2>. HIDE DEF d
  <2>9. Kept(d.list, d.queue, d.process, d.threads)
    BY <2>6, <2>7, <2>8, Zenon
  <2>10. /\ \A x \in Threads : d.process[x] = IF x = u THEN None ELSE s.process[x]
         /\ \A q \in Procs : d.threads[q] = IF q = p THEN Without(s.threads[q], u)
                                            ELSE s.threads[q]
    BY <2>0, <2>2, <2>4, <2>6, <2>7, <2>8 DEF ProcessLeft, ThreadsLeft
  <2>11. Distinct(s.threads[p]) /\ u \in ToSet(s.threads[p]) /\ s.threads[p] \in Seq(Threads)
    BY <1>0, <2>0 DEF Kept
  <2>12. Len(d.threads[p]) = Len(s.threads[p]) - 1
    BY <2>0, <2>10, <2>11, WithoutFacts
  <2>13. ASSUME NEW x \in Objects
         PROVE  Rest(d, x) = Rest(s, x) - (IF x = u THEN 1 ELSE 0) - (IF x = p THEN 1 ELSE 0)
    <3>1. Rest(s, x) = Rest(w, x)
      BY <2>2, <2>4 DEF Rest
    <3>. QED
      BY <2>6, <2>7, <2>8, <3>1
  <2>14. Counted(d.refs, d.handles, d.process, d.threads)
    <3>1. ASSUME NEW x \in Threads
          PROVE  Rest(d, x) = IF d.process[x] # None THEN 1 ELSE 0
      <4>1. x \in Objects /\ x # p
        BY <2>0, SchedulerAssumption DEF Objects
      <4>2. Rest(s, x) = IF s.process[x] # None THEN 1 ELSE 0
        BY <1>0, RestCounted
      <4>. QED
        BY <1>2, <2>10, <2>13, <4>1, <4>2
    <3>2. ASSUME NEW q \in Procs
          PROVE  Rest(d, q) = Len(d.threads[q])
      <4>1. q \in Objects /\ q # u
        BY <2>0, SchedulerAssumption DEF Objects
      <4>2. Rest(s, q) = Len(s.threads[q]) /\ Len(s.threads[q]) \in Nat
        BY <1>0, RestCounted
      <4>3. Rest(d, q) = Rest(s, q) - (IF q = u THEN 1 ELSE 0) - (IF q = p THEN 1 ELSE 0)
        BY <2>13, <4>1
      <4>4. CASE q = p
        BY <2>12, <4>1, <4>2, <4>3, <4>4
      <4>5. CASE q # p
        <5>1. d.threads[q] = s.threads[q]
          BY <2>10, <4>5
        <5>. QED
          BY <4>1, <4>2, <4>3, <4>5, <5>1
      <4>. QED
        BY <4>4, <4>5
    <3>3. (\A x \in Threads : Rest(d, x) = IF d.process[x] # None THEN 1 ELSE 0)
             /\ (\A q \in Procs : Rest(d, q) = Len(d.threads[q]))
          => Counted(d.refs, d.handles, d.process, d.threads)
      <4>1. d \in States
        BY <2>8
      <4>. QED
        BY <4>1, RestCounted, Zenon
    <3>. QED
      BY <3>1, <3>2, <3>3, Zenon
  <2>15. \A x \in Waitable : s.queue[x] = <<>> => d.queue[x] = <<>>
    <3>. SUFFICES ASSUME NEW x \in Waitable, s.queue[x] = <<>>
                  PROVE  w.queue[x] = <<>>
      BY <2>6, <2>7, <2>8
    <3>1. r.queue[x] = Without(s.queue[x], u)
      BY <2>2 DEF QueuesLeft
    <3>2. Without(<<>>, u) = <<>>
      BY DEF Without
    <3>. QED
      BY <2>5, <3>1, <3>2
  <2>16. d.queue[u] = <<>>
    BY <2>0, <2>5, <2>6, <2>7, <2>8
  <2>17. Empty(d.queue, d.process, d.threads, d.handles)
    <3>1. ASSUME NEW x \in Threads, d.process[x] = None
          PROVE  d.queue[x] = <<>>
      <4>1. x \in Waitable
        BY DEF Waitable, Objects
      <4>2. CASE x = u
        BY <2>16, <4>2
      <4>3. CASE x # u
        BY <1>0, <2>10, <2>15, <3>1, <4>1, <4>3 DEF Empty
      <4>. QED
        BY <4>2, <4>3
    <3>2. ASSUME NEW q \in Procs, d.threads[q] = <<>>
          PROVE  d.queue[q] = <<>> /\ d.handles[q] = {}
      <4>1. q \in Waitable
        BY DEF Waitable, Objects
      <4>2. CASE q = p
        BY <2>6, <2>7, <2>8, <3>2, <4>2
      <4>3. CASE q # p
        <5>1. s.queue[q] = <<>> /\ s.handles[q] = {}
          BY <1>0, <2>10, <3>2, <4>3 DEF Empty
        <5>. QED
          BY <2>2, <2>4, <2>6, <2>7, <2>8, <2>15, <4>1, <5>1
      <4>. QED
        BY <4>2, <4>3
    <3>. QED
      BY <3>1, <3>2 DEF Empty
  <2>18. Onward(s, d, {u})
    <3>1. Onward(e, d, {u})
      BY <2>7, <2>8, OnwardSame
    <3>2. Onward(s, w, {u})
      BY <2>3, <2>5, OnwardTwice
    <3>3. Onward(s, e, {u})
      BY <2>6, <3>2, OnwardTwice
    <3>. QED
      BY <3>1, <3>3, OnwardTwice
  <2>. QED
    BY <2>1, <2>8, <2>9, <2>14, <2>17, <2>18 DEF Good
<1>. QED
  BY <1>1, <1>2

\* The table of a process is freed.
LEMMA FreeTableGood ==
    ASSUME NEW s, Good(s), NEW p \in Procs
    PROVE  Good(FreeTable(s, p)) /\ \A U : Onward(s, FreeTable(s, p), U)
<1>. DEFINE d == FreeTable(s, p)
<1>0. /\ s \in States /\ Kept(s.list, s.queue, s.process, s.threads)
      /\ Counted(s.refs, s.handles, s.process, s.threads)
      /\ Empty(s.queue, s.process, s.threads, s.handles)
  BY DEF Good
<1>1. /\ d.list = s.list /\ d.queue = s.queue /\ d.process = s.process
      /\ d.threads = s.threads /\ d.link = s.link
      /\ d.handles = [s.handles EXCEPT ![p] = {}] /\ d \in States
      /\ \A o \in Objects : Rest(d, o) = Rest(s, o)
  BY <1>0, FreeTableFields, FreeTableRest
<1>. HIDE DEF d
<1>2. \A q \in Procs : s.handles[q] = {} => d.handles[q] = {}
  BY <1>0, <1>1 DEF States, Tables
<1>3. Kept(d.list, d.queue, d.process, d.threads)
  BY <1>0, <1>1, Zenon
<1>4. Counted(d.refs, d.handles, d.process, d.threads)
  BY <1>0, <1>1, RestCounted DEF Objects
<1>5. Empty(d.queue, d.process, d.threads, d.handles)
  BY <1>0, <1>1, <1>2 DEF Empty
<1>6. \A U : Onward(s, d, U)
  BY <1>1, OnwardSame
<1>. QED
  BY <1>1, <1>3, <1>4, <1>5, <1>6 DEF Good, d

\* Those that wait for o are woken.
LEMMA WakeAllGood ==
    ASSUME NEW s, Good(s), NEW o \in Waitable
    PROVE  Good(WakeAll(s, o)) /\ \A U : Onward(s, WakeAll(s, o), U)
<1>. DEFINE d == WakeAll(s, o)
<1>0. /\ s \in States /\ Kept(s.list, s.queue, s.process, s.threads)
      /\ Counted(s.refs, s.handles, s.process, s.threads)
      /\ Empty(s.queue, s.process, s.threads, s.handles)
  BY DEF Good
<1>1. /\ d.process = s.process /\ d.threads = s.threads /\ d.handles = s.handles
      /\ d.refs = s.refs /\ d \in States
  BY <1>0, WakeAllFields
<1>2. /\ Kept(d.list, d.queue, d.process, d.threads)
      /\ \A w \in Waitable : d.queue[w] = IF w = o THEN <<>> ELSE s.queue[w]
      /\ \A U : Onward(s, d, U)
  BY <1>0, WakeAllOnward
<1>. HIDE DEF d
<1>3. Empty(d.queue, d.process, d.threads, d.handles)
  BY <1>0, <1>1, <1>2 DEF Empty, Waitable, Objects
<1>4. Counted(d.refs, d.handles, d.process, d.threads)
  BY <1>0, <1>1, Zenon
<1>. QED
  BY <1>1, <1>2, <1>3, <1>4 DEF Good, d

-----------------------------------------------------------------------------
(* Several threads are shut down.                                          *)

\* What AllDown computes: it has a state after each of its steps.
LEMMA AllDownRuns ==
    ASSUME NEW s, Good(s), NEW us \in Seq(Threads)
    PROVE  \E f : /\ f[0] = s
                  /\ \A i \in 1 .. Len(us) : f[i] = ThreadDown(f[i - 1], us[i])
                  /\ AllDown(s, us) = f[Len(us)]
<1>. DEFINE n == Len(us)
            G == {x \in States : Good(x)}
            F == [z \in G \X (1 .. n) |-> ThreadDown(z[1], us[z[2]])]
            Step(f) == [i \in 0 .. n |-> IF i = 0 THEN s ELSE ThreadDown(f[i - 1], us[i])]
            after == CHOOSE f : f = Step(f)
<1>0. n \in Nat /\ s \in G /\ \A i \in 1 .. n : us[i] \in Threads
  BY LenProperties, ElementOfSeq DEF Good
<1>. HIDE DEF n
<1>1. Loop(G, n, F)
  <2>. SUFFICES ASSUME NEW x \in G, NEW i \in 1 .. n
                PROVE  ThreadDown(x, us[i]) \in G
    BY <1>0 DEF Loop
  <2>1. Good(ThreadDown(x, us[i]))
    BY <1>0, ThreadDownGood
  <2>. QED
    BY <2>1 DEF Good
<1>2. PICK h : RunOf(G, n, F, s, h)
  <2>. HIDE DEF F, G
  <2>. QED
    BY <1>0, <1>1, LoopRuns
<1>h. /\ h \in [0 .. n -> G] /\ h[0] = s
      /\ \A i \in 1 .. n : h[i] = F[<<h[i - 1], i>>]
  BY <1>2 DEF RunOf
<1>3. \A i \in 1 .. n : h[i] = ThreadDown(h[i - 1], us[i])
  <2>. SUFFICES ASSUME NEW i \in 1 .. n
                PROVE  F[<<h[i - 1], i>>] = ThreadDown(h[i - 1], us[i])
    BY <1>h
  <2>1. h[i - 1] \in G
    BY <1>0, <1>h
  <2>. QED
    BY <2>1
<1>4. h = Step(h)
  <2>1. \A i \in 0 .. n : i # 0 => i \in 1 .. n
    BY <1>0
  <2>. QED
    BY <1>h, <1>3, <2>1
<1>5. after = Step(after)
  BY <1>4
<1>. HIDE DEF after
<1>6. after[0] = s /\ \A i \in 1 .. n : after[i] = ThreadDown(after[i - 1], us[i])
  <2>1. 0 \in 0 .. n /\ \A i \in 1 .. n : i \in 0 .. n /\ i # 0
    BY <1>0
  <2>. DEFINE g == Step(after)
  <2>2. g[0] = s /\ \A i \in 1 .. n : g[i] = ThreadDown(after[i - 1], us[i])
    BY <2>1
  <2>. HIDE DEF g
  <2>3. after = g
    BY <1>5 DEF g
  <2>. QED
    BY <2>2, <2>3
<1>7. AllDown(s, us) = after[n]
  BY Zenon DEF AllDown, after, n
<1>. QED
  BY <1>6, <1>7 DEF n

\* Shutting down a list of threads one after the other keeps the state good.
LEMMA AllDownGood ==
    ASSUME NEW s, Good(s), NEW us \in Seq(Threads)
    PROVE  Good(AllDown(s, us)) /\ Onward(s, AllDown(s, us), ToSet(us))
<1>1. PICK f : /\ f[0] = s
               /\ \A i \in 1 .. Len(us) : f[i] = ThreadDown(f[i - 1], us[i])
               /\ AllDown(s, us) = f[Len(us)]
  BY AllDownRuns
<1>. DEFINE n == Len(us)
            A == {i \in 0 .. n : Good(f[i]) /\ Onward(s, f[i], ToSet(us))}
<1>2. n \in Nat /\ \A i \in 1 .. n : us[i] \in Threads /\ us[i] \in ToSet(us)
  BY LenProperties, ElementOfSeq, ToSetElement
<1>. HIDE DEF n
<1>3. 0 \in A
  <2>1. Good(f[0]) /\ Onward(s, f[0], ToSet(us))
    BY <1>1, OnwardSame
  <2>2. 0 \in 0 .. n
    BY <1>2
  <2>. QED
    BY <2>1, <2>2
<1>4. ASSUME NEW i \in 1 .. n, i - 1 \in A PROVE i \in A
  <2>1. Good(f[i - 1]) /\ Onward(s, f[i - 1], ToSet(us))
    BY <1>4
  <2>2. Good(ThreadDown(f[i - 1], us[i])) /\ Onward(f[i - 1], ThreadDown(f[i - 1], us[i]), {us[i]})
    BY <1>2, <2>1, ThreadDownGood
  <2>3. f[i] = ThreadDown(f[i - 1], us[i])
    BY <1>1 DEF n
  <2>4. Onward(f[i - 1], f[i], ToSet(us))
    <3>1. \A L : SUBSET (L \ ToSet(us)) \subseteq SUBSET (L \ {us[i]})
      BY <1>2
    <3>2. Onward(f[i - 1], f[i], {us[i]})
      BY <2>2, <2>3
    <3>. QED
      BY <3>1, <3>2 DEF Onward
  <2>5. Good(f[i]) /\ Onward(s, f[i], ToSet(us))
    BY <2>1, <2>2, <2>3, <2>4, OnwardTwice
  <2>6. i \in 0 .. n
    BY <1>2
  <2>. QED
    BY <2>5, <2>6
<1>. HIDE DEF A
<1>5. \A i \in 0 .. n : i \in A
  BY <1>2, <1>3, <1>4, UpTo
<1>6. n \in A
  BY <1>2, <1>5
<1>. QED
  BY <1>1, <1>6 DEF A, n

\* A process is shut down; its threads leave the list.
LEMMA ProcessDownGood ==
    ASSUME NEW s, Good(s), NEW p \in Procs
    PROVE  Good(ProcessDown(s, p)) /\ Onward(s, ProcessDown(s, p), ToSet(s.threads[p]))
<1>. DEFINE us == s.threads[p]
            a == WakeAll(s, p)
            b == AllDown(a, us)
            d == FreeTable(b, p)
<1>0. us \in Seq(Threads) /\ p \in Waitable
  BY DEF Good, States, Waitable, Objects
<1>1. ProcessDown(s, p) = d
  BY DEF ProcessDown
<1>. HIDE DEF us
<1>2. Good(a) /\ Onward(s, a, ToSet(us))
  BY <1>0, WakeAllGood
<1>. HIDE DEF a
<1>3. Good(b) /\ Onward(a, b, ToSet(us))
  BY <1>0, <1>2, AllDownGood
<1>. HIDE DEF b
<1>4. Good(d) /\ Onward(b, d, ToSet(us))
  BY <1>3, FreeTableGood
<1>. HIDE DEF d
<1>5. Onward(s, b, ToSet(us))
  BY <1>2, <1>3, OnwardTwice
<1>6. Onward(s, d, ToSet(us))
  BY <1>4, <1>5, OnwardTwice
<1>. QED
  BY <1>1, <1>4, <1>6 DEF us

-----------------------------------------------------------------------------
(* Handles are added and removed, threads created.                         *)

\* The table of p becomes H, and the counts follow.
Retabled(s, d, p, H) ==
    /\ d \in States
    /\ d.list = s.list /\ d.queue = s.queue /\ d.process = s.process
    /\ d.threads = s.threads /\ d.link = s.link
    /\ d.handles = [s.handles EXCEPT ![p] = H]
    /\ \A o \in Objects :
          d.refs[o] = s.refs[o] - Holds(s.handles, p, o) + (IF o \in H THEN 1 ELSE 0)

\* A table that is replaced together with its references changes no other count.
LEMMA RetabledRest ==
    ASSUME NEW s \in States, NEW d, NEW p \in Procs, NEW H \in SUBSET Objects,
           Retabled(s, d, p, H)
    PROVE  /\ \A o \in Objects : Rest(d, o) = Rest(s, o)
           /\ \A q \in Procs : d.handles[q] = IF q = p THEN H ELSE s.handles[q]
           /\ \A U : Onward(s, d, U)
<1>1. s.handles \in Tables /\ d.handles \in Tables /\ s.refs \in Counts
  BY DEF States, Retabled
<1>2. \A q \in Procs : d.handles[q] = IF q = p THEN H ELSE s.handles[q]
  BY <1>1 DEF Tables, Retabled
<1>3. ASSUME NEW o \in Objects PROVE Rest(d, o) = Rest(s, o)
  <2>1. /\ Holders(s.handles, o) \in Nat /\ Holders(d.handles, o) \in Nat
        /\ Holders(d.handles, o) = Holders(s.handles, o) - Holds(s.handles, p, o)
                                                          + Holds(d.handles, p, o)
    BY <1>1, <1>2, HoldersChange
  <2>2. /\ Holds(d.handles, p, o) = (IF o \in H THEN 1 ELSE 0)
        /\ Holds(s.handles, p, o) \in Int /\ s.refs[o] \in Int
    BY <1>1, <1>2 DEF Holds, Counts
  <2>3. d.refs[o] = s.refs[o] - Holds(s.handles, p, o) + (IF o \in H THEN 1 ELSE 0)
    BY DEF Retabled
  <2>4. d.refs[o] - Holders(d.handles, o) = s.refs[o] - Holders(s.handles, o)
    BY <2>1, <2>2, <2>3
  <2>. QED
    BY <2>4 DEF Rest
<1>4. \A U : Onward(s, d, U)
  BY OnwardSame DEF Retabled
<1>. QED
  BY <1>2, <1>3, <1>4

\* It keeps the counts exact,
LEMMA RetabledCounted ==
    ASSUME NEW s \in States, NEW d, NEW p \in Procs, NEW H \in SUBSET Objects,
           Retabled(s, d, p, H), Counted(s.refs, s.handles, s.process, s.threads)
    PROVE  Counted(d.refs, d.handles, d.process, d.threads)
<1>1. d \in States /\ d.process = s.process /\ d.threads = s.threads
  BY DEF Retabled
<1>2. \A o \in Objects : Rest(d, o) = Rest(s, o)
  BY RetabledRest
<1>. QED
  BY <1>1, <1>2, RestCounted DEF Objects

\* and the state good.
LEMMA RetabledGood ==
    ASSUME NEW s, Good(s), NEW d, NEW p \in Procs, NEW H \in SUBSET Objects,
           Retabled(s, d, p, H), s.threads[p] # <<>> \/ H = {}
    PROVE  Good(d) /\ \A U : Onward(s, d, U)
<1>0. /\ s \in States /\ Kept(s.list, s.queue, s.process, s.threads)
      /\ Counted(s.refs, s.handles, s.process, s.threads)
      /\ Empty(s.queue, s.process, s.threads, s.handles)
  BY DEF Good
<1>1. /\ \A o \in Objects : Rest(d, o) = Rest(s, o)
      /\ \A q \in Procs : d.handles[q] = IF q = p THEN H ELSE s.handles[q]
      /\ \A U : Onward(s, d, U)
  BY <1>0, RetabledRest
<1>2. /\ d \in States /\ d.list = s.list /\ d.queue = s.queue /\ d.process = s.process
      /\ d.threads = s.threads
  BY DEF Retabled
<1>3. Kept(d.list, d.queue, d.process, d.threads)
  BY <1>0, <1>2, Zenon
<1>4. Counted(d.refs, d.handles, d.process, d.threads)
  BY <1>0, RetabledCounted
<1>5. Empty(d.queue, d.process, d.threads, d.handles)
  BY <1>0, <1>1, <1>2 DEF Empty
<1>. QED
  BY <1>1, <1>2, <1>3, <1>4, <1>5 DEF Good

\* A handle is added together with a reference.
LEMMA WithHandleGood ==
    ASSUME NEW s, Good(s), NEW p \in Procs, s.threads[p] # <<>>,
           NEW o \in Objects, o \notin s.handles[p]
    PROVE  Good(WithHandle(s, p, o)) /\ \A U : Onward(s, WithHandle(s, p, o), U)
<1>. DEFINE H == s.handles[p] \cup {o}
            T == [s.handles EXCEPT ![p] = H]
            R == [s.refs EXCEPT ![o] = @ + 1]
            d == [s EXCEPT !.handles = T, !.refs = R]
<1>0. s \in States /\ s.handles \in [Procs -> SUBSET Objects] /\ s.refs \in [Objects -> Int]
  BY DEF Good, States, Tables, Counts
<1>1. CASE Cardinality(s.handles[p]) = MaxHandles
  BY <1>1, OnwardSame DEF WithHandle
<1>2. CASE Cardinality(s.handles[p]) # MaxHandles
  <2>1. WithHandle(s, p, o) = d
    BY <1>2 DEF WithHandle
  <2>2. T \in Tables /\ R \in Counts /\ H \in SUBSET Objects
    BY <1>0 DEF Tables, Counts
  <2>3. \A x \in Objects : R[x] = s.refs[x] - Holds(s.handles, p, x) + (IF x \in H THEN 1 ELSE 0)
    <3>. SUFFICES ASSUME NEW x \in Objects
                  PROVE  R[x] = s.refs[x] - Holds(s.handles, p, x) + (IF x \in H THEN 1 ELSE 0)
      OBVIOUS
    <3>0. s.refs[x] \in Int /\ R[x] = IF x = o THEN s.refs[x] + 1 ELSE s.refs[x]
      BY <1>0
    <3>1. CASE x = o
      BY <3>0, <3>1 DEF Holds
    <3>2. CASE x # o
      BY <3>0, <3>2 DEF Holds
    <3>. QED
      BY <3>1, <3>2
  <2>. HIDE DEF T, R
  <2>3a. /\ d.list = s.list /\ d.queue = s.queue /\ d.process = s.process
         /\ d.threads = s.threads /\ d.link = s.link /\ d.handles = T /\ d.refs = R
         /\ d \in States
    BY <1>0, <2>2 DEF States
  <2>. HIDE DEF d, H
  <2>4. Retabled(s, d, p, H)
    BY <2>3, <2>3a DEF Retabled, T
  <2>5. Good(d) /\ \A U : Onward(s, d, U)
    BY <2>2, <2>4, RetabledGood
  <2>. QED
    BY <2>1, <2>5
<1>. QED
  BY <1>1, <1>2

\* A handle is closed together with its reference.
LEMMA CloseGood ==
    ASSUME NEW s, Good(s), NEW p \in Procs, NEW o \in Objects, o \in s.handles[p]
    PROVE  LET d == Release([s EXCEPT !.handles[p] = @ \ {o}], o)
           IN  Good(d) /\ \A U : Onward(s, d, U)
<1>. DEFINE H == s.handles[p] \ {o}
            T == [s.handles EXCEPT ![p] = H]
            a == [s EXCEPT !.handles = T]
            d == Release(a, o)
<1>0. s \in States /\ s.handles \in [Procs -> SUBSET Objects] /\ s.refs \in [Objects -> Int]
  BY DEF Good, States, Tables, Counts
<1>1. T \in Tables /\ H \in SUBSET Objects
  BY <1>0 DEF Tables
<1>2. [s EXCEPT !.handles[p] = @ \ {o}] = a
  OBVIOUS
<1>. HIDE DEF T
<1>3. /\ a.list = s.list /\ a.queue = s.queue /\ a.process = s.process
      /\ a.threads = s.threads /\ a.link = s.link /\ a.handles = T /\ a.refs = s.refs
      /\ a \in States
  BY <1>0, <1>1 DEF States
<1>. HIDE DEF a
<1>4. /\ d.list = a.list /\ d.queue = a.queue /\ d.process = a.process
      /\ d.threads = a.threads /\ d.link = a.link /\ d.handles = a.handles
      /\ \A x \in Objects : d.refs[x] = a.refs[x] - (IF x = o THEN 1 ELSE 0)
      /\ d \in States
  BY <1>3, ReleaseFields
<1>. HIDE DEF d
<1>5. ASSUME NEW x \in Objects
      PROVE  d.refs[x] = s.refs[x] - Holds(s.handles, p, x) + (IF x \in H THEN 1 ELSE 0)
  <2>0. s.refs[x] \in Int /\ d.refs[x] = s.refs[x] - (IF x = o THEN 1 ELSE 0)
    BY <1>0, <1>3, <1>4
  <2>1. CASE x = o
    BY <2>0, <2>1 DEF Holds
  <2>2. CASE x # o
    BY <2>0, <2>2 DEF Holds
  <2>. QED
    BY <2>1, <2>2
<1>6. Retabled(s, d, p, H)
  BY <1>3, <1>4, <1>5 DEF Retabled, T
<1>7. s.threads[p] # <<>> \/ H = {}
  BY DEF Good, Empty
<1>. HIDE DEF H
<1>8. Good(d) /\ \A U : Onward(s, d, U)
  BY <1>1, <1>6, <1>7, RetabledGood
<1>. QED
  BY <1>2, <1>8 DEF d

\* Which fields threadCreate writes.
LEMMA WithThreadFields ==
    ASSUME NEW s \in States, Kept(s.list, s.queue, s.process, s.threads),
           NEW p \in Procs, NEW u \in Threads, s.process[u] = None, s.queue[u] = <<>>,
           s.refs[u] = 0
    PROVE  LET d == WithThread(s, p, u)
           IN  /\ d.list = Append(s.list, u) /\ d.queue = s.queue
               /\ d.process = ProcessMade(s.process, u, p)
               /\ d.threads = ThreadsMade(s.threads, p, u)
               /\ d.handles = s.handles /\ d.link = s.link
               /\ \A o \in Objects : d.refs[o] = s.refs[o] + (IF o \in {u, p} THEN 1 ELSE 0)
               /\ d \in States /\ Kept(d.list, d.queue, d.process, d.threads)
<1>. DEFINE L == Append(s.list, u)
            P == ProcessMade(s.process, u, p)
            T == ThreadsMade(s.threads, p, u)
            R1 == [s.refs EXCEPT ![u] = 1]
            R == [R1 EXCEPT ![p] = @ + 1]
            d == [s EXCEPT !.list = L, !.queue = s.queue, !.process = P, !.threads = T,
                           !.refs = R]
<1>0. /\ s.list \in Seq(Threads) /\ s.queue \in Lists
      /\ s.process \in [Threads -> Procs \cup {None}]
      /\ s.threads \in [Procs -> Seq(Threads)] /\ s.refs \in [Objects -> Int]
  BY DEF States, Counts
<1>1. u # p /\ u \in Objects /\ p \in Objects
  BY SchedulerAssumption DEF Objects
<1>2. L \in Seq(Threads) /\ QueuesWoken(s.queue, u) = s.queue /\ T \in [Procs -> Seq(Threads)]
      /\ Kept(L, s.queue, P, T)
  <2>. DEFINE list == s.list
              q == s.queue
              proc == s.process
              thr == s.threads
  <2>1. /\ list \in Seq(Threads) /\ q \in Lists /\ proc \in [Threads -> Procs \cup {None}]
        /\ thr \in [Procs -> Seq(Threads)] /\ Kept(list, q, proc, thr)
        /\ proc[u] = None /\ q[u] = <<>>
    BY <1>0
  <2>. HIDE DEF list, q, proc, thr
  <2>2. /\ Append(list, u) \in Seq(Threads)
        /\ QueuesWoken(q, u) = q
        /\ ThreadsMade(thr, p, u) \in [Procs -> Seq(Threads)]
        /\ Kept(Append(list, u), q, ProcessMade(proc, u, p), ThreadsMade(thr, p, u))
    BY <2>1, CreatedKept
  <2>. QED
    BY <2>2 DEF list, q, proc, thr
<1>3. P \in [Threads -> Procs \cup {None}]
  BY <1>0 DEF ProcessMade
<1>4. R \in Counts /\ \A o \in Objects : R[o] = s.refs[o] + (IF o \in {u, p} THEN 1 ELSE 0)
  BY <1>0, <1>1 DEF Counts
<1>5. WithThread(s, p, u) = d
  <2>1. WithThread(s, p, u) = [s EXCEPT !.list = L, !.queue = QueuesWoken(s.queue, u),
                                        !.process = P, !.threads = T, !.refs = R]
    BY <1>1, ZenonT(60) DEF WithThread, QueuesWoken, ProcessMade, ThreadsMade
  <2>. QED
    BY <1>2, <2>1, Zenon
<1>. HIDE DEF L, P, T, R
<1>6. /\ d.list = L /\ d.queue = s.queue /\ d.process = P /\ d.threads = T
      /\ d.handles = s.handles /\ d.link = s.link /\ d.refs = R /\ d \in States
  BY <1>0, <1>2, <1>3, <1>4 DEF States
<1>. HIDE DEF d
<1>7. Kept(d.list, d.queue, d.process, d.threads)
  BY <1>2, <1>6, Zenon
<1>. QED
  BY <1>4, <1>5, <1>6, <1>7, Zenon DEF L, P, T

\* A thread is linked at the end of the list, new or woken.
LEMMA AppendedOnward ==
    ASSUME NEW s, NEW d, NEW u \in Threads, s.list \in Seq(Threads), u \notin ToSet(s.list),
           d.list = Append(s.list, u), d.link = s.link, d.process[u] # None,
           \A x \in Threads \ {u} : d.process[x] = s.process[x]
    PROVE  \A U : Onward(s, d, U)
<1>. DEFINE one == <<u>>
<1>1. one \in Seq(Threads) /\ ToSet(one) = {u} /\ d.list = s.list \o one
  BY SingletonFacts, AppendIsConcat
<1>. HIDE DEF one
<1>2. ToSet(d.list) = ToSet(s.list) \cup {u} /\ ToSet(s.list) \cap ToSet(one) = {}
  BY <1>1, ConcatFacts
<1>3. ASSUME NEW X \in SUBSET ToSet(s.list), NEW b, Leads(s, b, X)
      PROVE  Leads(d, b, X)
  <2>1. PICK C \in SUBSET (Threads \ X) :
            b \in C \cup {List} /\ Chain(s.list, s.process, s.link, C)
    BY <1>3 DEF Leads
  <2>2. Chain(s.list \o one, d.process, s.link, C \cup ToSet(one))
    <3>1. C \in SUBSET Threads
      OBVIOUS
    <3>2. /\ \A x \in ToSet(one) : d.process[x] # None
          /\ \A x \in Threads \ ToSet(one) : d.process[x] = s.process[x]
      BY <1>1
    <3>. QED
      BY <1>1, <1>2, <2>1, <3>1, <3>2, LongerChain
  <2>3. C \cup ToSet(one) \in SUBSET (Threads \ X) /\ b \in (C \cup ToSet(one)) \cup {List}
    BY <1>1, <2>1
  <2>. QED
    BY <1>1, <2>2, <2>3 DEF Leads
<1>. QED
  BY <1>2, <1>3 DEF Onward

\* An object that is freed is terminated, and nobody has a handle to it.
LEMMA FreedGone ==
    ASSUME NEW s \in States, Counted(s.refs, s.handles, s.process, s.threads)
    PROVE  /\ \A u \in Threads : s.refs[u] = 0 =>
                  s.process[u] = None /\ \A q \in Procs : u \notin s.handles[q]
           /\ \A p \in Procs : s.refs[p] = 0 =>
                  s.threads[p] = <<>> /\ \A q \in Procs : p \notin s.handles[q]
           /\ \A o \in Objects : s.refs[o] \in Nat
<1>0. s.handles \in Tables /\ s.threads \in [Procs -> Seq(Threads)]
  BY DEF States
<1>1. \A o \in Objects : /\ Holders(s.handles, o) \in Nat
                         /\ Holders(s.handles, o) = 0 => \A q \in Procs : o \notin s.handles[q]
  BY <1>0, HoldersZero
<1>2. \A p \in Procs : Len(s.threads[p]) \in Nat /\ (Len(s.threads[p]) = 0 => s.threads[p] = <<>>)
  BY <1>0, LenProperties, EmptyFacts
<1>3. ASSUME NEW u \in Threads
      PROVE  /\ s.refs[u] = 0 => s.process[u] = None /\ \A q \in Procs : u \notin s.handles[q]
             /\ s.refs[u] \in Nat
  <2>1. u \in Objects /\ s.refs[u] = Holders(s.handles, u) + (IF s.process[u] # None THEN 1 ELSE 0)
    BY DEF Counted, Objects
  <2>2. CASE s.process[u] # None
    BY <1>1, <2>1, <2>2
  <2>3. CASE s.process[u] = None
    BY <1>1, <2>1, <2>3
  <2>. QED
    BY <2>2, <2>3
<1>4. ASSUME NEW p \in Procs
      PROVE  /\ s.refs[p] = 0 => s.threads[p] = <<>> /\ \A q \in Procs : p \notin s.handles[q]
             /\ s.refs[p] \in Nat
  <2>1. p \in Objects /\ s.refs[p] = Holders(s.handles, p) + Len(s.threads[p])
    BY DEF Counted, Objects
  <2>2. s.refs[p] = 0 => Holders(s.handles, p) = 0 /\ Len(s.threads[p]) = 0
    BY <1>1, <1>2, <2>1
  <2>3. s.refs[p] \in Nat
    BY <1>1, <1>2, <2>1
  <2>. QED
    BY <1>1, <1>2, <2>1, <2>2, <2>3
<1>. QED
  BY <1>3, <1>4 DEF Objects

\* A thread is created.  Its process may have a table already, as after fork.
LEMMA WithThreadGood ==
    ASSUME NEW s \in States, Kept(s.list, s.queue, s.process, s.threads),
           Counted(s.refs, s.handles, s.process, s.threads),
           NEW p \in Procs, NEW u \in Threads, s.refs[u] = 0,
           \A x \in Threads : s.process[x] = None => s.queue[x] = <<>>,
           \A q \in Procs \ {p} : s.threads[q] = <<>> => s.queue[q] = <<>> /\ s.handles[q] = {}
    PROVE  LET d == WithThread(s, p, u)
           IN  /\ Good(d) /\ (\A U : Onward(s, d, U))
               /\ d.threads[p] # <<>> /\ d.handles = s.handles
               /\ \A q \in Procs : s.threads[q] # <<>> => d.threads[q] # <<>>
<1>. DEFINE d == WithThread(s, p, u)
<1>0. /\ s.list \in Seq(Threads) /\ s.queue \in Lists
      /\ s.process \in [Threads -> Procs \cup {None}] /\ s.refs \in Counts
      /\ s.threads \in [Procs -> Seq(Threads)] /\ s.handles \in Tables
      /\ None \notin Procs /\ u # p /\ u \in Objects /\ p \in Objects
  BY SchedulerAssumption DEF States, Objects
<1>1. s.process[u] = None /\ s.queue[u] = <<>>
  BY FreedGone
<1>2. /\ d.list = Append(s.list, u) /\ d.queue = s.queue
      /\ d.process = ProcessMade(s.process, u, p)
      /\ d.threads = ThreadsMade(s.threads, p, u)
      /\ d.handles = s.handles /\ d.link = s.link
      /\ \A o \in Objects : d.refs[o] = s.refs[o] + (IF o \in {u, p} THEN 1 ELSE 0)
      /\ d \in States /\ Kept(d.list, d.queue, d.process, d.threads)
  BY <1>1, WithThreadFields
<1>. HIDE DEF d
<1>3. \A x \in Threads : d.process[x] = IF x = u THEN p ELSE s.process[x]
  BY <1>0, <1>2 DEF ProcessMade
<1>. DEFINE more == Append(s.threads[p], u)
<1>4. \A q \in Procs : d.threads[q] = IF q = p THEN more ELSE s.threads[q]
  BY <1>0, <1>2 DEF ThreadsMade
<1>5. /\ s.threads[p] \in Seq(Threads) /\ Len(s.threads[p]) \in Nat
      /\ more \in Seq(Threads) /\ Len(more) = Len(s.threads[p]) + 1
  BY <1>0, AppendFacts, LenProperties
<1>. HIDE DEF more
<1>6. d.threads[p] # <<>>
  <2>1. more # <<>>
    BY <1>5, EmptyFacts
  <2>. QED
    BY <1>4, <2>1
<1>7. Counted(d.refs, d.handles, d.process, d.threads)
  <2>1. ASSUME NEW x \in Threads
        PROVE  d.refs[x] = Holders(d.handles, x) + (IF d.process[x] # None THEN 1 ELSE 0)
    <3>1. x \in Objects /\ x # p
      BY SchedulerAssumption DEF Objects
    <3>2. /\ s.refs[x] = Holders(s.handles, x) + (IF s.process[x] # None THEN 1 ELSE 0)
          /\ Holders(s.handles, x) \in Nat
      BY <1>0, HoldersZero DEF Counted
    <3>. QED
      BY <1>0, <1>1, <1>2, <1>3, <3>1, <3>2
  <2>2. ASSUME NEW q \in Procs
        PROVE  d.refs[q] = Holders(d.handles, q) + Len(d.threads[q])
    <3>1. q \in Objects /\ q # u
      BY SchedulerAssumption DEF Objects
    <3>2. /\ s.refs[q] = Holders(s.handles, q) + Len(s.threads[q])
          /\ Holders(s.handles, q) \in Nat /\ Len(s.threads[q]) \in Nat
      BY <1>0, HoldersZero, LenProperties DEF Counted
    <3>3. d.refs[q] = s.refs[q] + (IF q = p THEN 1 ELSE 0)
      BY <1>2, <3>1
    <3>4. CASE q = p
      <4>1. d.threads[q] = more
        BY <1>4, <3>4
      <4>2. Len(d.threads[q]) = Len(s.threads[q]) + 1
        BY <1>5, <3>4, <4>1
      <4>. QED
        BY <1>2, <3>2, <3>3, <3>4, <4>2
    <3>5. CASE q # p
      <4>1. d.threads[q] = s.threads[q]
        BY <1>4, <3>5
      <4>2. Len(d.threads[q]) = Len(s.threads[q])
        BY <4>1
      <4>. QED
        BY <1>2, <3>2, <3>3, <3>5, <4>2
    <3>. QED
      BY <3>4, <3>5
  <2>. QED
    BY <2>1, <2>2 DEF Counted
<1>8. Empty(d.queue, d.process, d.threads, d.handles)
  BY <1>0, <1>2, <1>3, <1>4, <1>6 DEF Empty
<1>9. \A U : Onward(s, d, U)
  <2>1. u \notin ToSet(s.list)
    BY <1>1 DEF Kept
  <2>2. d.process[u] # None /\ \A x \in Threads \ {u} : d.process[x] = s.process[x]
    BY <1>0, <1>3
  <2>. QED
    BY <1>0, <1>2, <2>1, <2>2, AppendedOnward
<1>. QED
  BY <1>2, <1>4, <1>6, <1>7, <1>8, <1>9 DEF Good, d

\* The table of a new process q is a copy.
Copied(s, q, p) ==
    [s EXCEPT !.handles[q] = s.handles[p],
              !.refs = [o \in Objects |-> @[o] + (IF o \in s.handles[p] THEN 1 ELSE 0)]]

\* A fork copies the handle table, with a reference for each handle.
LEMMA CopiedFields ==
    ASSUME NEW s, Good(s), NEW p \in Procs, NEW q \in Procs, s.refs[q] = 0
    PROVE  Retabled(s, Copied(s, q, p), q, s.handles[p])
<1>. DEFINE H == s.handles[p]
            T == [s.handles EXCEPT ![q] = H]
            R == [o \in Objects |-> s.refs[o] + (IF o \in H THEN 1 ELSE 0)]
            d == [s EXCEPT !.handles = T, !.refs = R]
<1>0. /\ s \in States /\ s.handles \in [Procs -> SUBSET Objects] /\ s.refs \in [Objects -> Int]
      /\ Counted(s.refs, s.handles, s.process, s.threads)
      /\ Empty(s.queue, s.process, s.threads, s.handles)
  BY DEF Good, States, Tables, Counts
<1>1. s.handles[q] = {}
  BY <1>0, FreedGone DEF Empty
<1>2. Copied(s, q, p) = d
  BY DEF Copied
<1>3. T \in Tables /\ R \in Counts
  BY <1>0 DEF Tables, Counts
<1>4. \A o \in Objects : R[o] = s.refs[o] - Holds(s.handles, q, o) + (IF o \in H THEN 1 ELSE 0)
  BY <1>0, <1>1 DEF Holds
<1>. HIDE DEF T, R
<1>5. /\ d.list = s.list /\ d.queue = s.queue /\ d.process = s.process
      /\ d.threads = s.threads /\ d.link = s.link /\ d.handles = T /\ d.refs = R
      /\ d \in States
  BY <1>0, <1>3 DEF States
<1>. HIDE DEF d
<1>6. Retabled(s, d, q, H)
  BY <1>4, <1>5 DEF Retabled, T
<1>. QED
  BY <1>2, <1>6

-----------------------------------------------------------------------------
(* The inductive invariant.                                                *)

Points == Threads \cup {List}

Position ==
    /\ pc \in {"outer", "inner", "dispatch", "run", "idle", "halt", "wild"}
    /\ t \in Points /\ next_t \in Points
    /\ created \in 0 .. MaxCreate

\* The running thread is in the list, and what is followed next is another one
\* that will be found there when its turn comes.
Pointed ==
    /\ pc = "run" => t \in ToSet(threadList) /\ Leads(State, next_t, {t})
    /\ pc = "dispatch" => Leads(State, t, {})

Inv == Good(State) /\ Position /\ Pointed

\* The fields of the record are the variables,
LEMMA StateFields ==
    /\ State.list = threadList /\ State.queue = queue /\ State.process = process
    /\ State.threads = threads /\ State.handles = handles /\ State.refs = refs
    /\ State.link = link
BY DEF State

\* also in the next state.
LEMMA NextFields ==
    /\ State'.list = threadList' /\ State'.queue = queue' /\ State'.process = process'
    /\ State'.threads = threads' /\ State'.handles = handles' /\ State'.refs = refs'
    /\ State'.link = link'
BY DEF State

\* A call that computes the record assigns it to the variables.
LEMMA BecomeIs ==
    ASSUME NEW s \in States, Become(s)
    PROVE  State' = s
<1>1. s = [list |-> s.list, queue |-> s.queue, process |-> s.process, threads |-> s.threads,
           handles |-> s.handles, refs |-> s.refs, link |-> s.link]
  BY DEF States
<1>2. State' = [list |-> s.list, queue |-> s.queue, process |-> s.process,
                threads |-> s.threads, handles |-> s.handles, refs |-> s.refs,
                link |-> s.link]
  BY DEF Become, State
<1>. QED
  BY <1>1, <1>2, Zenon

\* The thread that runs belongs to a process, which has threads then.
LEMMA CurrentFacts ==
    ASSUME Inv, Running
    PROVE  /\ t \in Threads /\ t \in ToSet(threadList) /\ Current \in Procs /\ Current # None
           /\ threads[Current] # <<>> /\ t \in ToSet(threads[Current])
           /\ t \in Objects /\ Current \in Objects
           /\ Leads(State, next_t, {t})
<1>1. /\ t \in ToSet(threadList) /\ Leads(State, next_t, {t})
      /\ Kept(threadList, queue, process, threads)
      /\ threadList \in Seq(Threads) /\ process \in [Threads -> Procs \cup {None}]
      /\ threads \in [Procs -> Seq(Threads)]
  BY StateFields DEF Inv, Pointed, Running, Good, States
<1>2. t \in Threads
  BY <1>1, EmptyFacts
<1>3. process[t] # None
  BY <1>1, <1>2 DEF Kept
<1>4. Current \in Procs /\ Current # None
  BY <1>1, <1>2, <1>3 DEF Current
<1>5. t \in ToSet(threads[Current])
  BY <1>1, <1>2, <1>4 DEF Kept, Current
<1>6. threads[Current] # <<>>
  <2>1. threads[Current] \in Seq(Threads)
    BY <1>1, <1>4
  <2>. QED
    BY <1>5, <2>1, EmptyFacts
<1>. QED
  BY <1>1, <1>2, <1>4, <1>5, <1>6 DEF Objects

\* The pointer leads to fewer threads than it might.
LEMMA LeadsMore ==
    ASSUME NEW s, NEW b, NEW X, Leads(s, b, X)
    PROVE  Leads(s, b, {})
BY DEF Leads

\* What a call needs to keep the invariant when its thread goes on.
LEMMA ContinueInv ==
    ASSUME Inv, Running, Continue, created' \in 0 .. MaxCreate,
           Good(State'), NEW U, Onward(State, State', U), t \notin U
    PROVE  Inv'
<1>1. t \in ToSet(threadList) /\ Leads(State, next_t, {t})
  BY CurrentFacts
<1>2. {t} \in SUBSET (ToSet(State.list) \ U)
  BY <1>1, StateFields
<1>3. {t} \subseteq ToSet(State'.list) /\ Leads(State', next_t, {t})
  BY <1>1, <1>2 DEF Onward
<1>4. t' \in ToSet(threadList') /\ Leads(State', next_t', {t'}) /\ pc' # "dispatch"
  BY <1>3, NextFields DEF Continue, Running
<1>5. Pointed'
  BY <1>4 DEF Pointed
<1>6. Position'
  BY DEF Position, Continue, Inv
<1>. QED
  BY <1>5, <1>6 DEF Inv

\* What a call needs when it ends the time slice.
LEMMA EndSliceInv ==
    ASSUME Inv, EndSlice, created' \in 0 .. MaxCreate,
           Good(State'), Leads(State', next_t, {})
    PROVE  Inv'
<1>1. Pointed'
  BY DEF Pointed, EndSlice
<1>2. Position'
  BY DEF Position, EndSlice, Inv, Points
<1>. QED
  BY <1>1, <1>2 DEF Inv

-----------------------------------------------------------------------------
(* System calls.                                                           *)

\* A thread gives up the processor.
LEMMA YieldInv ==
    ASSUME Inv, Yield
    PROVE  Inv'
<1>1. State' = State
  BY DEF State, Yield
<1>2. Leads(State, next_t, {})
  BY CurrentFacts, LeadsMore DEF Yield
<1>3. Good(State') /\ Leads(State', next_t, {})
  BY <1>1, <1>2 DEF Inv
<1>. QED
  BY <1>3, EndSliceInv DEF Yield, Inv, Position

\* Calls that change the state by an operation and return to the thread.
LEMMA BecomeInv ==
    ASSUME Inv, Running, NEW s, Become(s), Continue, created' \in 0 .. MaxCreate,
           Good(s), NEW U, Onward(State, s, U), t \notin U
    PROVE  Inv'
<1>1. State' = s
  BY BecomeIs DEF Good
<1>2. Good(State') /\ Onward(State, State', U)
  BY <1>1
<1>. QED
  BY <1>2, ContinueInv

\* Calls that change the state by an operation and end the time slice.
LEMMA BecomeEndInv ==
    ASSUME Inv, Running, NEW s, Become(s), EndSlice, created' \in 0 .. MaxCreate,
           Good(s), NEW U, Onward(State, s, U)
    PROVE  Inv'
<1>1. State' = s
  BY BecomeIs DEF Good
<1>2. Leads(State, next_t, {})
  BY CurrentFacts, LeadsMore
<1>3. Leads(s, next_t, {})
  BY <1>2 DEF Onward
<1>4. Good(State') /\ Leads(State', next_t, {})
  BY <1>1, <1>3
<1>. QED
  BY <1>4, EndSliceInv

\* A handle to the running thread or process is made.
LEMMA GetCurrentInv ==
    ASSUME Inv, NEW o \in Objects, GetCurrent(o)
    PROVE  Inv'
<1>1. /\ Running /\ o \notin handles[Current] /\ Become(WithHandle(State, Current, o))
      /\ Continue /\ created' \in 0 .. MaxCreate
  BY DEF GetCurrent, Inv, Position
<1>2. Current \in Procs /\ State.threads[Current] # <<>> /\ o \notin State.handles[Current]
  BY <1>1, CurrentFacts, StateFields
<1>3. Good(WithHandle(State, Current, o)) /\ Onward(State, WithHandle(State, Current, o), {})
  BY <1>2, WithHandleGood DEF Inv
<1>. QED
  BY <1>1, <1>3, BecomeInv

\* The parts of a good state.
LEMMA GoodParts ==
    ASSUME Inv
    PROVE  /\ Good(State) /\ State \in States
           /\ Kept(State.list, State.queue, State.process, State.threads)
           /\ Counted(State.refs, State.handles, State.process, State.threads)
           /\ Empty(State.queue, State.process, State.threads, State.handles)
BY DEF Inv, Good

\* A thread is created.
LEMMA CreateThreadInv ==
    ASSUME Inv, NEW u \in Threads, CreateThread(u)
    PROVE  Inv'
<1>. DEFINE a == WithThread(State, Current, u)
            d == WithHandle(a, Current, u)
<1>1. /\ Running /\ State.refs[u] = 0 /\ Become(d) /\ Continue /\ created' \in 0 .. MaxCreate
  BY StateFields, SchedulerAssumption DEF CreateThread, Inv, Position
<1>2. Current \in Procs /\ u \in Objects
  BY <1>1, CurrentFacts DEF Objects
<1>3. /\ \A x \in Threads : State.process[x] = None => State.queue[x] = <<>>
      /\ \A q \in Procs : State.threads[q] = <<>> =>
            State.queue[q] = <<>> /\ State.handles[q] = {}
  BY GoodParts DEF Empty
<1>4. /\ Good(a) /\ Onward(State, a, {}) /\ a.threads[Current] # <<>>
      /\ a.handles = State.handles
  BY <1>1, <1>2, <1>3, GoodParts, WithThreadGood
<1>5. u \notin State.handles[Current]
  BY <1>1, <1>2, GoodParts, FreedGone
<1>. HIDE DEF a
<1>6. Good(d) /\ Onward(a, d, {})
  BY <1>2, <1>4, <1>5, WithHandleGood
<1>7. Onward(State, d, {})
  BY <1>4, <1>6, OnwardTwice
<1>. HIDE DEF d
<1>. QED
  BY <1>1, <1>6, <1>7, BecomeInv

\* A process forks.
LEMMA ForkInv ==
    ASSUME Inv, NEW q \in Procs, NEW u \in Threads, Fork(q, u)
    PROVE  Inv'
<1>. DEFINE p == Current
            c == Copied(State, q, p)
            a == WithThread(c, q, u)
            d == WithHandle(a, p, q)
<1>1. /\ Running /\ State.refs[q] = 0 /\ State.refs[u] = 0 /\ Become(d) /\ Continue
      /\ created' \in 0 .. MaxCreate
  BY StateFields, SchedulerAssumption DEF Fork, Copied, Inv, Position
<1>2. /\ p \in Procs /\ u \in Objects /\ q \in Objects /\ State.threads[p] # <<>>
      /\ State.handles \in [Procs -> SUBSET Objects]
  BY <1>1, CurrentFacts, StateFields, GoodParts DEF Objects, States, Tables
<1>. HIDE DEF p
<1>3. Retabled(State, c, q, State.handles[p])
  BY <1>1, <1>2, GoodParts, CopiedFields
<1>4. /\ \A o \in Objects : Rest(c, o) = Rest(State, o)
      /\ \A r \in Procs : c.handles[r] = IF r = q THEN State.handles[p] ELSE State.handles[r]
      /\ \A U : Onward(State, c, U)
  BY <1>2, <1>3, GoodParts, RetabledRest
<1>5. /\ c \in States /\ c.list = State.list /\ c.queue = State.queue
      /\ c.process = State.process /\ c.threads = State.threads
      /\ \A o \in Objects : c.refs[o] = State.refs[o] - Holds(State.handles, q, o)
                                         + (IF o \in State.handles[p] THEN 1 ELSE 0)
  BY <1>3 DEF Retabled
<1>6. /\ State.threads[q] = <<>> /\ (\A r \in Procs : q \notin State.handles[r])
      /\ \A r \in Procs : u \notin State.handles[r]
  BY <1>1, GoodParts, FreedGone
<1>. HIDE DEF c
<1>7. Kept(c.list, c.queue, c.process, c.threads)
  BY <1>5, GoodParts, Zenon
<1>8. Counted(c.refs, c.handles, c.process, c.threads)
  BY <1>2, <1>3, GoodParts, RetabledCounted
<1>9. c.refs[u] = 0
  <2>1. Holds(State.handles, q, u) = 0
    BY <1>6 DEF Holds
  <2>. QED
    BY <1>1, <1>2, <1>5, <1>6, <2>1
<1>10. /\ \A x \in Threads : c.process[x] = None => c.queue[x] = <<>>
       /\ \A r \in Procs \ {q} : c.threads[r] = <<>> => c.queue[r] = <<>> /\ c.handles[r] = {}
  BY <1>4, <1>5, GoodParts DEF Empty
<1>11. /\ Good(a) /\ Onward(c, a, {}) /\ a.handles = c.handles
       /\ \A r \in Procs : c.threads[r] # <<>> => a.threads[r] # <<>>
  BY <1>5, <1>7, <1>8, <1>9, <1>10, WithThreadGood
<1>12. q \notin a.handles[p] /\ a.threads[p] # <<>>
  BY <1>2, <1>4, <1>5, <1>6, <1>11
<1>. HIDE DEF a
<1>13. Good(d) /\ Onward(a, d, {})
  BY <1>2, <1>11, <1>12, WithHandleGood
<1>. HIDE DEF d
<1>14. Onward(State, a, {})
  BY <1>4, <1>11, OnwardTwice
<1>15. Onward(State, d, {})
  BY <1>13, <1>14, OnwardTwice
<1>. QED
  BY <1>1, <1>13, <1>15, BecomeInv

\* A program is started: the other threads of the process end.
LEMMA ExecuteInv ==
    ASSUME Inv, Execute
    PROVE  Inv'
<1>. DEFINE us == Without(State.threads[Current], t)
            d == AllDown(State, us)
<1>1. Running /\ Become(d) /\ Continue /\ created' \in 0 .. MaxCreate
  BY DEF Execute, OthersDown, Inv, Position
<1>2. State.threads[Current] \in Seq(Threads) /\ Distinct(State.threads[Current])
  BY <1>1, CurrentFacts, GoodParts DEF States, Kept
<1>3. us \in Seq(Threads) /\ t \notin ToSet(us)
  BY <1>2, WithoutFacts
<1>. HIDE DEF us
<1>4. Good(d) /\ Onward(State, d, ToSet(us))
  BY <1>3, GoodParts, AllDownGood
<1>. HIDE DEF d
<1>. QED
  BY <1>1, <1>3, <1>4, BecomeInv

\* A handle is closed.
LEMMA CloseInv ==
    ASSUME Inv, NEW o \in Objects, Close(o)
    PROVE  Inv'
<1>. DEFINE p == Current
            d == Release([State EXCEPT !.handles[p] = @ \ {o}], o)
<1>1. /\ Running /\ o \in State.handles[p] /\ Become(d) /\ Continue
      /\ created' \in 0 .. MaxCreate
  BY StateFields DEF Close, Inv, Position
<1>2. p \in Procs
  BY <1>1, CurrentFacts
<1>. HIDE DEF p
<1>3. Good(d) /\ \A U : Onward(State, d, U)
  BY <1>1, <1>2, GoodParts, CloseGood
<1>. HIDE DEF d
<1>4. Onward(State, d, {})
  BY <1>3
<1>. QED
  BY <1>1, <1>3, <1>4, BecomeInv

\* A thread or a process is shut down by another one.
LEMMA ObjectShutdownInv ==
    ASSUME Inv, NEW o \in Objects, ObjectShutdown(o)
    PROVE  Inv'
<1>. DEFINE d == Shutdown(State, o)
            U == IF o \in Threads THEN {o} ELSE ToSet(State.threads[o])
<1>1. /\ Running /\ Become(d) /\ created' \in 0 .. MaxCreate
      /\ IF o \in {t, Current} THEN EndSlice ELSE Continue
  BY DEF ObjectShutdown, Inv, Position
<1>2. Good(d) /\ Onward(State, d, U)
  <2>1. CASE o \in Threads
    BY <2>1, GoodParts, ThreadDownGood DEF Shutdown
  <2>2. CASE o \notin Threads
    <3>1. o \in Procs
      BY <2>2 DEF Objects
    <3>. QED
      BY <2>2, <3>1, GoodParts, ProcessDownGood DEF Shutdown
  <2>. QED
    BY <2>1, <2>2
<1>3. o \notin {t, Current} => t \notin U
  <2>. SUFFICES ASSUME o \notin {t, Current}, o \notin Threads PROVE t \notin ToSet(State.threads[o])
    OBVIOUS
  <2>1. o \in Procs /\ t \in Threads /\ State.process[t] # o
    BY <1>1, CurrentFacts, StateFields DEF Objects, Current
  <2>. QED
    BY <2>1, GoodParts DEF Kept
<1>. HIDE DEF d, U
<1>4. CASE o \in {t, Current}
  <2>1. EndSlice
    BY <1>1, <1>4
  <2>. QED
    BY <1>1, <1>2, <2>1, BecomeEndInv
<1>5. CASE o \notin {t, Current}
  <2>1. Continue
    BY <1>1, <1>5
  <2>. QED
    BY <1>1, <1>2, <1>3, <1>5, <2>1, BecomeInv
<1>. QED
  BY <1>4, <1>5

\* The running thread exits.
LEMMA ExitThreadInv ==
    ASSUME Inv, ExitThread
    PROVE  Inv'
<1>1. /\ Running /\ Become(ThreadDown(State, t)) /\ EndSlice /\ created' \in 0 .. MaxCreate
  BY DEF ExitThread, Inv, Position
<1>2. Good(ThreadDown(State, t)) /\ Onward(State, ThreadDown(State, t), {t})
  BY <1>1, CurrentFacts, GoodParts, ThreadDownGood
<1>. QED
  BY <1>1, <1>2, BecomeEndInv

\* The pointer moves on to a thread of another process, which is in the list
\* behind the one it was at.
LEMMA SkipOwnLeads ==
    ASSUME Inv, Running
    PROVE  SkipOwn \in Points /\ Leads(State, SkipOwn, {})
<1>. DEFINE others == {i \in 1 .. Len(threadList) :
                        /\ process[threadList[i]] # Current
                        /\ \E j \in 1 .. i : threadList[j] = next_t}
<1>1. PICK C \in SUBSET (Threads \ {t}) :
          next_t \in C \cup {List} /\ Chain(threadList, process, link, C)
  BY CurrentFacts, StateFields DEF Leads
<1>2. SkipOwn \in C \cup {List}
  <2>1. CASE next_t # List /\ process[next_t] # Current
    BY <1>1, <2>1 DEF SkipOwn
  <2>2. CASE ~(next_t # List /\ process[next_t] # Current) /\ others = {}
    BY <2>2 DEF SkipOwn
  <2>3. CASE ~(next_t # List /\ process[next_t] # Current) /\ others # {}
    <3>1. others \in SUBSET Nat
      OBVIOUS
    <3>2. Min(others) \in others
      BY <2>3, <3>1, MinNat
    <3>3. SkipOwn = threadList[Min(others)]
      BY <2>3 DEF SkipOwn
    <3>. DEFINE m == Min(others)
    <3>4. PICK j \in 1 .. m : threadList[j] = next_t
      BY <3>2
    <3>5. m \in 1 .. Len(threadList) /\ j \in 1 .. Len(threadList) /\ Len(threadList) \in Nat
      BY <3>2, <3>4, LenProperties, StateFields, GoodParts DEF States
    <3>. HIDE DEF m
    <3>6. threadList[j] \in Threads
      BY <3>5, ElementOfSeq, StateFields, GoodParts DEF States
    <3>7. next_t \in C
      BY <1>1, <3>4, <3>6, SchedulerAssumption DEF Objects
    <3>8. j = m \/ j < m
      BY <3>4, <3>5
    <3>9. threadList[m] \in C
      BY <1>1, <3>4, <3>5, <3>7, <3>8 DEF Chain
    <3>. QED
      BY <3>3, <3>9 DEF m
  <2>. QED
    BY <2>1, <2>2, <2>3
<1>3. C \in SUBSET (Threads \ {})
  OBVIOUS
<1>4. Leads(State, SkipOwn, {})
  BY <1>1, <1>2, <1>3, StateFields DEF Leads
<1>. QED
  BY <1>2, <1>4 DEF Points

\* The running process exits.
LEMMA ExitProcessInv ==
    ASSUME Inv, ExitProcess
    PROVE  Inv'
<1>. DEFINE d == ProcessDown(State, Current)
            U == ToSet(State.threads[Current])
<1>1. /\ Running /\ Become(d) /\ created' \in 0 .. MaxCreate
      /\ \/ pc' = "wild" /\ UNCHANGED <<t, next_t>>
         \/ pc' = "dispatch" /\ t' = SkipOwn /\ next_t' = List
  BY DEF ExitProcess, Inv, Position
<1>2. Good(d) /\ Onward(State, d, U)
  BY <1>1, CurrentFacts, GoodParts, ProcessDownGood
<1>. HIDE DEF d, U
<1>3. State' = d
  BY <1>1, <1>2, BecomeIs DEF Good
<1>4. SkipOwn \in Points /\ Leads(State, SkipOwn, {})
  BY <1>1, SkipOwnLeads
<1>5. Leads(d, SkipOwn, {})
  BY <1>2, <1>4 DEF Onward
<1>6. Position'
  BY <1>1, <1>4 DEF Position, Inv, Points
<1>7. Pointed'
  BY <1>1, <1>3, <1>5 DEF Pointed
<1>. QED
  BY <1>2, <1>3, <1>6, <1>7 DEF Inv

\* Steps that only move threads between the list and the wait queues.
LEMMA MovedGood ==
    ASSUME Inv, UNCHANGED <<process, threads, handles, refs, link>>,
           threadList' \in Seq(Threads), queue' \in Lists,
           Kept(threadList', queue', process, threads),
           \A u \in Threads : process[u] = None => queue'[u] = <<>>,
           \A p \in Procs : threads[p] = <<>> => queue'[p] = <<>>
    PROVE  Good(State')
<1>. DEFINE s == State
            d == State'
<1>1. /\ s \in States /\ Counted(s.refs, s.handles, s.process, s.threads)
      /\ Empty(s.queue, s.process, s.threads, s.handles)
  BY GoodParts
<1>2. /\ d.list = threadList' /\ d.queue = queue' /\ d.process = process /\ d.threads = threads
      /\ d.handles = handles /\ d.refs = refs /\ d.link = link
  BY NextFields
<1>3. /\ s.process = process /\ s.threads = threads /\ s.handles = handles /\ s.refs = refs
      /\ s.link = link
  BY StateFields
<1>4. /\ process \in [Threads -> Procs \cup {None}] /\ threads \in [Procs -> Seq(Threads)]
      /\ handles \in Tables /\ refs \in Counts /\ link \in [Threads -> Threads \cup {List, None}]
  BY <1>1, <1>3 DEF States
<1>5. d \in States
  BY <1>4 DEF States, State
<1>. HIDE DEF s, d
<1>6. Kept(d.list, d.queue, d.process, d.threads)
  BY <1>2, Zenon
<1>7. Counted(d.refs, d.handles, d.process, d.threads)
  BY <1>1, <1>2, <1>3, Zenon
<1>8. Empty(d.queue, d.process, d.threads, d.handles)
  BY <1>1, <1>2, <1>3 DEF Empty
<1>9. Good(d)
  BY <1>5, <1>6, <1>7, <1>8 DEF Good
<1>. QED
  BY <1>9 DEF d

\* The parts of the invariant, stated on the variables.
LEMMA VariableFacts ==
    ASSUME Inv
    PROVE  /\ threadList \in Seq(Threads) /\ queue \in Lists
           /\ process \in [Threads -> Procs \cup {None}] /\ threads \in [Procs -> Seq(Threads)]
           /\ Kept(threadList, queue, process, threads)
           /\ \A u \in Threads : process[u] = None => queue[u] = <<>>
           /\ \A p \in Procs : threads[p] = <<>> => queue[p] = <<>>
BY GoodParts, StateFields DEF States, Empty

\* The running thread waits for o, which is not terminated.
LEMMA BlockInv ==
    ASSUME Inv, Running, NEW o \in Waitable, Block(o),
           o \in Threads => process[o] # None, o \in Procs => threads[o] # <<>>
    PROVE  Inv'
<1>0. t \in Threads /\ t \in ToSet(threadList) /\ Leads(State, next_t, {t})
  BY CurrentFacts
<1>1. /\ threadList' = Without(threadList, t) /\ queue' = [queue EXCEPT ![o] = <<t>> \o @]
      /\ EndSlice /\ UNCHANGED <<process, threads, handles, refs, link, created>>
  BY DEF Block
<1>2. /\ threadList' \in Seq(Threads) /\ queue' \in Lists
      /\ Kept(threadList', queue', process, threads)
  BY <1>0, <1>1, VariableFacts, BlockedKept
<1>3. \A w \in Waitable : w # o => queue'[w] = queue[w]
  BY <1>1, VariableFacts DEF Lists
<1>4. /\ \A u \in Threads : process[u] = None => queue'[u] = <<>>
      /\ \A p \in Procs : threads[p] = <<>> => queue'[p] = <<>>
  BY <1>3, VariableFacts DEF Waitable, Objects
<1>5. Good(State')
  BY <1>1, <1>2, <1>4, MovedGood
<1>6. Leads(State', next_t, {})
  <2>1. PICK C \in SUBSET (Threads \ {t}) :
            next_t \in C \cup {List} /\ Chain(threadList, process, link, C)
    BY <1>0, StateFields DEF Leads
  <2>2. Chain(Without(threadList, t), process, link, C)
    BY <2>1, VariableFacts, BlockedChain DEF Kept
  <2>3. Chain(State'.list, State'.process, State'.link, C)
    BY <1>1, <2>2, NextFields
  <2>4. C \in SUBSET (Threads \ {})
    OBVIOUS
  <2>. QED
    BY <2>1, <2>3, <2>4 DEF Leads
<1>. QED
  BY <1>1, <1>5, <1>6, EndSliceInv DEF Inv, Position

\* A thread waits for the end of a thread or a process.
LEMMA ObjectWaitInv ==
    ASSUME Inv, NEW o \in Objects, ObjectWait(o)
    PROVE  Inv'
<1>1. /\ Running /\ Block(o) /\ o \in Waitable
      /\ o \in Threads => process[o] # None
      /\ o \in Procs => threads[o] # <<>>
  BY SchedulerAssumption DEF ObjectWait, Alive, Waitable, Objects
<1>. QED
  BY <1>1, BlockInv

\* A thread waits for a device.
LEMMA DeviceWaitInv ==
    ASSUME Inv, DeviceWait
    PROVE  Inv'
<1>1. Running /\ Block(Device) /\ Device \in Waitable /\ Device \notin Threads /\ Device \notin Procs
  BY SchedulerAssumption DEF DeviceWait, Waitable, Objects
<1>. QED
  BY <1>1, BlockInv

\* A waiting thread u is linked at the end of the list.
LEMMA WokenOne ==
    ASSUME Inv, UNCHANGED <<process, threads, handles, refs, link>>,
           NEW u \in Threads, NEW o \in Waitable, u \in ToSet(queue[o]),
           threadList' = Append(threadList, u), queue' \in Lists,
           \A w \in Waitable : Distinct(queue'[w]) /\ ToSet(queue'[w]) = ToSet(queue[w]) \ {u}
    PROVE  Good(State') /\ \A U : Onward(State, State', U)
<1>1. /\ threadList' \in Seq(Threads) /\ Kept(threadList', queue', process, threads)
  BY VariableFacts, SignalledKept
<1>2. \A w \in Waitable : queue[w] = <<>> => queue'[w] = <<>>
  <2>. SUFFICES ASSUME NEW w \in Waitable, queue[w] = <<>>
                PROVE  queue'[w] = <<>>
    OBVIOUS
  <2>1. queue'[w] \in Seq(Threads) /\ queue[w] \in Seq(Threads)
    BY VariableFacts DEF Lists
  <2>2. ToSet(queue[w]) = {}
    BY <2>1, EmptyFacts
  <2>3. ToSet(queue'[w]) = {}
    BY <2>2
  <2>. QED
    BY <2>1, <2>3, EmptyFacts
<1>3. /\ \A x \in Threads : process[x] = None => queue'[x] = <<>>
      /\ \A p \in Procs : threads[p] = <<>> => queue'[p] = <<>>
  BY <1>2, VariableFacts DEF Waitable, Objects
<1>4. Good(State')
  BY <1>1, <1>3, MovedGood
<1>5. u \notin ToSet(threadList) /\ process[u] # None
  BY VariableFacts DEF Kept
<1>6. /\ State.list \in Seq(Threads) /\ u \notin ToSet(State.list)
      /\ State'.list = Append(State.list, u) /\ State'.link = State.link
      /\ State'.process[u] # None
      /\ \A x \in Threads \ {u} : State'.process[x] = State.process[x]
  BY <1>5, VariableFacts, StateFields, NextFields
<1>7. \A U : Onward(State, State', U)
  BY <1>6, AppendedOnward
<1>. QED
  BY <1>4, <1>7

\* A thread is woken by a signal.
LEMMA ObjectSignalInv ==
    ASSUME Inv, NEW u \in Threads, ObjectSignal(u)
    PROVE  Inv'
<1>1. /\ Running /\ Continue /\ threadList' = Append(threadList, u)
      /\ queue' = [o \in DOMAIN queue |-> Without(queue[o], u)]
      /\ UNCHANGED <<process, threads, handles, refs, link, created>>
  BY DEF ObjectSignal
<1>2. PICK o \in Waitable : u \in ToSet(queue[o])
  BY DEF ObjectSignal, Waiting, Waitable
<1>3. \A w \in Waitable : queue[w] \in Seq(Threads) /\ Distinct(queue[w])
  BY VariableFacts DEF Lists, Kept
<1>4. DOMAIN queue = Waitable
  BY VariableFacts DEF Lists
<1>5. \A w \in Waitable : queue'[w] = Without(queue[w], u)
  BY <1>1, <1>4
<1>6. \A w \in Waitable : /\ queue'[w] \in Seq(Threads) /\ Distinct(queue'[w])
                          /\ ToSet(queue'[w]) = ToSet(queue[w]) \ {u}
  BY <1>3, <1>5, WithoutFacts
<1>7. queue' \in Lists
  BY <1>1, <1>4, <1>6, Zenon DEF Lists
<1>8. Good(State') /\ \A U : Onward(State, State', U)
  BY <1>1, <1>2, <1>6, <1>7, WokenOne
<1>9. Onward(State, State', {}) /\ t \notin {}
  BY <1>8
<1>10. created' \in 0 .. MaxCreate
  BY <1>1 DEF Inv, Position
<1>. QED
  BY <1>1, <1>8, <1>9, <1>10, ContinueInv

-----------------------------------------------------------------------------
(* Interrupts and the run loop.                                            *)

\* The timer interrupt wakes the first of the threads that wait for Device, or none.
LEMMA TimerIrqMoves ==
    ASSUME Inv, TimerIrq
    PROVE  Good(State') /\ Onward(State, State', {})
<1>0. UNCHANGED <<process, threads, handles, refs, link, created>> /\ Device \in Waitable
  BY DEF TimerIrq, Waitable
<1>1. CASE UNCHANGED <<threadList, queue>>
  <2>1. State' = State
    BY <1>0, <1>1 DEF State
  <2>2. Onward(State, State, {})
    BY OnwardSame
  <2>. QED
    BY <2>1, <2>2 DEF Inv
<1>2. CASE /\ queue[Device] # <<>>
           /\ threadList' = Append(threadList, Head(queue[Device]))
           /\ queue' = [queue EXCEPT ![Device] = Tail(@)]
  <2>. DEFINE q == queue[Device]
              u == Head(q)
              r == Tail(q)
  <2>0. queue' = [queue EXCEPT ![Device] = r]
    BY <1>2
  <2>1. q \in Seq(Threads) /\ Distinct(q) /\ q # <<>>
    BY <1>0, <1>2, VariableFacts DEF Lists, Kept
  <2>2. u \in ToSet(q) /\ r \in Seq(Threads) /\ ToSet(r) = ToSet(q) \ {u} /\ Distinct(r)
    BY <2>1, TailFacts
  <2>3. u \in Threads
    BY <2>1, <2>2, EmptyFacts
  <2>a. threadList' = Append(threadList, u)
    BY <1>2
  <2>. HIDE DEF u, r
  <2>4. queue' \in Lists /\ \A w \in Waitable : queue'[w] = IF w = Device THEN r ELSE queue[w]
    BY <2>0, <2>2, VariableFacts DEF Lists
  <2>5. ASSUME NEW w \in Waitable
        PROVE  Distinct(queue'[w]) /\ ToSet(queue'[w]) = ToSet(queue[w]) \ {u}
    <3>1. CASE w = Device
      BY <2>2, <2>4, <3>1
    <3>2. CASE w # Device
      <4>1. u \notin ToSet(queue[w]) /\ Distinct(queue[w])
        BY <1>0, <2>2, <2>3, <3>2, VariableFacts DEF Kept
      <4>. QED
        BY <2>4, <3>2, <4>1
    <3>. QED
      BY <3>1, <3>2
  <2>. QED
    BY <1>0, <2>2, <2>3, <2>4, <2>5, <2>a, WokenOne
<1>. QED
  BY <1>1, <1>2 DEF TimerIrq

\* A timer interrupt ends the time slice.
LEMMA TimerIrqInv ==
    ASSUME Inv, TimerIrq
    PROVE  Inv'
<1>1. Good(State') /\ Onward(State, State', {})
  BY TimerIrqMoves
<1>2. created' \in 0 .. MaxCreate
  BY DEF TimerIrq, Inv, Position
<1>3. CASE pc = "run"
  <2>1. EndSlice
    BY <1>3 DEF TimerIrq
  <2>2. Leads(State, next_t, {})
    BY <1>3, CurrentFacts, LeadsMore DEF Running
  <2>3. Leads(State', next_t, {})
    BY <1>1, <2>2 DEF Onward
  <2>. QED
    BY <1>1, <1>2, <2>1, <2>3, EndSliceInv
<1>4. CASE pc # "run"
  <2>1. pc' = "outer" /\ UNCHANGED <<t, next_t>>
    BY <1>4 DEF TimerIrq
  <2>2. Position' /\ Pointed'
    BY <1>2, <2>1 DEF Position, Pointed, Inv
  <2>. QED
    BY <1>1, <2>2 DEF Inv
<1>. QED
  BY <1>3, <1>4

\* The run loop goes on to the next thread.
LEMMA LoopInv ==
    ASSUME Inv, Outer \/ Inner \/ Dispatch
    PROVE  Inv'
<1>0. UNCHANGED <<threadList, queue, process, threads, handles, refs, link, created>>
  BY DEF Outer, Inner, Dispatch
<1>1. State' = State
  BY <1>0 DEF State
<1>2. Good(State')
  BY <1>1 DEF Inv
<1>a. /\ threadList \in Seq(Threads) /\ Distinct(threadList)
      /\ \A x \in ToSet(threadList) : process[x] # None
  <2>1. ToSet(threadList) \subseteq Threads
    BY VariableFacts, EmptyFacts
  <2>. QED
    BY <2>1, VariableFacts DEF Kept
<1>3. CASE Outer
  <2>1. pc' \in {"halt", "inner"} /\ UNCHANGED <<t, next_t>>
    BY <1>3 DEF Outer
  <2>. QED
    BY <1>0, <1>2, <2>1 DEF Inv, Position, Pointed
<1>4. CASE Inner
  <2>1. CASE threadList = <<>>
    <3>1. pc' = "idle" /\ UNCHANGED <<t, next_t>>
      BY <1>4, <2>1 DEF Inner
    <3>. QED
      BY <1>0, <1>2, <3>1 DEF Inv, Position, Pointed
  <2>2. CASE threadList # <<>>
    <3>1. pc' = "dispatch" /\ t' = Head(threadList) /\ UNCHANGED next_t
      BY <1>4, <2>2 DEF Inner
    <3>2. Head(threadList) \in ToSet(threadList)
      BY <1>a, <2>2, TailFacts
    <3>3. ToSet(threadList) \in SUBSET Threads /\ Chain(threadList, process, link, ToSet(threadList))
      BY <1>a, HeadChain
    <3>. DEFINE C == ToSet(threadList)
    <3>. HIDE DEF C
    <3>4. C \in SUBSET (Threads \ {}) /\ t' \in C \cup {List} /\ Chain(threadList, process, link, C)
      BY <3>1, <3>2, <3>3 DEF C
    <3>5. Leads(State, t', {})
      BY <3>4, StateFields DEF Leads
    <3>6. t' \in Points
      BY <3>4 DEF Points
    <3>. QED
      BY <1>0, <1>1, <1>2, <3>1, <3>5, <3>6 DEF Inv, Position, Pointed
  <2>. QED
    BY <2>1, <2>2
<1>5. CASE Dispatch
  <2>1. pc = "dispatch" /\ Leads(State, t, {})
    BY <1>5 DEF Dispatch, Inv, Pointed
  <2>2. PICK C \in SUBSET Threads :
            t \in C \cup {List} /\ Chain(threadList, process, link, C)
    BY <2>1, StateFields DEF Leads
  <2>3. CASE pc' \in {"inner", "wild"} /\ UNCHANGED <<t, next_t>>
    BY <1>0, <1>2, <2>3 DEF Inv, Position, Pointed
  <2>4. CASE t # List /\ Alive(t) /\ pc' = "run" /\ next_t' = Successor(threadList, t) /\ UNCHANGED t
    <3>1. t \in ToSet(threadList)
      BY <2>2, <2>4 DEF Chain, Alive
    <3>2. PICK D \in SUBSET (Threads \ {t}) :
              Successor(threadList, t) \in D \cup {List} /\ Chain(threadList, process, link, D)
      BY <1>a, <3>1, NextChain
    <3>3. Leads(State, next_t', {t}) /\ next_t' \in Points
      BY <2>4, <3>2, StateFields DEF Leads, Points
    <3>. QED
      BY <1>0, <1>1, <1>2, <2>4, <3>1, <3>3 DEF Inv, Position, Pointed
  <2>5. CASE t # List /\ ~Alive(t) /\ t' = link[t] /\ UNCHANGED <<pc, next_t>>
    <3>1. link[t] \in C \cup {List}
      BY <2>2, <2>5 DEF Chain, Alive
    <3>2. Leads(State, t', {}) /\ t' \in Points
      BY <2>2, <2>5, <3>1, StateFields DEF Leads, Points
    <3>. QED
      BY <1>0, <1>1, <1>2, <2>1, <2>5, <3>2 DEF Inv, Position, Pointed
  <2>. QED
    BY <1>5, <2>3, <2>4, <2>5 DEF Dispatch
<1>. QED
  BY <1>3, <1>4, <1>5

-----------------------------------------------------------------------------
(* The theorems.                                                           *)

\* The state in which the first process runs.
LEMMA InitInv ==
    ASSUME Init
    PROVE  Inv
<1>1. PICK u \in Threads, p \in Procs :
        /\ threadList = <<u>>
        /\ queue = [o \in Objects \cup {Device} |-> <<>>]
        /\ process = [x \in Threads |-> IF x = u THEN p ELSE None]
        /\ threads = [q \in Procs |-> IF q = p THEN <<u>> ELSE <<>>]
        /\ handles = [q \in Procs |-> {}]
        /\ refs = [o \in Objects |-> IF o \in {u, p} THEN 1 ELSE 0]
        /\ link = [x \in Threads |-> None]
        /\ pc = "outer" /\ t = List /\ next_t = List
        /\ created = 0
  BY DEF Init
<1>. DEFINE one == <<u>>
<1>0. /\ one \in Seq(Threads) /\ ToSet(one) = {u} /\ Distinct(one) /\ Len(one) = 1 /\ one # <<>>
      /\ <<>> \in Seq(Threads) /\ ToSet(<<>>) = {} /\ Distinct(<<>>) /\ Len(<<>>) = 0
  <2>1. one \in Seq(Threads) /\ ToSet(one) = {u} /\ Distinct(one) /\ Len(one) = 1
    BY SingletonFacts
  <2>. HIDE DEF one
  <2>. QED
    BY <2>1, EmptyFacts
<1>. DEFINE e == <<>>
<1>2. /\ threadList = one
      /\ \A o \in Waitable : queue[o] = e
      /\ \A x \in Threads : process[x] = IF x = u THEN p ELSE None
      /\ \A q \in Procs : threads[q] = IF q = p THEN one ELSE e
      /\ \A q \in Procs : handles[q] = {}
      /\ \A o \in Objects : refs[o] = IF o \in {u, p} THEN 1 ELSE 0
  BY <1>1 DEF Waitable
<1>3. u # p /\ None \notin Procs /\ u \notin Procs /\ p \notin Threads
      /\ \A x \in Threads : x \in Objects /\ x # p
  BY SchedulerAssumption DEF Objects
<1>4. /\ threadList \in Seq(Threads) /\ queue \in Lists
      /\ process \in [Threads -> Procs \cup {None}] /\ threads \in [Procs -> Seq(Threads)]
      /\ handles \in Tables /\ refs \in Counts /\ link \in [Threads -> Threads \cup {List, None}]
  <2>. HIDE DEF one, e
  <2>. USE <1>0, <1>1 DEF one, e
  <2>1. threadList \in Seq(Threads) /\ queue \in Lists
    BY DEF Lists, Waitable
  <2>2. process \in [Threads -> Procs \cup {None}] /\ threads \in [Procs -> Seq(Threads)]
    OBVIOUS
  <2>3. handles \in Tables /\ refs \in Counts
    BY DEF Tables, Counts
  <2>4. link \in [Threads -> Threads \cup {List, None}]
    OBVIOUS
  <2>. QED
    BY <2>1, <2>2, <2>3, <2>4
<1>5. /\ e \in Seq(Threads) /\ ToSet(e) = {} /\ Distinct(e) /\ Len(e) = 0 /\ one # e
  BY <1>0
<1>. HIDE DEF one, e
<1>6. Kept(threadList, queue, process, threads)
  <2>1. \A x \in Threads, q \in Procs : x \in ToSet(threads[q]) <=> process[x] = q
    BY <1>0, <1>2, <1>3, <1>5
  <2>2. \A x \in Threads :
          process[x] # None <=> x \in ToSet(threadList) \/ \E o \in Waitable : x \in ToSet(queue[o])
    BY <1>0, <1>2, <1>3, <1>5
  <2>3. /\ Distinct(threadList) /\ (\A o \in Waitable : Distinct(queue[o]))
        /\ \A q \in Procs : Distinct(threads[q])
    BY <1>0, <1>2, <1>5
  <2>4. \A o \in Waitable, x \in Threads : x \notin ToSet(queue[o])
    BY <1>2, <1>5
  <2>. QED
    BY <2>1, <2>2, <2>3, <2>4 DEF Kept
<1>7. \A o \in Objects : Holders(handles, o) = 0
  BY <1>2, <1>4, HoldersZero
<1>8. Counted(refs, handles, process, threads)
  <2>1. ASSUME NEW x \in Threads
        PROVE  refs[x] = Holders(handles, x) + (IF process[x] # None THEN 1 ELSE 0)
    BY <1>2, <1>3, <1>7
  <2>2. ASSUME NEW q \in Procs
        PROVE  refs[q] = Holders(handles, q) + Len(threads[q])
    <3>1. q \in Objects /\ q # u
      BY <1>3 DEF Objects
    <3>2. CASE q = p
      <4>1. Len(threads[q]) = 1
        BY <1>0, <1>2, <3>2
      <4>. QED
        BY <1>2, <1>7, <3>1, <3>2, <4>1
    <3>3. CASE q # p
      <4>1. Len(threads[q]) = 0
        BY <1>2, <1>5, <3>3
      <4>. QED
        BY <1>2, <1>7, <3>1, <3>3, <4>1
    <3>. QED
      BY <3>2, <3>3
  <2>. QED
    BY <2>1, <2>2 DEF Counted
<1>9. Empty(queue, process, threads, handles)
  <2>1. \A q \in Procs : queue[q] = e
    BY <1>2 DEF Waitable, Objects
  <2>2. \A x \in Threads : queue[x] = e
    BY <1>2 DEF Waitable, Objects
  <2>. QED
    BY <1>2, <2>1, <2>2 DEF Empty, e
<1>10. State \in States
  BY <1>4 DEF State, States
<1>11. Good(State)
  BY <1>6, <1>8, <1>9, <1>10, StateFields DEF Good
<1>12. Position /\ Pointed
  BY <1>1, SchedulerAssumption DEF Position, Pointed, Points
<1>. QED
  BY <1>11, <1>12 DEF Inv

\* Every step keeps the invariant.
LEMMA NextInv ==
    ASSUME Inv, [Next]_vars
    PROVE  Inv'
<1>1. CASE UNCHANGED vars
  <2>1. State' = State
    BY <1>1 DEF State, vars
  <2>. QED
    BY <1>1, <2>1 DEF Inv, Position, Pointed, vars
<1>2. CASE Yield
  BY <1>2, YieldInv
<1>3. ASSUME NEW o \in Objects, GetCurrent(o) \/ Close(o) \/ ObjectShutdown(o) \/ ObjectWait(o)
      PROVE  Inv'
  BY <1>3, GetCurrentInv, CloseInv, ObjectShutdownInv, ObjectWaitInv
<1>4. ASSUME NEW u \in Threads, CreateThread(u) \/ ObjectSignal(u)
      PROVE  Inv'
  BY <1>4, CreateThreadInv, ObjectSignalInv
<1>5. ASSUME NEW q \in Procs, NEW u \in Threads, Fork(q, u)
      PROVE  Inv'
  BY <1>5, ForkInv
<1>6. CASE Execute \/ DeviceWait \/ ExitThread \/ ExitProcess
  BY <1>6, ExecuteInv, DeviceWaitInv, ExitThreadInv, ExitProcessInv
<1>7. CASE TimerIrq
  BY <1>7, TimerIrqInv
<1>8. CASE Outer \/ Inner \/ Dispatch
  BY <1>8, LoopInv
<1>. QED
  BY <1>1, <1>2, <1>3, <1>4, <1>5, <1>6, <1>7, <1>8 DEF Next

\* The invariant holds of every behaviour.
LEMMA SpecInv == Spec => []Inv
BY InitInv, NextInv, PTL DEF Spec

\* It has the types,
LEMMA InvTypeOK ==
    ASSUME Inv
    PROVE  TypeOK
<1>1. /\ threadList \in Seq(Threads) /\ queue \in [Objects \cup {Device} -> Seq(Threads)]
      /\ process \in [Threads -> Procs \cup {None}] /\ threads \in [Procs -> Seq(Threads)]
      /\ handles \in [Procs -> SUBSET Objects] /\ refs \in [Objects -> Int]
      /\ link \in [Threads -> Threads \cup {List, None}]
  BY GoodParts, StateFields DEF States, Lists, Waitable, Tables, Counts
<1>2. \A o \in Objects : refs[o] \in Nat
  BY GoodParts, FreedGone, StateFields
<1>3. refs \in [Objects -> Nat]
  BY <1>1, <1>2
<1>. QED
  BY <1>1, <1>3 DEF TypeOK, Inv, Position, Points

\* and every thread in exactly one place.
LEMMA InvListsExact ==
    ASSUME Inv
    PROVE  ListsExact
<1>0. /\ threadList \in Seq(Threads) /\ queue \in Lists
      /\ threads \in [Procs -> Seq(Threads)]
      /\ Kept(threadList, queue, process, threads)
  BY VariableFacts
<1>1. ASSUME NEW u \in Threads
      PROVE  Cardinality(Linked(u)) = IF Alive(u) THEN 1 ELSE 0
  <2>. DEFINE A == {i \in 1 .. Len(threadList) : threadList[i] = u}
              B(o) == {i \in 1 .. Len(queue[o]) : queue[o][i] = u}
  <2>1. Linked(u) = ({List} \X A) \cup UNION {{o} \X B(o) : o \in Waitable}
    BY <1>0 DEF Linked, Lists
  <2>2. /\ u \notin ToSet(threadList) => A = {}
        /\ u \in ToSet(threadList) => \E k : A = {k}
    <3>1. Distinct(threadList)
      BY <1>0 DEF Kept
    <3>. QED
      BY <1>0, <3>1, DistinctPlaces
  <2>3. ASSUME NEW o \in Waitable
        PROVE  /\ u \notin ToSet(queue[o]) => B(o) = {}
               /\ u \in ToSet(queue[o]) => \E k : B(o) = {k}
    <3>1. queue[o] \in Seq(Threads) /\ Distinct(queue[o])
      BY <1>0 DEF Lists, Kept
    <3>. QED
      BY <3>1, DistinctPlaces
  <2>. HIDE DEF A, B
  <2>4. CASE ~Alive(u)
    <3>1. u \notin ToSet(threadList) /\ \A o \in Waitable : u \notin ToSet(queue[o])
      BY <1>0, <2>4 DEF Kept, Alive
    <3>2. A = {} /\ \A o \in Waitable : B(o) = {}
      BY <2>2, <2>3, <3>1
    <3>3. Linked(u) = {}
      BY <2>1, <3>2
    <3>. QED
      BY <2>4, <3>3, FS_EmptySet
  <2>5. CASE Alive(u) /\ u \in ToSet(threadList)
    <3>1. \A o \in Waitable : u \notin ToSet(queue[o])
      BY <1>0, <2>5 DEF Kept
    <3>2. PICK k : A = {k}
      BY <2>2, <2>5
    <3>3. \A o \in Waitable : B(o) = {}
      BY <2>3, <3>1
    <3>4. Linked(u) = {<<List, k>>}
      BY <2>1, <3>2, <3>3
    <3>. QED
      BY <2>5, <3>4, FS_Singleton
  <2>6. CASE Alive(u) /\ u \notin ToSet(threadList)
    <3>1. PICK w \in Waitable : u \in ToSet(queue[w])
      BY <1>0, <2>6 DEF Kept, Alive
    <3>2. \A o \in Waitable : o # w => u \notin ToSet(queue[o])
      BY <1>0, <3>1 DEF Kept
    <3>3. PICK k : B(w) = {k}
      BY <2>3, <3>1
    <3>4. A = {} /\ \A o \in Waitable : o # w => B(o) = {}
      BY <2>2, <2>3, <2>6, <3>2
    <3>5. Linked(u) = {<<w, k>>}
      BY <2>1, <3>3, <3>4
    <3>. QED
      BY <2>6, <3>5, FS_Singleton
  <2>. QED
    BY <2>4, <2>5, <2>6
<1>2. ASSUME NEW u \in Threads, NEW p \in Procs
      PROVE  Cardinality({i \in 1 .. Len(threads[p]) : threads[p][i] = u})
                = IF process[u] = p THEN 1 ELSE 0
  <2>. DEFINE A == {i \in 1 .. Len(threads[p]) : threads[p][i] = u}
  <2>1. threads[p] \in Seq(Threads) /\ Distinct(threads[p])
        /\ (u \in ToSet(threads[p]) <=> process[u] = p)
    BY <1>0 DEF Kept
  <2>2. /\ process[u] # p => A = {}
        /\ process[u] = p => \E k : A = {k}
    BY <2>1, DistinctPlaces
  <2>. HIDE DEF A
  <2>3. Cardinality(A) = IF process[u] = p THEN 1 ELSE 0
    BY <2>2, FS_EmptySet, FS_Singleton
  <2>. QED
    BY <2>3 DEF A
<1>. QED
  BY <1>1, <1>2 DEF ListsExact

\* Scheduler.ListsSound, for every number of threads and processes: whatever is
\* created, woken, replaced or terminated, a thread of a process is linked
\* exactly once, and a terminated thread nowhere (ll_remove relies on it).
THEOREM SchedulerListsSound == Spec => []ListsSound
<1>1. Inv => ListsSound
  BY InvTypeOK, InvListsExact DEF ListsSound
<1>. QED
  BY <1>1, SpecInv, PTL

\* Scheduler.RefsExact: the reference count of a thread or process is the number
\* of handles and threads that refer to it, so it is freed when the
\* last of them is gone and not before (__objectRelease).
THEOREM SchedulerRefsExact == Spec => []RefsExact
<1>1. ASSUME Inv PROVE RefsExact
  <2>0. Counted(refs, handles, process, threads)
    BY <1>1, GoodParts, StateFields
  <2>1. ASSUME NEW o \in Objects PROVE refs[o] = References(o)
    <3>1. CASE o \in Threads
      BY <2>0, <3>1 DEF Counted, References, Holders, Alive
    <3>2. CASE o \notin Threads
      <4>1. o \in Procs
        BY <3>2 DEF Objects
      <4>. QED
        BY <2>0, <3>2, <4>1 DEF Counted, References, Holders
    <3>. QED
      BY <3>1, <3>2
  <2>. QED
    BY <2>1 DEF RefsExact
<1>. QED
  BY <1>1, SpecInv, PTL

\* Scheduler.AssertionsHold: the assertions of __threadDestroy, __processDestroy
\* and __threadRun hold, the last one although the run loop follows a pointer
\* that it read before the thread it is about to leave has run.
THEOREM SchedulerAssertionsHold == Spec => []AssertionsHold
<1>1. ASSUME Inv PROVE AssertionsHold
  <2>1. TerminatedSettled
    BY <1>1, GoodParts, StateFields DEF TerminatedSettled, Alive, Empty
  <2>2. RunsRunnable
    BY <1>1, CurrentFacts DEF RunsRunnable, Alive, Running, Current
  <2>. QED
    BY <2>1, <2>2 DEF AssertionsHold
<1>. QED
  BY <1>1, SpecInv, PTL
=============================================================================
