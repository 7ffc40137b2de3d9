--------------------------- MODULE InterruptProofs ---------------------------
(***************************************************************************)
(* Proofs about what interrupts and traps act on: the timers (Timer), the  *)
(* interrupt controller (Pic), the FPU that is switched by a trap (Fpu)    *)
(* and the exit codes that system calls set and report (ExitCodes), for    *)
(* every choice of threads, timers, lines, contents and processes.         *)
(*                                                                         *)
(* The timers' sound states are inductive once the queues are described    *)
(* cell by cell: QueuesLinked says that a linked thread is blocked, that a *)
(* blocked thread is linked, and that no thread is linked twice, which is  *)
(* what each of the three ways to change a queue (wake a prefix, put one   *)
(* in front, unlink one) keeps.  LinkedExact turns it into the count of    *)
(* QueuesExact.  The sorted list rests on what InsertAt and RemoveAt do to *)
(* a sorted sequence.                                                      *)
(*                                                                         *)
(* For the controller, the sound states need FreedMasked: a line that had  *)
(* a callback and lost it is masked.                                       *)
(*                                                                         *)
(* DamageConfined speaks of what a thread finds when it computes; that it  *)
(* finds what it left follows only if, at every moment in between, its     *)
(* state is where the next trap will look for it.  That is StateKept, and  *)
(* the other two parts of FpuInv say that the registers belong to the      *)
(* thread that runs without a trap, and that memory counts once it was     *)
(* saved to.                                                               *)
(*                                                                         *)
(* The properties of exit codes are inductive together.  Their proof rests *)
(* on one fact about the two shutdown functions: the objects they end are  *)
(* Complete, threads that are left and a process with its last thread.     *)
(***************************************************************************)
EXTENDS Timer, Pic, Fpu, ExitCodes, SequenceTheorems, FiniteSetTheorems, CommonTheorems, TLAPS

-----------------------------------------------------------------------------
(* Sequences that a timer or a thread is linked into.                      *)

\* A sequence with an element inserted at k, cell by cell.
LEMMA InsertAtCells ==
    ASSUME NEW S, NEW s \in Seq(S), NEW k \in 1 .. Len(s) + 1, NEW e \in S
    PROVE  /\ InsertAt(s, k, e) \in Seq(S)
           /\ Len(InsertAt(s, k, e)) = Len(s) + 1
           /\ \A i \in 1 .. Len(s) + 1 :
                 InsertAt(s, k, e)[i] = IF i < k THEN s[i] ELSE IF i = k THEN e ELSE s[i - 1]
<1>. DEFINE a == SubSeq(s, 1, k - 1)
            b == SubSeq(s, k, Len(s))
<1>0. Len(s) \in Nat
  BY LenProperties
<1>1. a \in Seq(S) /\ Len(a) = k - 1 /\ \A i \in 1 .. k - 1 : a[i] = s[i]
  BY <1>0, SubSeqProperties
<1>2. b \in Seq(S) /\ Len(b) = Len(s) + 1 - k /\ \A i \in 1 .. Len(s) + 1 - k : b[i] = s[k + i - 1]
  BY <1>0, SubSeqProperties
<1>3. <<e>> \in Seq(S) /\ Len(<<e>>) = 1 /\ <<e>>[1] = e
  OBVIOUS
<1>. HIDE DEF a, b
<1>4. a \o <<e>> \in Seq(S) /\ Len(a \o <<e>>) = k
      /\ \A i \in 1 .. k : (a \o <<e>>)[i] = IF i < k THEN s[i] ELSE e
  BY <1>0, <1>1, <1>3, ConcatProperties
<1>. DEFINE c == a \o <<e>>
<1>. HIDE DEF c
<1>5. /\ c \o b \in Seq(S) /\ Len(c \o b) = Len(s) + 1
      /\ \A i \in 1 .. Len(s) + 1 : (c \o b)[i] = IF i <= k THEN c[i] ELSE b[i - k]
  <2>1. c \in Seq(S) /\ Len(c) = k
    BY <1>4 DEF c
  <2>2. /\ c \o b \in Seq(S) /\ Len(c \o b) = Len(c) + Len(b)
        /\ \A i \in 1 .. Len(c) + Len(b) : (c \o b)[i] = IF i <= Len(c) THEN c[i] ELSE b[i - Len(c)]
    BY <1>2, <2>1, ConcatProperties, Zenon
  <2>3. Len(c) + Len(b) = Len(s) + 1
    BY <1>0, <1>2, <2>1
  <2>. QED
    BY <2>1, <2>2, <2>3, Zenon
<1>6. InsertAt(s, k, e) = c \o b
  BY DEF InsertAt, a, b, c
<1>7. ASSUME NEW i \in 1 .. Len(s) + 1
      PROVE  (c \o b)[i] = IF i < k THEN s[i] ELSE IF i = k THEN e ELSE s[i - 1]
  <2>0. i <= k \/ i > k
    BY <1>0
  <2>1. CASE i <= k
    BY <1>4, <1>5, <2>1 DEF c
  <2>2. CASE i > k
    <3>1. i - k \in 1 .. Len(s) + 1 - k /\ k + (i - k) - 1 = i - 1
      BY <1>0, <2>2
    <3>. QED
      BY <1>2, <1>5, <2>2, <3>1
  <2>. QED
    BY <2>0, <2>1, <2>2, Zenon
<1>. QED
  BY <1>5, <1>6, <1>7

\* No element twice, and in the order of key.
Ordered(s, key) ==
    \A i, j \in 1 .. Len(s) : i < j => s[i] # s[j] /\ key[s[i]] <= key[s[j]]

\* Linking a timer before the first one that expires later keeps the order.
LEMMA LinkedOrdered ==
    ASSUME TypeOK, NEW list \in Seq(Timers), Ordered(list, timeout),
           NEW x \in Timers, x \notin ToSet(list), NEW when \in Nat
    PROVE  /\ Linked(list, x, when) \in Seq(Timers)
           /\ ToSet(Linked(list, x, when)) = ToSet(list) \cup {x}
           /\ Ordered(Linked(list, x, when), [timeout EXCEPT ![x] = when])
<1>. DEFINE later == {i \in 1 .. Len(list) : timeout[list[i]] > when}
            k == InsertBefore(list, when)
            new == Linked(list, x, when)
            key == [timeout EXCEPT ![x] = when]
<1>0. /\ Len(list) \in Nat /\ timeout \in [Timers -> Nat]
      /\ \A i \in 1 .. Len(list) : list[i] \in Timers
      /\ ToSet(list) = {list[i] : i \in 1 .. Len(list)}
  BY LenProperties, ElementOfSeq DEF TypeOK, ToSet
<1>1. /\ k \in 1 .. Len(list) + 1
      /\ \A i \in 1 .. Len(list) : i < k => timeout[list[i]] <= when
      /\ \A i \in 1 .. Len(list) : i >= k => timeout[list[i]] >= when
  <2>1. CASE later = {}
    <3>1. k = Len(list) + 1
      BY <2>1 DEF InsertBefore
    <3>2. \A i \in 1 .. Len(list) : timeout[list[i]] <= when
      BY <1>0, <2>1
    <3>. QED
      BY <1>0, <3>1, <3>2
  <2>2. CASE later # {}
    <3>1. later \in SUBSET Nat
      OBVIOUS
    <3>2. k = Min(later)
      BY <2>2 DEF InsertBefore
    <3>3. k \in later /\ \A i \in later : k <= i
      BY <2>2, <3>1, <3>2, MinNat
    <3>4. \A i \in 1 .. Len(list) : i < k => timeout[list[i]] <= when
      BY <1>0, <3>3
    <3>5. ASSUME NEW i \in 1 .. Len(list), i >= k PROVE timeout[list[i]] >= when
      <4>1. CASE i = k
        BY <1>0, <3>3, <4>1
      <4>2. CASE i > k
        <5>1. timeout[list[k]] <= timeout[list[i]]
          BY <3>3, <4>2 DEF Ordered
        <5>. QED
          BY <1>0, <3>3, <5>1
      <4>. QED
        BY <3>3, <3>5, <4>1, <4>2
    <3>. QED
      BY <1>0, <3>3, <3>4, <3>5
  <2>. QED
    BY <2>1, <2>2
<1>. HIDE DEF later, k
<1>2. /\ new \in Seq(Timers) /\ Len(new) = Len(list) + 1
      /\ \A i \in 1 .. Len(list) + 1 :
            new[i] = IF i < k THEN list[i] ELSE IF i = k THEN x ELSE list[i - 1]
  <2>1. new = InsertAt(list, k, x)
    BY DEF Linked, k
  <2>2. k \in 1 .. Len(list) + 1
    BY <1>1
  <2>3. /\ InsertAt(list, k, x) \in Seq(Timers) /\ Len(InsertAt(list, k, x)) = Len(list) + 1
        /\ \A i \in 1 .. Len(list) + 1 :
              InsertAt(list, k, x)[i] = IF i < k THEN list[i] ELSE IF i = k THEN x ELSE list[i - 1]
    BY <2>2, InsertAtCells
  <2>. QED
    BY <2>1, <2>3, Zenon
<1>. HIDE DEF new
<1>3. ToSet(new) = ToSet(list) \cup {x}
  <2>1. ToSet(new) = {new[i] : i \in 1 .. Len(list) + 1}
    BY <1>2, LenProperties DEF ToSet
  <2>2. \A i \in 1 .. Len(list) + 1 : new[i] \in ToSet(list) \cup {x}
    BY <1>0, <1>1, <1>2
  <2>3. new[k] = x
    BY <1>1, <1>2
  <2>4. ASSUME NEW i \in 1 .. Len(list) PROVE list[i] \in ToSet(new)
    <3>1. CASE i < k
      <4>1. i \in 1 .. Len(list) + 1 /\ new[i] = list[i]
        BY <1>0, <1>2, <3>1
      <4>. QED
        BY <2>1, <4>1
    <3>2. CASE i >= k
      <4>1. i + 1 \in 1 .. Len(list) + 1 /\ i + 1 > k /\ (i + 1) - 1 = i /\ k \in Int
        BY <1>0, <1>1, <3>2
      <4>2. new[i + 1] = list[i]
        BY <1>2, <4>1
      <4>. QED
        BY <2>1, <4>1, <4>2
    <3>. QED
      BY <1>1, <3>1, <3>2
  <2>. QED
    BY <1>0, <1>1, <2>1, <2>2, <2>3, <2>4
<1>4. /\ key[x] = when
      /\ \A i \in 1 .. Len(list) : list[i] # x /\ key[list[i]] = timeout[list[i]]
  BY <1>0
<1>. HIDE DEF key
<1>5. ASSUME NEW i \in 1 .. Len(list) + 1, NEW j \in 1 .. Len(list) + 1, i < j
      PROVE  new[i] # new[j] /\ key[new[i]] <= key[new[j]]
  <2>1. CASE j < k
    <3>1. i \in 1 .. Len(list) /\ j \in 1 .. Len(list) /\ new[i] = list[i] /\ new[j] = list[j]
      BY <1>0, <1>1, <1>2, <1>5, <2>1, SMTT(20)
    <3>. QED
      BY <1>4, <1>5, <3>1 DEF Ordered
  <2>2. CASE j = k
    <3>1. i \in 1 .. Len(list) /\ i < k /\ new[i] = list[i] /\ new[j] = x
      BY <1>0, <1>1, <1>2, <1>5, <2>2
    <3>. QED
      BY <1>1, <1>4, <3>1
  <2>3. CASE i = k
    <3>1. j - 1 \in 1 .. Len(list) /\ j - 1 >= k /\ new[j] = list[j - 1] /\ new[i] = x
      BY <1>0, <1>1, <1>2, <1>5, <2>3
    <3>. QED
      BY <1>0, <1>1, <1>4, <3>1
  <2>4. CASE i < k /\ j > k
    <3>1. i \in 1 .. Len(list) /\ j - 1 \in 1 .. Len(list) /\ i < j - 1
          /\ new[i] = list[i] /\ new[j] = list[j - 1]
      BY <1>0, <1>1, <1>2, <1>5, <2>4
    <3>. QED
      BY <1>4, <3>1 DEF Ordered
  <2>5. CASE i > k
    <3>1. i - 1 \in 1 .. Len(list) /\ j - 1 \in 1 .. Len(list) /\ i - 1 < j - 1
          /\ new[i] = list[i - 1] /\ new[j] = list[j - 1]
      BY <1>0, <1>1, <1>2, <1>5, <2>5
    <3>. QED
      BY <1>4, <3>1 DEF Ordered
  <2>6. j < k \/ j = k \/ i = k \/ (i < k /\ j > k) \/ i > k
    BY <1>0, <1>1, <1>5
  <2>. QED
    BY <2>1, <2>2, <2>3, <2>4, <2>5, <2>6, Zenon
<1>. QED
  BY <1>2, <1>3, <1>5 DEF Ordered, new, key

\* Unlinking keeps the order, whatever happens to the timeout of the timer.
LEMMA WithoutOrdered ==
    ASSUME TypeOK, ListSorted, NEW x \in Timers
    PROVE  /\ Without(timerList, x) \in Seq(Timers)
           /\ ToSet(Without(timerList, x)) = {y \in Timers : active[y]} \ {x}
           /\ Ordered(Without(timerList, x), timeout)
           /\ \A when : Ordered(Without(timerList, x), [timeout EXCEPT ![x] = when])
<1>. DEFINE w == Without(timerList, x)
<1>1. /\ w \in Seq(Timers) /\ ToSet(w) = ToSet(timerList) \ {x}
      /\ \A i, j \in 1 .. Len(w) : i < j =>
            \E a, b \in 1 .. Len(timerList) : a < b /\ w[i] = timerList[a] /\ w[j] = timerList[b]
  BY WithoutCells DEF TypeOK, ListSorted
<1>. HIDE DEF w
<1>2. \A i \in 1 .. Len(w) : w[i] \in Timers /\ w[i] # x
  <2>1. DOMAIN w = 1 .. Len(w) /\ \A i \in 1 .. Len(w) : w[i] \in Timers
    BY <1>1, LenProperties, ElementOfSeq
  <2>2. \A i \in 1 .. Len(w) : w[i] \in ToSet(w)
    BY <2>1, Zenon DEF ToSet
  <2>. QED
    BY <1>1, <2>1, <2>2, Zenon
<1>3. Ordered(w, timeout)
  <2>. SUFFICES ASSUME NEW i \in 1 .. Len(w), NEW j \in 1 .. Len(w), i < j
                PROVE  w[i] # w[j] /\ timeout[w[i]] <= timeout[w[j]]
    BY Zenon DEF Ordered
  <2>1. PICK a \in 1 .. Len(timerList), b \in 1 .. Len(timerList) :
           a < b /\ w[i] = timerList[a] /\ w[j] = timerList[b]
    BY <1>1, Zenon
  <2>2. timerList[a] # timerList[b] /\ timeout[timerList[a]] <= timeout[timerList[b]]
    BY <2>1, Zenon DEF ListSorted
  <2>. QED
    BY <2>1, <2>2, Zenon
<1>4. ASSUME NEW when PROVE Ordered(w, [timeout EXCEPT ![x] = when])
  BY <1>2, <1>3 DEF Ordered, TypeOK
<1>. QED
  BY <1>1, <1>3, <1>4 DEF ListSorted, w

\* __timerUpdate moves a timer to its place, active or not.
LEMMA RescheduledOrdered ==
    ASSUME TypeOK, ListSorted, NEW x \in Timers, NEW when \in Nat
    PROVE  /\ Rescheduled(x, when) \in Seq(Timers)
           /\ ToSet(Rescheduled(x, when)) = {y \in Timers : active[y]} \cup {x}
           /\ Ordered(Rescheduled(x, when), [timeout EXCEPT ![x] = when])
<1>1. /\ Without(timerList, x) \in Seq(Timers)
      /\ ToSet(Without(timerList, x)) = {y \in Timers : active[y]} \ {x}
      /\ Ordered(Without(timerList, x), timeout)
  BY WithoutOrdered
<1>. QED
  BY <1>1, LinkedOrdered DEF Rescheduled

-----------------------------------------------------------------------------
(* Wait queues.                                                            *)

\* Who is in a queue is blocked, who is blocked is in a queue, and nobody is
\* in two places: QueuesExact without counting.
QueuesLinked ==
    /\ \A x \in Timers : \A i \in 1 .. Len(waiters[x]) : blocked[waiters[x][i]]
    /\ \A t \in Threads : blocked[t] =>
          \E x \in Timers : \E i \in 1 .. Len(waiters[x]) : waiters[x][i] = t
    /\ \A x, y \in Timers : \A i \in 1 .. Len(waiters[x]), j \in 1 .. Len(waiters[y]) :
          waiters[x][i] = waiters[y][j] => x = y /\ i = j

\* Nobody is in two places.
LEMMA UniquePlace ==
    ASSUME QueuesLinked, NEW x \in Timers, NEW y \in Timers,
           NEW i \in 1 .. Len(waiters[x]), NEW j \in 1 .. Len(waiters[y]),
           waiters[x][i] = waiters[y][j]
    PROVE  x = y /\ i = j
BY DEF QueuesLinked

\* The two ways to say it agree.
LEMMA LinkedExact ==
    ASSUME TypeOK, QueuesLinked
    PROVE  QueuesExact
<1>. SUFFICES ASSUME NEW t \in Threads
              PROVE  Cardinality(UNION {{x} \X {i \in 1 .. Len(waiters[x]) : waiters[x][i] = t}
                                        : x \in Timers}) = IF blocked[t] THEN 1 ELSE 0
  BY DEF QueuesExact
<1>. DEFINE At(x) == {i \in 1 .. Len(waiters[x]) : waiters[x][i] = t}
            All == UNION {{x} \X At(x) : x \in Timers}
<1>1. CASE ~ blocked[t]
  <2>1. \A x \in Timers : At(x) = {}
    BY <1>1 DEF QueuesLinked
  <2>2. All = {}
    BY <2>1
  <2>. QED
    BY <1>1, <2>2, FS_EmptySet
<1>2. CASE blocked[t]
  <2>0. PICK x \in Timers : \E i \in 1 .. Len(waiters[x]) : waiters[x][i] = t
    BY <1>2 DEF QueuesLinked
  <2>1. PICK i \in 1 .. Len(waiters[x]) : waiters[x][i] = t
    BY <2>0
  <2>2. \A y \in Timers : At(y) = IF y = x THEN {i} ELSE {}
    BY <2>1 DEF QueuesLinked
  <2>3. All = {<<x, i>>}
    BY <2>2
  <2>. QED
    BY <1>2, <2>3, FS_Singleton
<1>. QED
  BY <1>1, <1>2

\* queueWakeup: the threads at the head of the queue of x become runnable.
LEMMA WakeLinked ==
    ASSUME TypeOK, QueuesLinked, NEW x \in Timers, NEW all \in BOOLEAN, Wake(x, all)
    PROVE  /\ waiters' \in [Timers -> Seq(Threads)] /\ blocked' \in [Threads -> BOOLEAN]
           /\ QueuesLinked'
           /\ \A y \in Timers : waiters'[y] # <<>> => waiters[y] # <<>>
           /\ all => waiters'[x] = <<>>
<1>. DEFINE q == waiters[x]
            n == WakeCount(q, all)
            r == SubSeq(q, n + 1, Len(q))
<1>0. q \in Seq(Threads) /\ Len(q) \in Nat /\ \A i \in 1 .. Len(q) : q[i] \in Threads
  BY LenProperties, ElementOfSeq DEF TypeOK
<1>1. n \in 0 .. Len(q) /\ (all => n = Len(q))
  BY <1>0, EmptySeq DEF WakeCount
<1>2. /\ waiters' = [waiters EXCEPT ![x] = r]
      /\ blocked' = [t \in Threads |-> blocked[t] /\ \A i \in 1 .. n : q[i] # t]
  BY DEF Wake
<1>. HIDE DEF q, n
<1>3. r \in Seq(Threads) /\ Len(r) = Len(q) - n /\ \A i \in 1 .. Len(q) - n : r[i] = q[n + i]
  <2>1. \A i \in n + 1 .. Len(q) : q[i] \in Threads
    BY <1>0, <1>1
  <2>2. n + 1 \in Int /\ Len(q) \in Int
    BY <1>0, <1>1
  <2>. QED
    BY <1>0, <1>1, <2>1, <2>2, SubSeqProperties
<1>. HIDE DEF r
<1>4. waiters \in [Timers -> Seq(Threads)] /\ blocked \in [Threads -> BOOLEAN]
  BY DEF TypeOK
<1>5. waiters' \in [Timers -> Seq(Threads)] /\ blocked' \in [Threads -> BOOLEAN]
  BY <1>2, <1>3, <1>4
<1>6. waiters'[x] = r /\ \A y \in Timers \ {x} : waiters'[y] = waiters[y]
  BY <1>2, <1>4
<1>7. \A y \in Timers : waiters'[y] # <<>> => waiters[y] # <<>>
  <2>1. q = <<>> => r = <<>>
    BY <1>0, <1>1, <1>3, EmptySeq
  <2>. QED
    BY <1>6, <2>1 DEF q
<1>8. all => waiters'[x] = <<>>
  BY <1>0, <1>1, <1>3, <1>6, EmptySeq
\* Where a thread that stays queued was before.
<1>9. ASSUME NEW y \in Timers, NEW i \in 1 .. Len(waiters'[y])
      PROVE  \E j \in 1 .. Len(waiters[y]) :
                /\ waiters'[y][i] = waiters[y][j]
                /\ j = IF y = x THEN n + i ELSE i
  <2>1. CASE y = x
    <3>1. n + i \in 1 .. Len(q) /\ r[i] = q[n + i]
      BY <1>0, <1>1, <1>3, <1>6, <1>9, <2>1
    <3>. QED
      BY <1>6, <2>1, <3>1 DEF q
  <2>2. CASE y # x
    BY <1>6, <1>9, <2>2
  <2>. QED
    BY <2>1, <2>2
<1>10. ASSUME NEW y \in Timers, NEW i \in 1 .. Len(waiters'[y])
       PROVE  blocked'[waiters'[y][i]]
  <2>1. PICK j \in 1 .. Len(waiters[y]) :
           waiters'[y][i] = waiters[y][j] /\ j = IF y = x THEN n + i ELSE i
    BY <1>9
  <2>2. blocked[waiters[y][j]] /\ waiters[y][j] \in Threads
    BY <1>4, ElementOfSeq DEF QueuesLinked
  <2>3. ASSUME NEW k \in 1 .. n, q[k] = waiters[y][j] PROVE FALSE
    <3>1. k \in 1 .. Len(waiters[x]) /\ waiters[x][k] = waiters[y][j]
      BY <1>0, <1>1, <2>3 DEF q
    <3>2. x = y /\ k = j
      BY <3>1 DEF QueuesLinked
    <3>3. j = n + i
      BY <2>1, <3>2
    <3>4. Len(waiters'[y]) \in Nat
      BY <1>5, LenProperties
    <3>. QED
      BY <1>0, <1>1, <3>2, <3>3, <3>4
  <2>. QED
    BY <1>2, <2>1, <2>2, <2>3
<1>11. ASSUME NEW t \in Threads, blocked'[t]
       PROVE  \E y \in Timers : \E i \in 1 .. Len(waiters'[y]) : waiters'[y][i] = t
  <2>1. blocked[t] /\ \A i \in 1 .. n : q[i] # t
    BY <1>2, <1>11
  <2>. PICK y \in Timers : \E j \in 1 .. Len(waiters[y]) : waiters[y][j] = t
    BY <2>1 DEF QueuesLinked
  <2>2. PICK j \in 1 .. Len(waiters[y]) : waiters[y][j] = t
    OBVIOUS
  <2>3. CASE y = x
    <3>1. j > n /\ j \in 1 .. Len(q) /\ q[j] = t
      BY <1>0, <1>1, <2>1, <2>2, <2>3 DEF q
    <3>2. j - n \in 1 .. Len(r) /\ n + (j - n) = j
      BY <1>0, <1>1, <1>3, <3>1
    <3>3. r[j - n] = t
      BY <1>3, <3>1, <3>2
    <3>. QED
      BY <1>6, <3>2, <3>3
  <2>4. CASE y # x
    BY <1>6, <2>2, <2>4
  <2>. QED
    BY <2>3, <2>4
<1>12. ASSUME NEW y \in Timers, NEW z \in Timers,
              NEW i \in 1 .. Len(waiters'[y]), NEW j \in 1 .. Len(waiters'[z]),
              waiters'[y][i] = waiters'[z][j]
       PROVE  y = z /\ i = j
  <2>1. PICK a \in 1 .. Len(waiters[y]) :
           waiters'[y][i] = waiters[y][a] /\ a = IF y = x THEN n + i ELSE i
    BY <1>9
  <2>2. PICK b \in 1 .. Len(waiters[z]) :
           waiters'[z][j] = waiters[z][b] /\ b = IF z = x THEN n + j ELSE j
    BY <1>9
  <2>. waiters[y][a] = waiters[z][b]
    BY <1>12, <2>1, <2>2, Zenon
  <2>3. y = z /\ a = b
    BY UniquePlace
  <2>4. Len(waiters'[y]) \in Nat /\ Len(waiters'[z]) \in Nat
    BY <1>5, LenProperties
  <2>. QED
    BY <1>0, <1>1, <2>1, <2>2, <2>3, <2>4
<1>13. QueuesLinked'
  BY <1>10, <1>11, <1>12, Zenon DEF QueuesLinked
<1>. QED
  BY <1>5, <1>7, <1>8, <1>13

\* A thread that calls is not blocked, so it is in no queue yet.
LEMMA BlockLinked ==
    ASSUME TypeOK, QueuesLinked, NEW t \in Threads, ~ blocked[t], NEW x \in Timers,
           waiters' = [waiters EXCEPT ![x] = <<t>> \o @],
           blocked' = [blocked EXCEPT ![t] = TRUE]
    PROVE  /\ waiters' \in [Timers -> Seq(Threads)] /\ blocked' \in [Threads -> BOOLEAN]
           /\ QueuesLinked'
<1>. DEFINE q == waiters[x]
            r == <<t>> \o q
<1>0. /\ waiters \in [Timers -> Seq(Threads)] /\ blocked \in [Threads -> BOOLEAN]
      /\ q \in Seq(Threads) /\ Len(q) \in Nat
  BY LenProperties DEF TypeOK
<1>1. <<t>> \in Seq(Threads) /\ Len(<<t>>) = 1 /\ <<t>>[1] = t
  OBVIOUS
<1>. HIDE DEF q
<1>2. /\ r \in Seq(Threads) /\ Len(r) = Len(q) + 1
      /\ \A i \in 1 .. Len(q) + 1 : r[i] = IF i = 1 THEN t ELSE q[i - 1]
  BY <1>0, <1>1, ConcatProperties
<1>. HIDE DEF r
<1>3. waiters'[x] = r /\ \A y \in Timers \ {x} : waiters'[y] = waiters[y]
  BY <1>0 DEF q, r
<1>4. waiters' \in [Timers -> Seq(Threads)] /\ blocked' \in [Threads -> BOOLEAN]
  BY <1>0, <1>2 DEF q, r
<1>5. \A u \in Threads : blocked'[u] <=> u = t \/ blocked[u]
  BY <1>0
<1>6. ASSUME NEW y \in Timers, NEW i \in 1 .. Len(waiters'[y]), ~ (y = x /\ i = 1)
      PROVE  \E j \in 1 .. Len(waiters[y]) :
                /\ waiters'[y][i] = waiters[y][j]
                /\ j = IF y = x THEN i - 1 ELSE i
  <2>1. CASE y = x
    <3>1. i - 1 \in 1 .. Len(q) /\ r[i] = q[i - 1]
      BY <1>0, <1>2, <1>3, <1>6, <2>1
    <3>. QED
      BY <1>3, <2>1, <3>1 DEF q
  <2>2. CASE y # x
    BY <1>3, <1>6, <2>2
  <2>. QED
    BY <2>1, <2>2
<1>7. waiters'[x][1] = t /\ 1 \in 1 .. Len(waiters'[x])
  BY <1>0, <1>2, <1>3
<1>8. \A y \in Timers : \A j \in 1 .. Len(waiters[y]) :
         waiters[y][j] # t /\ waiters[y][j] \in Threads /\ blocked[waiters[y][j]]
  BY <1>0, ElementOfSeq DEF QueuesLinked
<1>9. ASSUME NEW y \in Timers, NEW i \in 1 .. Len(waiters'[y])
      PROVE  blocked'[waiters'[y][i]]
  <2>1. CASE y = x /\ i = 1
    BY <1>5, <1>7, <2>1
  <2>2. CASE ~ (y = x /\ i = 1)
    BY <1>5, <1>6, <1>8, <2>2
  <2>. QED
    BY <2>1, <2>2
<1>10. ASSUME NEW u \in Threads, blocked'[u]
       PROVE  \E y \in Timers : \E i \in 1 .. Len(waiters'[y]) : waiters'[y][i] = u
  <2>1. CASE u = t
    BY <1>7, <2>1
  <2>2. CASE u # t
    <3>. PICK y \in Timers : \E j \in 1 .. Len(waiters[y]) : waiters[y][j] = u
      BY <1>5, <1>10, <2>2 DEF QueuesLinked
    <3>1. PICK j \in 1 .. Len(waiters[y]) : waiters[y][j] = u
      OBVIOUS
    <3>2. CASE y = x
      <4>1. j + 1 \in 1 .. Len(r) /\ j + 1 # 1 /\ (j + 1) - 1 = j
        BY <1>0, <1>2, <3>1, <3>2 DEF q
      <4>2. r[j + 1] = u
        BY <1>2, <3>1, <3>2, <4>1 DEF q
      <4>. QED
        BY <1>3, <4>1, <4>2
    <3>3. CASE y # x
      BY <1>3, <3>1, <3>3
    <3>. QED
      BY <3>2, <3>3
  <2>. QED
    BY <2>1, <2>2
<1>11. ASSUME NEW y \in Timers, NEW z \in Timers,
              NEW i \in 1 .. Len(waiters'[y]), NEW j \in 1 .. Len(waiters'[z]),
              waiters'[y][i] = waiters'[z][j]
       PROVE  y = z /\ i = j
  <2>1. CASE y = x /\ i = 1
    BY <1>6, <1>7, <1>8, <1>11, <2>1
  <2>2. CASE z = x /\ j = 1
    BY <1>6, <1>7, <1>8, <1>11, <2>2
  <2>3. CASE ~ (y = x /\ i = 1) /\ ~ (z = x /\ j = 1)
    <3>1. PICK a \in 1 .. Len(waiters[y]) :
             waiters'[y][i] = waiters[y][a] /\ a = IF y = x THEN i - 1 ELSE i
      BY <1>6, <2>3
    <3>2. PICK b \in 1 .. Len(waiters[z]) :
             waiters'[z][j] = waiters[z][b] /\ b = IF z = x THEN j - 1 ELSE j
      BY <1>6, <2>3
    <3>. waiters[y][a] = waiters[z][b]
      BY <1>11, <3>1, <3>2, Zenon
    <3>3. y = z /\ a = b
      BY UniquePlace
    <3>4. Len(waiters'[y]) \in Nat /\ Len(waiters'[z]) \in Nat
      BY <1>4, LenProperties
    <3>. QED
      BY <3>1, <3>2, <3>3, <3>4
  <2>. QED
    BY <2>1, <2>2, <2>3
<1>12. QueuesLinked'
  BY <1>9, <1>10, <1>11, Zenon DEF QueuesLinked
<1>. QED
  BY <1>4, <1>12

\* A thread that ends leaves the queue it is in.
LEMMA ExitLinked ==
    ASSUME TypeOK, QueuesLinked, NEW t \in Threads,
           waiters' = [x \in Timers |-> Without(waiters[x], t)],
           blocked' = [blocked EXCEPT ![t] = FALSE]
    PROVE  /\ waiters' \in [Timers -> Seq(Threads)] /\ blocked' \in [Threads -> BOOLEAN]
           /\ QueuesLinked'
           /\ \A y \in Timers : waiters'[y] # <<>> => waiters[y] # <<>>
<1>0. waiters \in [Timers -> Seq(Threads)] /\ blocked \in [Threads -> BOOLEAN]
  BY DEF TypeOK
<1>1. ASSUME NEW y \in Timers
      PROVE  /\ waiters'[y] \in Seq(Threads)
             /\ ToSet(waiters'[y]) = ToSet(waiters[y]) \ {t}
             /\ \A i, j \in 1 .. Len(waiters'[y]) : i < j => waiters'[y][i] # waiters'[y][j]
  <2>. DEFINE s == waiters[y]
              w == Without(s, t)
  <2>1. s \in Seq(Threads) /\ Len(s) \in Nat
    BY <1>0, LenProperties
  <2>2. \A i, j \in 1 .. Len(s) : i < j => s[i] # s[j]
    BY <2>1 DEF QueuesLinked
  <2>3. /\ w \in Seq(Threads) /\ ToSet(w) = ToSet(s) \ {t}
        /\ \A i, j \in 1 .. Len(w) : i < j =>
              \E a, b \in 1 .. Len(s) : a < b /\ w[i] = s[a] /\ w[j] = s[b]
    <3>. HIDE DEF s
    <3>1. /\ Without(s, t) \in Seq(Threads) /\ ToSet(Without(s, t)) = ToSet(s) \ {t}
          /\ \A i, j \in 1 .. Len(Without(s, t)) : i < j =>
                \E a, b \in 1 .. Len(s) :
                   a < b /\ Without(s, t)[i] = s[a] /\ Without(s, t)[j] = s[b]
      BY <2>1, <2>2, WithoutCells
    <3>. QED
      BY <3>1
  <2>4. waiters'[y] = w
    OBVIOUS
  <2>. HIDE DEF s, w
  <2>5. ASSUME NEW i \in 1 .. Len(w), NEW j \in 1 .. Len(w), i < j
        PROVE  w[i] # w[j]
    <3>1. PICK a \in 1 .. Len(s), b \in 1 .. Len(s) : a < b /\ w[i] = s[a] /\ w[j] = s[b]
      BY <2>3, <2>5
    <3>2. s[a] # s[b]
      BY <2>2, <3>1
    <3>. QED
      BY <3>1, <3>2
  <2>6. ToSet(w) = ToSet(waiters[y]) \ {t}
    BY <2>3 DEF s
  <2>. QED
    BY <2>3, <2>4, <2>5, <2>6
<1>2. \A y \in Timers : /\ ToSet(waiters[y]) = {waiters[y][i] : i \in 1 .. Len(waiters[y])}
                        /\ ToSet(waiters'[y]) = {waiters'[y][i] : i \in 1 .. Len(waiters'[y])}
                        /\ Len(waiters'[y]) \in Nat
                        /\ ToSet(waiters[y]) \subseteq Threads
  BY <1>0, <1>1, LenProperties DEF ToSet
<1>3. waiters' \in [Timers -> Seq(Threads)] /\ blocked' \in [Threads -> BOOLEAN]
  BY <1>0, <1>1
<1>4. \A y \in Timers : waiters'[y] # <<>> => waiters[y] # <<>>
  <2>. SUFFICES ASSUME NEW y \in Timers, waiters[y] = <<>> PROVE waiters'[y] = <<>>
    OBVIOUS
  <2>1. ToSet(waiters[y]) = {}
    <3>1. Len(waiters[y]) = 0
      BY EmptySeq
    <3>2. 1 .. Len(waiters[y]) = {}
      BY <3>1
    <3>. QED
      BY <1>2, <3>2
  <2>2. ToSet(waiters'[y]) = {}
    BY <1>1, <2>1
  <2>3. Len(waiters'[y]) = 0
    <3>1. \A i \in 1 .. Len(waiters'[y]) : waiters'[y][i] \in ToSet(waiters'[y])
      BY <1>2
    <3>2. Len(waiters'[y]) \in Nat /\ \A i \in 1 .. Len(waiters'[y]) : FALSE
      BY <1>2, <2>2, <3>1
    <3>. QED
      BY <3>2
  <2>. QED
    BY <1>1, <2>3, EmptySeq
<1>5. \A u \in Threads : blocked'[u] <=> u # t /\ blocked[u]
  BY <1>0
<1>6. ASSUME NEW u \in Threads
      PROVE  blocked[u] <=> \E y \in Timers : u \in ToSet(waiters[y])
  <2>1. ASSUME blocked[u] PROVE \E y \in Timers : u \in ToSet(waiters[y])
    <3>1. PICK y \in Timers : \E i \in 1 .. Len(waiters[y]) : waiters[y][i] = u
      BY <2>1 DEF QueuesLinked
    <3>. QED
      BY <1>2, <3>1
  <2>2. ASSUME NEW y \in Timers, u \in ToSet(waiters[y]) PROVE blocked[u]
    <3>1. PICK i \in 1 .. Len(waiters[y]) : waiters[y][i] = u
      BY <1>0, <2>2, ToSetElement
    <3>. QED
      BY <3>1 DEF QueuesLinked
  <2>. QED
    BY <2>1, <2>2
<1>7. ASSUME NEW y \in Timers, NEW z \in Timers, y # z,
             NEW u \in ToSet(waiters[y]) \cap ToSet(waiters[z])
      PROVE  FALSE
  <2>1. PICK i \in 1 .. Len(waiters[y]) : waiters[y][i] = u
    BY <1>0, ToSetElement
  <2>2. PICK j \in 1 .. Len(waiters[z]) : waiters[z][j] = u
    BY <1>0, ToSetElement
  <2>. QED
    BY <1>7, <2>1, <2>2, UniquePlace
<1>8. \A u \in Threads : blocked'[u] <=> \E y \in Timers : u \in ToSet(waiters'[y])
  BY <1>1, <1>5, <1>6
<1>9. \A y, z \in Timers : y # z => ToSet(waiters'[y]) \cap ToSet(waiters'[z]) = {}
  BY <1>1, <1>7
<1>10. ASSUME NEW y \in Timers, NEW i \in 1 .. Len(waiters'[y])
       PROVE  blocked'[waiters'[y][i]]
  <2>1. waiters'[y][i] \in ToSet(waiters'[y])
    BY <1>2, SMTT(20)
  <2>2. waiters'[y][i] \in Threads
    BY <1>1, ElementOfSeq
  <2>. QED
    BY <1>8, <2>1, <2>2
<1>11. ASSUME NEW u \in Threads, blocked'[u]
       PROVE  \E y \in Timers : \E i \in 1 .. Len(waiters'[y]) : waiters'[y][i] = u
  BY <1>2, <1>8, <1>11
<1>12. ASSUME NEW y \in Timers, NEW z \in Timers,
              NEW i \in 1 .. Len(waiters'[y]), NEW j \in 1 .. Len(waiters'[z]),
              waiters'[y][i] = waiters'[z][j]
       PROVE  y = z /\ i = j
  <2>1. waiters'[y][i] \in ToSet(waiters'[y]) /\ waiters'[z][j] \in ToSet(waiters'[z])
    BY <1>2, ZenonT(20)
  <2>2. y = z
    BY <1>9, <1>12, <2>1
  <2>3. i < j \/ j < i \/ i = j
    BY <1>2
  <2>. QED
    BY <1>1, <1>12, <2>2, <2>3, Zenon
<1>13. QueuesLinked'
  BY <1>10, <1>11, <1>12, Zenon DEF QueuesLinked
<1>. QED
  BY <1>3, <1>4, <1>13

-----------------------------------------------------------------------------
(* The invariant.                                                          *)

TimersInv == TypeOK /\ ListSorted /\ QueuesLinked /\ RepeatingArmed

\* No timer and no thread waits at the start.
LEMMA InitTimers == Init => TimersInv
<1>. SUFFICES ASSUME Init PROVE TimersInv
  OBVIOUS
<1>1. Len(<<>>) = 0 /\ 1 .. 0 = {} /\ \A S : <<>> \in Seq(S)
  BY EmptySeq
<1>2. ToSet(<<>>) = {}
  BY <1>1, ToSetElement
<1>3. TypeOK
  <2>1. timerList \in Seq(Timers) /\ waiters \in [Timers -> Seq(Threads)]
    BY EmptySeq DEF Init
  <2>2. now \in 0 .. MaxTime /\ interval \in [Timers -> Intervals \cup {0}]
    BY TimerAssumption DEF Init
  <2>. QED
    BY <2>1, <2>2 DEF Init, TypeOK
<1>4. ListSorted
  BY <1>1, <1>2 DEF Init, ListSorted
<1>5. QueuesLinked /\ RepeatingArmed
  BY <1>1 DEF Init, QueuesLinked, RepeatingArmed
<1>. QED
  BY <1>3, <1>4, <1>5 DEF TimersInv

\* timerCreate: the timer was in no list, since only open timers are active.
LEMMA CreateTimers ==
    ASSUME TimersInv, NEW t \in Threads, NEW x \in Timers, TimerCreate(t, x)
    PROVE  TimersInv'
<1>1. TypeOK'
  BY DEF TimersInv, TypeOK, TimerCreate
<1>2. ~ active[x] /\ active' = active
  BY DEF TimersInv, TypeOK, ListSorted, TimerCreate
<1>3. \A i \in 1 .. Len(timerList) : timerList[i] # x /\ timerList[i] \in Timers
  BY <1>2, ToSetElement, ElementOfSeq DEF TimersInv, TypeOK, ListSorted
<1>4. ListSorted'
  <2>1. \A i \in 1 .. Len(timerList) : timeout'[timerList[i]] = timeout[timerList[i]]
    BY <1>3 DEF TimersInv, TypeOK, TimerCreate
  <2>. QED
    BY <1>2, <2>1 DEF TimersInv, ListSorted, TimerCreate
<1>5. QueuesLinked'
  BY DEF TimersInv, QueuesLinked, TimerCreate
<1>6. RepeatingArmed'
  BY <1>2 DEF TimersInv, TypeOK, RepeatingArmed, TimerCreate
<1>. QED
  BY <1>1, <1>4, <1>5, <1>6 DEF TimersInv

\* __timerShutdown and __timerDestroy: the timer is unlinked, nobody waits.
LEMMA StopTimers ==
    ASSUME TimersInv, NEW t \in Threads, NEW x \in Timers,
           TimerShutdown(t, x) \/ TimerClose(t, x)
    PROVE  TimersInv'
<1>0. TypeOK /\ ListSorted /\ QueuesLinked /\ RepeatingArmed
  BY DEF TimersInv
<1>1. /\ active' = [active EXCEPT ![x] = FALSE] /\ timerList' = Without(timerList, x)
      /\ Wake(x, TRUE) /\ UNCHANGED <<now, inIrq>>
      /\ open \ {x} \subseteq open' /\ open' \subseteq open
      /\ timeout' = timeout \/ timeout' = [timeout EXCEPT ![x] = 0]
      /\ interval' = interval \/ interval' = [interval EXCEPT ![x] = 0]
  BY DEF TimerShutdown, TimerClose
<1>2. /\ waiters' \in [Timers -> Seq(Threads)] /\ blocked' \in [Threads -> BOOLEAN]
      /\ QueuesLinked' /\ waiters'[x] = <<>>
      /\ \A y \in Timers : waiters'[y] # <<>> => waiters[y] # <<>>
  BY <1>0, <1>1, WakeLinked
<1>3. /\ timerList' \in Seq(Timers)
      /\ ToSet(timerList') = {y \in Timers : active[y]} \ {x}
      /\ Ordered(timerList', timeout')
  <2>. DEFINE w == Without(timerList, x)
  <2>1. /\ w \in Seq(Timers) /\ ToSet(w) = {y \in Timers : active[y]} \ {x}
        /\ Ordered(w, timeout) /\ Ordered(w, [timeout EXCEPT ![x] = 0])
    BY <1>0, WithoutOrdered
  <2>2. timerList' = w
    BY <1>1
  <2>. HIDE DEF w
  <2>3. Ordered(timerList', timeout')
    BY <1>1, <2>1, <2>2
  <2>. QED
    BY <2>1, <2>2, <2>3
<1>4. TypeOK'
  <2>1. now' \in 0 .. MaxTime /\ inIrq' \in BOOLEAN /\ open' \subseteq Timers
    BY <1>0, <1>1 DEF TypeOK
  <2>2. active' \in [Timers -> BOOLEAN]
    BY <1>0, <1>1 DEF TypeOK
  <2>3. timeout' \in [Timers -> Nat]
    <3>1. timeout \in [Timers -> Nat] /\ [timeout EXCEPT ![x] = 0] \in [Timers -> Nat]
      BY <1>0 DEF TypeOK
    <3>. QED
      BY <1>1, <3>1, Zenon
  <2>4. interval' \in [Timers -> Intervals \cup {0}]
    BY <1>0, <1>1 DEF TypeOK
  <2>. QED
    BY <1>2, <1>3, <2>1, <2>2, <2>3, <2>4 DEF TypeOK
<1>5. /\ active' \in [Timers -> BOOLEAN]
      /\ \A y \in Timers : active'[y] <=> active[y] /\ y # x
  BY <1>0, <1>1 DEF TypeOK
<1>6. ListSorted'
  BY <1>0, <1>1, <1>3, <1>5 DEF ListSorted, Ordered
<1>7. RepeatingArmed'
  BY <1>0, <1>1, <1>2, <1>5 DEF RepeatingArmed, TypeOK
<1>. QED
  BY <1>2, <1>4, <1>6, <1>7 DEF TimersInv

\* __timerSignal
LEMMA SignalTimers ==
    ASSUME TimersInv, NEW t \in Threads, NEW x \in Timers, TimerSignal(t, x)
    PROVE  TimersInv'
<1>0. TypeOK /\ ListSorted /\ QueuesLinked /\ RepeatingArmed /\ WakeupAll[x] \in BOOLEAN
  BY TimerAssumption DEF TimersInv
<1>1. /\ Wake(x, WakeupAll[x])
      /\ UNCHANGED <<now, inIrq, open, active, timeout, interval, timerList>>
  BY DEF TimerSignal
<1>2. /\ waiters' \in [Timers -> Seq(Threads)] /\ blocked' \in [Threads -> BOOLEAN]
      /\ QueuesLinked'
      /\ \A y \in Timers : waiters'[y] # <<>> => waiters[y] # <<>>
  BY <1>0, <1>1, WakeLinked
<1>3. TypeOK'
  BY <1>0, <1>1, <1>2 DEF TypeOK
<1>4. ListSorted'
  BY <1>0, <1>1 DEF ListSorted
<1>5. RepeatingArmed'
  BY <1>0, <1>1, <1>2 DEF RepeatingArmed
<1>. QED
  BY <1>2, <1>3, <1>4, <1>5 DEF TimersInv

\* A timer that is given a new timeout and linked at its place.
LEMMA ArmedSorted ==
    ASSUME TypeOK, ListSorted, NEW x \in open, NEW when \in Nat,
           timeout' = [timeout EXCEPT ![x] = when],
           timerList' = Rescheduled(x, when),
           active' = [active EXCEPT ![x] = TRUE],
           open' = open
    PROVE  /\ timeout' \in [Timers -> Nat] /\ timerList' \in Seq(Timers)
           /\ active' \in [Timers -> BOOLEAN]
           /\ ListSorted'
           /\ \A y \in Timers : active[y] \/ y = x => active'[y]
<1>0. x \in Timers
  BY DEF TypeOK
<1>1. /\ timerList' \in Seq(Timers)
      /\ ToSet(timerList') = {y \in Timers : active[y]} \cup {x}
      /\ Ordered(timerList', timeout')
  BY <1>0, RescheduledOrdered
<1>2. /\ active' \in [Timers -> BOOLEAN]
      /\ \A y \in Timers : active'[y] <=> active[y] \/ y = x
  BY <1>0 DEF TypeOK
<1>3. timeout' \in [Timers -> Nat]
  BY <1>0 DEF TypeOK
<1>4. ToSet(timerList') = {y \in Timers : active'[y]}
  BY <1>0, <1>1, <1>2
<1>5. ListSorted'
  BY <1>1, <1>2, <1>4 DEF ListSorted, Ordered
<1>. QED
  BY <1>1, <1>2, <1>3, <1>5

\* __timerWrite
LEMMA WriteTimers ==
    ASSUME TimersInv, NEW t \in Threads, NEW x \in Timers,
           NEW delay \in Timeouts, NEW period \in Intervals, TimerWrite(t, x, delay, period)
    PROVE  TimersInv'
<1>0. /\ TypeOK /\ ListSorted /\ QueuesLinked /\ RepeatingArmed
      /\ now \in 0 .. MaxTime /\ MaxTime \in Nat /\ delay \in Nat
  BY TimerAssumption DEF TimersInv, TypeOK
<1>. DEFINE when == now + delay
<1>1. when \in Nat /\ x \in open
  BY <1>0 DEF TimerWrite
<1>. HIDE DEF when
<1>2. /\ timeout' = [timeout EXCEPT ![x] = when]
      /\ timerList' = Rescheduled(x, when)
      /\ active' = [active EXCEPT ![x] = TRUE]
      /\ interval' = [interval EXCEPT ![x] = period]
      /\ UNCHANGED <<now, inIrq, open, waiters, blocked>>
  BY DEF TimerWrite, when
<1>3. /\ timeout' \in [Timers -> Nat] /\ timerList' \in Seq(Timers)
      /\ active' \in [Timers -> BOOLEAN]
      /\ ListSorted'
      /\ \A y \in Timers : active[y] \/ y = x => active'[y]
  BY <1>0, <1>1, <1>2, ArmedSorted
<1>4. interval' \in [Timers -> Intervals \cup {0}] /\ \A y \in Timers \ {x} : interval'[y] = interval[y]
  BY <1>0, <1>2 DEF TypeOK
<1>5. TypeOK'
  BY <1>0, <1>2, <1>3, <1>4 DEF TypeOK
<1>6. QueuesLinked'
  <2>1. QueuesLinked /\ waiters' = waiters /\ blocked' = blocked
    BY <1>0, <1>2, Zenon
  <2>. QED
    BY <2>1 DEF QueuesLinked
<1>7. RepeatingArmed'
  BY <1>0, <1>2, <1>3, <1>4 DEF RepeatingArmed
<1>. QED
  BY <1>3, <1>5, <1>6, <1>7 DEF TimersInv

\* __timerWait of a timer that expires later.
LEMMA WaitBlocksTimers ==
    ASSUME TimersInv, NEW t \in Threads, NEW x \in Timers, TimerWaitBlocks(t, x)
    PROVE  TimersInv'
<1>0. TypeOK /\ ListSorted /\ QueuesLinked /\ RepeatingArmed
  BY DEF TimersInv
<1>1. /\ x \in open /\ ~ blocked[t]
      /\ timerList' = IF active[x] THEN timerList ELSE Linked(timerList, x, timeout[x])
      /\ active' = [active EXCEPT ![x] = TRUE]
      /\ waiters' = [waiters EXCEPT ![x] = <<t>> \o @]
      /\ blocked' = [blocked EXCEPT ![t] = TRUE]
      /\ UNCHANGED <<now, inIrq, open, timeout, interval>>
  BY DEF TimerWaitBlocks, CanCall
<1>2. /\ waiters' \in [Timers -> Seq(Threads)] /\ blocked' \in [Threads -> BOOLEAN]
      /\ QueuesLinked'
  BY <1>0, <1>1, BlockLinked
<1>3. /\ active' \in [Timers -> BOOLEAN]
      /\ \A y \in Timers : active'[y] <=> active[y] \/ y = x
  BY <1>0, <1>1 DEF TypeOK
<1>4. /\ timerList \in Seq(Timers) /\ ToSet(timerList) = {y \in Timers : active[y]}
      /\ Ordered(timerList, timeout) /\ timeout \in [Timers -> Nat] /\ timeout[x] \in Nat
  BY <1>0 DEF TypeOK, ListSorted, Ordered
<1>5. /\ timerList' \in Seq(Timers)
      /\ ToSet(timerList') = {y \in Timers : active[y]} \cup {x}
      /\ Ordered(timerList', timeout)
  <2>1. CASE active[x]
    BY <1>1, <1>4, <2>1
  <2>2. CASE ~ active[x]
    <3>. DEFINE new == Linked(timerList, x, timeout[x])
    <3>1. [timeout EXCEPT ![x] = timeout[x]] = timeout
      BY <1>4
    <3>2. /\ new \in Seq(Timers) /\ ToSet(new) = ToSet(timerList) \cup {x}
          /\ Ordered(new, [timeout EXCEPT ![x] = timeout[x]])
      BY <1>0, <1>4, <2>2, LinkedOrdered
    <3>3. timerList' = new
      BY <1>1, <2>2
    <3>. HIDE DEF new
    <3>. QED
      BY <1>4, <3>1, <3>2, <3>3
  <2>. QED
    BY <2>1, <2>2
<1>6. ToSet(timerList') = {y \in Timers : active'[y]}
  BY <1>3, <1>5
<1>7. ListSorted'
  BY <1>0, <1>1, <1>3, <1>5, <1>6 DEF ListSorted, Ordered
<1>8. TypeOK'
  BY <1>0, <1>1, <1>2, <1>3, <1>5 DEF TypeOK
<1>9. RepeatingArmed'
  <2>1. \A y \in Timers \ {x} : waiters'[y] = waiters[y]
    BY <1>0, <1>1 DEF TypeOK
  <2>. QED
    BY <1>0, <1>1, <1>3, <2>1 DEF RepeatingArmed
<1>. QED
  BY <1>2, <1>7, <1>8, <1>9 DEF TimersInv

\* The next expiry of a repeating timer is a time.
LEMMA NextTimeoutType ==
    ASSUME TypeOK, NEW x \in Timers, timeout[x] <= now, interval[x] > 0
    PROVE  NextTimeout(x) \in Nat
<1>1. /\ timeout[x] \in Nat /\ now \in Nat /\ interval[x] \in Nat \ {0}
      /\ Word \in Nat \ {0}
  <2>1. MaxTime \in Nat /\ Word \in Nat \ {0} /\ Intervals \cup {0} \subseteq Nat
    BY TimerAssumption
  <2>2. timeout[x] \in Nat /\ now \in 0 .. MaxTime /\ interval[x] \in Intervals \cup {0}
    BY DEF TypeOK
  <2>. QED
    BY <2>1, <2>2
<1>2. (now - timeout[x]) \div interval[x] + 1 \in Int
  BY <1>1
<1>3. EventCount(x) \in Nat
  BY <1>1, <1>2 DEF EventCount
<1>4. EventCount(x) * interval[x] \in Nat
  BY <1>1, <1>3
<1>5. (EventCount(x) * interval[x]) % Word \in Nat
  BY <1>1, <1>4
<1>. QED
  BY <1>1, <1>5 DEF NextTimeout

\* What happens to an open timer that has expired.
LEMMA ExpireSorted ==
    ASSUME TypeOK, ListSorted, NEW x \in open, timeout[x] <= now, Expire(x), open' = open
    PROVE  /\ timeout' \in [Timers -> Nat] /\ timerList' \in Seq(Timers)
           /\ active' \in [Timers -> BOOLEAN]
           /\ ListSorted'
           /\ \A y \in Timers : active[y] /\ y # x => active'[y]
           /\ interval[x] > 0 => active'[x]
<1>0. x \in Timers
  BY DEF TypeOK
<1>1. CASE interval[x] > 0
  <2>1. NextTimeout(x) \in Nat
    BY <1>0, <1>1, NextTimeoutType
  <2>2. /\ timeout' = [timeout EXCEPT ![x] = NextTimeout(x)]
        /\ timerList' = Rescheduled(x, NextTimeout(x))
        /\ active' = [active EXCEPT ![x] = TRUE]
    BY <1>1 DEF Expire
  <2>. QED
    BY <1>0, <2>1, <2>2, ArmedSorted
<1>2. CASE ~ (interval[x] > 0)
  <2>1. /\ timerList' = Without(timerList, x)
        /\ active' = [active EXCEPT ![x] = FALSE]
        /\ timeout' = timeout
    BY <1>2 DEF Expire
  <2>2. /\ timerList' \in Seq(Timers)
        /\ ToSet(timerList') = {y \in Timers : active[y]} \ {x}
        /\ Ordered(timerList', timeout)
    BY <1>0, <2>1, WithoutOrdered
  <2>3. /\ active' \in [Timers -> BOOLEAN]
        /\ \A y \in Timers : active'[y] <=> active[y] /\ y # x
    BY <1>0, <2>1 DEF TypeOK
  <2>4. ToSet(timerList') = {y \in Timers : active'[y]}
    BY <2>2, <2>3
  <2>5. ListSorted'
    BY <2>1, <2>2, <2>3, <2>4 DEF ListSorted, Ordered
  <2>. QED
    BY <1>2, <2>1, <2>2, <2>3, <2>5 DEF TypeOK
<1>. QED
  BY <1>1, <1>2

\* __timerWait of a timer that has expired.
LEMMA WaitReturnsTimers ==
    ASSUME TimersInv, NEW t \in Threads, NEW x \in Timers, TimerWaitReturns(t, x)
    PROVE  TimersInv'
<1>0. TypeOK /\ ListSorted /\ QueuesLinked /\ RepeatingArmed
  BY DEF TimersInv
<1>1. /\ x \in open /\ timeout[x] <= now /\ Expire(x) /\ open' = open
      /\ now' = now /\ inIrq' = inIrq /\ interval' = interval
      /\ waiters' = waiters /\ blocked' = blocked
  BY DEF TimerWaitReturns
<1>2. /\ timeout' \in [Timers -> Nat] /\ timerList' \in Seq(Timers)
      /\ active' \in [Timers -> BOOLEAN]
      /\ ListSorted'
      /\ \A y \in Timers : active[y] /\ y # x => active'[y]
      /\ interval[x] > 0 => active'[x]
  BY <1>0, <1>1, ExpireSorted
<1>3. TypeOK'
  BY <1>0, <1>1, <1>2 DEF TypeOK
<1>4. QueuesLinked'
  <2>1. QueuesLinked /\ waiters' = waiters /\ blocked' = blocked
    BY <1>0, <1>1, Zenon
  <2>. QED
    BY <2>1 DEF QueuesLinked
<1>5. RepeatingArmed'
  BY <1>0, <1>1, <1>2 DEF RepeatingArmed
<1>. QED
  BY <1>2, <1>3, <1>4, <1>5 DEF TimersInv

\* __threadShutdown
LEMMA ExitTimers ==
    ASSUME TimersInv, NEW t \in Threads, ThreadExit(t)
    PROVE  TimersInv'
<1>0. TypeOK /\ ListSorted /\ QueuesLinked /\ RepeatingArmed
  BY DEF TimersInv
<1>1. /\ waiters' = [x \in Timers |-> Without(waiters[x], t)]
      /\ blocked' = [blocked EXCEPT ![t] = FALSE]
      /\ UNCHANGED <<now, inIrq, open, active, timeout, interval, timerList>>
  BY DEF ThreadExit
<1>2. /\ waiters' \in [Timers -> Seq(Threads)] /\ blocked' \in [Threads -> BOOLEAN]
      /\ QueuesLinked'
      /\ \A y \in Timers : waiters'[y] # <<>> => waiters[y] # <<>>
  BY <1>0, <1>1, ExitLinked
<1>. HIDE <1>1
<1>3. UNCHANGED <<now, inIrq, open, active, timeout, interval, timerList>>
  BY <1>1
<1>4. TypeOK'
  BY <1>0, <1>2, <1>3 DEF TypeOK
<1>5. ListSorted'
  BY <1>0, <1>3 DEF ListSorted
<1>6. RepeatingArmed'
  BY <1>0, <1>2, <1>3 DEF RepeatingArmed
<1>. QED
  BY <1>2, <1>4, <1>5, <1>6 DEF TimersInv

\* The head of the list is an open timer.
LEMMA HeadOpen ==
    ASSUME TypeOK, ListSorted, timerList # <<>>
    PROVE  Head(timerList) \in open /\ active[Head(timerList)] /\ Head(timerList) = timerList[1]
<1>1. timerList \in Seq(Timers)
  BY DEF TypeOK
<1>2. Len(timerList) \in Nat /\ Len(timerList) # 0
  BY <1>1, EmptySeq, LenProperties
<1>3. Head(timerList) = timerList[1] /\ timerList[1] \in Timers /\ timerList[1] \in ToSet(timerList)
  BY <1>1, <1>2, ToSetElement, ElementOfSeq
<1>. QED
  BY <1>3 DEF ListSorted

\* One iteration of timer_irq: the timer at the head expires and wakes.
LEMMA IrqExpireTimers ==
    ASSUME TimersInv, IrqExpire
    PROVE  TimersInv'
<1>0. TypeOK /\ ListSorted /\ QueuesLinked /\ RepeatingArmed
  BY DEF TimersInv
<1>. DEFINE x == Head(timerList)
<1>1. /\ timerList # <<>> /\ timeout[x] <= now /\ Expire(x) /\ open' = open
      /\ now' = now /\ inIrq' = inIrq /\ interval' = interval
      /\ Wake(x, WakeupAll[x])
  BY DEF IrqExpire, HeadExpired
<1>2. x \in open /\ x \in Timers
  BY <1>0, <1>1, HeadOpen DEF TypeOK
<1>. HIDE DEF x
<1>3. WakeupAll[x] \in BOOLEAN
  BY <1>2, TimerAssumption
<1>4. /\ timeout' \in [Timers -> Nat] /\ timerList' \in Seq(Timers)
      /\ active' \in [Timers -> BOOLEAN]
      /\ ListSorted'
      /\ \A y \in Timers : active[y] /\ y # x => active'[y]
      /\ interval[x] > 0 => active'[x]
  BY <1>0, <1>1, <1>2, ExpireSorted
<1>5. /\ waiters' \in [Timers -> Seq(Threads)] /\ blocked' \in [Threads -> BOOLEAN]
      /\ QueuesLinked'
      /\ \A y \in Timers : waiters'[y] # <<>> => waiters[y] # <<>>
  BY <1>0, <1>1, <1>2, <1>3, WakeLinked
<1>6. TypeOK'
  BY <1>0, <1>1, <1>4, <1>5 DEF TypeOK
<1>7. RepeatingArmed'
  BY <1>0, <1>1, <1>4, <1>5 DEF RepeatingArmed
<1>. QED
  BY <1>4, <1>5, <1>6, <1>7 DEF TimersInv

\* timer_irq advances the clock and returns.
LEMMA IrqEdgeTimers ==
    ASSUME TimersInv, IrqBegin \/ IrqEnd
    PROVE  TimersInv'
<1>0. TypeOK /\ ListSorted /\ QueuesLinked /\ RepeatingArmed
  BY DEF TimersInv
<1>1. UNCHANGED <<open, active, timeout, interval, timerList, waiters, blocked>>
  BY DEF IrqBegin, IrqEnd
<1>2. now' \in 0 .. MaxTime /\ inIrq' \in BOOLEAN
  <2>1. now \in 0 .. MaxTime /\ MaxTime \in Nat /\ DELTA \in Nat
    BY <1>0, TimerAssumption DEF TypeOK
  <2>2. CASE IrqBegin
    BY <2>1, <2>2 DEF IrqBegin
  <2>3. CASE IrqEnd
    BY <2>1, <2>3 DEF IrqEnd
  <2>. QED
    BY <2>2, <2>3
<1>3. TypeOK'
  BY <1>0, <1>1, <1>2 DEF TypeOK
<1>4. ListSorted'
  BY <1>0, <1>1 DEF ListSorted
<1>5. QueuesLinked'
  BY <1>0, <1>1 DEF QueuesLinked
<1>6. RepeatingArmed'
  BY <1>0, <1>1 DEF RepeatingArmed
<1>. QED
  BY <1>3, <1>4, <1>5, <1>6 DEF TimersInv

\* The invariant is inductive.
LEMMA NextTimers == TimersInv /\ [Next]_vars => TimersInv'
<1>. SUFFICES ASSUME TimersInv, [Next]_vars PROVE TimersInv'
  OBVIOUS
<1>1. CASE \E t \in Threads, x \in Timers :
              \/ TimerCreate(t, x) \/ TimerShutdown(t, x) \/ TimerClose(t, x) \/ TimerSignal(t, x)
              \/ TimerWaitBlocks(t, x) \/ TimerWaitReturns(t, x)
  <2>. PICK t \in Threads, x \in Timers :
              \/ TimerCreate(t, x) \/ TimerShutdown(t, x) \/ TimerClose(t, x) \/ TimerSignal(t, x)
              \/ TimerWaitBlocks(t, x) \/ TimerWaitReturns(t, x)
    BY <1>1
  <2>1. CASE TimerCreate(t, x)
    BY <2>1, CreateTimers
  <2>2. CASE TimerShutdown(t, x) \/ TimerClose(t, x)
    BY <2>2, StopTimers
  <2>3. CASE TimerSignal(t, x)
    BY <2>3, SignalTimers
  <2>4. CASE TimerWaitBlocks(t, x)
    BY <2>4, WaitBlocksTimers
  <2>5. CASE TimerWaitReturns(t, x)
    BY <2>5, WaitReturnsTimers
  <2>. QED
    BY <2>1, <2>2, <2>3, <2>4, <2>5
<1>2. ASSUME NEW t \in Threads, NEW x \in Timers, NEW delay \in Timeouts, NEW period \in Intervals,
             TimerWrite(t, x, delay, period)
      PROVE  TimersInv'
  BY <1>2, WriteTimers
<1>3. CASE \E t \in Threads : ThreadExit(t)
  BY <1>3, ExitTimers
<1>4. CASE IrqBegin \/ IrqEnd
  BY <1>4, IrqEdgeTimers
<1>5. CASE IrqExpire
  BY <1>5, IrqExpireTimers
<1>6. CASE UNCHANGED vars
  <2>1. UNCHANGED <<now, inIrq, open, active, timeout, interval, timerList, waiters, blocked>>
    BY <1>6 DEF vars
  <2>2. TypeOK' /\ ListSorted' /\ RepeatingArmed'
    BY <2>1 DEF TimersInv, TypeOK, ListSorted, RepeatingArmed
  <2>3. QueuesLinked'
    BY <2>1 DEF TimersInv, QueuesLinked
  <2>. QED
    BY <2>2, <2>3 DEF TimersInv
<1>. QED
  BY <1>1, <1>2, <1>3, <1>4, <1>5, <1>6, Zenon DEF Next

\* Spec: the invariant holds in every state.
LEMMA TimersInvariant == Spec => []TimersInv
<1>1. Init => TimersInv
  BY InitTimers
<1>2. TimersInv /\ [Next]_vars => TimersInv'
  BY NextTimers
<1>. QED
  BY <1>1, <1>2, PTL DEF Spec

\* The list holds each active timer once and sorted by timeout, the queues hold
\* each blocked thread exactly once, and repeating timers with waiting threads
\* run, whatever calls, thread ends and interrupts come in between.
THEOREM TimersCorrect == Spec => []TimersSound
<1>1. TimersInv => TimersSound
  BY LinkedExact DEF TimersInv, TimersSound
<1>. QED
  BY <1>1, TimersInvariant, PTL

\* timer_irq looks at the head of the list only; when it returns, no active
\* timer is overdue.
THEOREM NoneOverdueCorrect == Spec => NoneOverdue
<1>1. ASSUME TimersInv, [Next]_vars
      PROVE  [inIrq /\ ~inIrq' => \A x \in Timers : active[x] => timeout[x] > now]_vars
  <2>. SUFFICES ASSUME Next, inIrq, ~inIrq', NEW x \in Timers, active[x]
                PROVE  timeout[x] > now
    BY <1>1
  <2>0. TypeOK /\ ListSorted
    BY <1>1 DEF TimersInv
  <2>1. IrqEnd
    BY DEF Next, TimerCreate, TimerShutdown, TimerClose, TimerSignal, TimerWrite,
           TimerWaitBlocks, TimerWaitReturns, ThreadExit, CanCall, IrqBegin, IrqExpire
  <2>2. x \in ToSet(timerList) /\ timerList \in Seq(Timers)
    BY <2>0 DEF ListSorted, TypeOK
  <2>3. PICK i \in 1 .. Len(timerList) : timerList[i] = x
    BY <2>2, ToSetElement
  <2>4. Len(timerList) \in Nat /\ timerList # <<>>
    BY <2>2, <2>3, LenProperties, EmptySeq
  <2>5. Head(timerList) = timerList[1] /\ Head(timerList) \in Timers
    BY <2>0, <2>4, HeadOpen DEF TypeOK
  <2>6. timeout[timerList[1]] > now
    <3>1. ~ (timeout[Head(timerList)] <= now)
      BY <2>1, <2>4 DEF IrqEnd, HeadExpired
    <3>2. timeout[Head(timerList)] \in Nat /\ now \in 0 .. MaxTime /\ MaxTime \in Nat
      BY <2>0, <2>5, TimerAssumption DEF TypeOK
    <3>. QED
      BY <2>5, <3>1, <3>2
  <2>7. i = 1 \/ timeout[timerList[1]] <= timeout[x]
    BY <2>0, <2>3, <2>4 DEF ListSorted
  <2>8. timeout[timerList[1]] \in Nat /\ timeout[x] \in Nat /\ now \in 0 .. MaxTime /\ MaxTime \in Nat
    BY <2>0, <2>5, TimerAssumption DEF TypeOK
  <2>. QED
    BY <2>3, <2>6, <2>7, <2>8
<1>. QED
  BY <1>1, TimersInvariant, PTL DEF Spec, NoneOverdue

-----------------------------------------------------------------------------
(* Repeating timers stay on the grid they were started on, as long as the  *)
(* 32-bit product eventCount * interval cannot wrap.                       *)

\* Every interval, and every span of time it may have to make up for, is
\* below 2^32.
NoWrap == \A i \in Intervals : MaxTime + i < Word

\* A multiple of n stays one when a multiple of n is added.
LEMMA OnGrid ==
    ASSUME NEW a \in Int, NEW k \in Int, NEW n \in Nat \ {0}, a % n = 0
    PROVE  (a + k * n) % n = 0
<1>1. a = n * (a \div n)
  OBVIOUS
<1>. DEFINE d == a \div n
<1>2. d \in Int
  OBVIOUS
<1>3. a + k * n = n * (d + k)
  BY <1>1, <1>2
<1>4. (n * (d + k)) % n = 0
  BY <1>2
<1>. QED
  BY <1>3, <1>4

\* What a repeating timer that has expired makes up for.
LEMMA EventsBound ==
    ASSUME NEW a \in Nat, NEW n \in Nat \ {0}
    PROVE  /\ a \div n + 1 \in Nat
           /\ (a \div n + 1) * n \in Nat
           /\ a \div n + 1 <= a + n
           /\ (a \div n + 1) * n <= a + n
  OBVIOUS

\* A number below the modulus is its own remainder.
LEMMA SmallMod == ASSUME NEW m \in Nat, NEW w \in Nat \ {0}, m < w PROVE m % w = m
  OBVIOUS

\* Without a wrap the next timeout lies a whole number of periods later.
LEMMA NextTimeoutOnGrid ==
    ASSUME TypeOK, NoWrap, NEW x \in Timers, timeout[x] <= now, interval[x] > 0
    PROVE  \E k \in Nat : NextTimeout(x) = timeout[x] + k * interval[x]
<1>. DEFINE n == interval[x]
            a == now - timeout[x]
            k == a \div n + 1
<1>1. /\ timeout[x] \in Nat /\ now \in Nat /\ n \in Nat \ {0} /\ Word \in Nat \ {0}
      /\ now <= MaxTime /\ MaxTime \in Nat /\ n \in Intervals
  <2>1. MaxTime \in Nat /\ Word \in Nat \ {0} /\ Intervals \cup {0} \subseteq Nat
    BY TimerAssumption
  <2>2. timeout[x] \in Nat /\ now \in 0 .. MaxTime /\ interval[x] \in Intervals \cup {0}
    BY DEF TypeOK
  <2>. QED
    BY <2>1, <2>2
<1>2. MaxTime + n < Word
  BY <1>1 DEF NoWrap
<1>3. a \in Nat /\ a <= MaxTime
  BY <1>1
<1>. HIDE DEF a, n
<1>4. k \in Nat /\ k * n \in Nat /\ k <= a + n /\ k * n <= a + n
  BY <1>1, <1>3, EventsBound
<1>5. EventCount(x) = k % Word /\ NextTimeout(x) = timeout[x] + ((EventCount(x) * n) % Word)
  BY DEF EventCount, NextTimeout, a, n
<1>. HIDE DEF k
<1>6. k < Word /\ k * n < Word
  BY <1>1, <1>2, <1>3, <1>4
<1>7. k % Word = k
  BY <1>1, <1>4, <1>6, SmallMod
<1>8. (k * n) % Word = k * n
  <2>. DEFINE m == k * n
  <2>1. m \in Nat /\ m < Word
    BY <1>4, <1>6
  <2>. HIDE DEF m
  <2>2. m % Word = m
    BY <1>1, <2>1, SmallMod
  <2>. QED
    BY <2>2 DEF m
<1>. QED
  BY <1>4, <1>5, <1>7, <1>8 DEF n

\* phase and timeout of a timer differ by a multiple of its interval.
GridInv == phase \in [Timers -> Nat] /\ NoDrift

\* An expired timer stays on its grid.
LEMMA ExpireOnGrid ==
    ASSUME TypeOK, GridInv, NoWrap, NEW x \in Timers, timeout[x] <= now, Expire(x),
           interval' = interval, phase' = phase
    PROVE  GridInv'
<1>1. phase' \in [Timers -> Nat]
  BY DEF GridInv
<1>2. ASSUME NEW y \in Timers, interval'[y] > 0
      PROVE  (timeout'[y] - phase'[y]) % interval'[y] = 0
  <2>1. (timeout[y] - phase[y]) % interval[y] = 0
    BY <1>2 DEF GridInv, NoDrift
  <2>2. CASE timeout'[y] = timeout[y]
    BY <2>1, <2>2
  <2>3. CASE y = x /\ timeout' = [timeout EXCEPT ![x] = NextTimeout(x)]
    <3>1. PICK k \in Nat : NextTimeout(x) = timeout[x] + k * interval[x]
      BY <1>2, <2>3, NextTimeoutOnGrid
    <3>2. timeout[x] \in Nat /\ phase[x] \in Nat /\ interval[x] \in Nat \ {0}
      <4>1. timeout[x] \in Nat /\ phase[x] \in Nat
        BY DEF TypeOK, GridInv
      <4>2. interval[x] \in Intervals \cup {0} /\ Intervals \subseteq Nat /\ interval[x] > 0
        BY <1>2, <2>3, TimerAssumption DEF TypeOK
      <4>3. interval[x] \in Nat
        <5>1. Intervals \cup {0} \subseteq Nat
          BY <4>2
        <5>. QED
          BY <4>2, <5>1
      <4>. QED
        BY <4>1, <4>2, <4>3
    <3>. DEFINE a == timeout[x] - phase[x]
    <3>3. a \in Int /\ a % interval[x] = 0
      BY <2>1, <2>3, <3>2
    <3>4. (a + k * interval[x]) % interval[x] = 0
      <4>. DEFINE n == interval[x]
      <4>1. a \in Int /\ n \in Nat \ {0} /\ k \in Int /\ a % n = 0
        BY <3>2, <3>3
      <4>. HIDE DEF a, n
      <4>2. (a + k * n) % n = 0
        BY <4>1, OnGrid
      <4>. QED
        BY <4>2 DEF n
    <3>5. timeout'[x] = timeout[x] + k * interval[x]
      BY <2>3, <3>1 DEF TypeOK
    <3>6. k * interval[x] \in Int
      BY <3>2
    <3>7. timeout'[x] - phase[x] = a + k * interval[x]
      BY <3>2, <3>5, <3>6
    <3>. QED
      BY <2>3, <3>4, <3>7
  <2>4. \/ timeout' = [timeout EXCEPT ![x] = NextTimeout(x)]
        \/ timeout' = timeout
    BY DEF Expire
  <2>5. y # x => timeout'[y] = timeout[y]
    BY <2>4 DEF TypeOK
  <2>. QED
    BY <2>2, <2>3, <2>4, <2>5
<1>. QED
  BY <1>1, <1>2 DEF GridInv, NoDrift

\* Every step keeps the repeating timers on their grids.
LEMMA NextOnGrid ==
    ASSUME NoWrap, TimersInv, GridInv, [Next]_vars
    PROVE  GridInv'
<1>0. TypeOK /\ ListSorted
  BY DEF TimersInv
<1>1. CASE UNCHANGED <<timeout, interval, phase>>
  BY <1>1 DEF GridInv, NoDrift
<1>2. ASSUME NEW t \in Threads, NEW x \in Timers, TimerCreate(t, x) \/ TimerClose(t, x)
      PROVE  GridInv'
  <2>1. /\ timeout' = [timeout EXCEPT ![x] = 0] /\ interval' = [interval EXCEPT ![x] = 0]
        /\ phase' = [phase EXCEPT ![x] = 0]
    BY <1>2 DEF TimerCreate, TimerClose
  <2>2. phase' \in [Timers -> Nat] /\ interval'[x] = 0
    BY <1>0, <2>1 DEF GridInv, TypeOK
  <2>3. \A y \in Timers \ {x} : timeout'[y] = timeout[y] /\ interval'[y] = interval[y]
                                /\ phase'[y] = phase[y]
    BY <1>0, <2>1 DEF GridInv, TypeOK
  <2>. QED
    BY <2>2, <2>3 DEF GridInv, NoDrift
<1>3. ASSUME NEW t \in Threads, NEW x \in Timers, NEW delay \in Timeouts, NEW period \in Intervals,
             TimerWrite(t, x, delay, period)
      PROVE  GridInv'
  <2>. DEFINE when == now + delay
  <2>0. when \in Nat /\ period \in Nat
    <3>1. now \in 0 .. MaxTime /\ MaxTime \in Nat /\ delay \in Nat /\ period \in Nat
      BY <1>0, TimerAssumption DEF TypeOK
    <3>. QED
      BY <3>1
  <2>1. /\ timeout' = [timeout EXCEPT ![x] = when] /\ interval' = [interval EXCEPT ![x] = period]
        /\ phase' = [phase EXCEPT ![x] = when]
    BY <1>3 DEF TimerWrite
  <2>. HIDE DEF when
  <2>2. /\ phase' \in [Timers -> Nat]
        /\ interval'[x] = period /\ timeout'[x] = when /\ phase'[x] = when
    BY <1>0, <2>0, <2>1 DEF GridInv, TypeOK
  <2>3. \A y \in Timers \ {x} : timeout'[y] = timeout[y] /\ interval'[y] = interval[y]
                                /\ phase'[y] = phase[y]
    BY <1>0, <2>1 DEF GridInv, TypeOK
  <2>4. interval'[x] > 0 => (timeout'[x] - phase'[x]) % interval'[x] = 0
    BY <2>0, <2>2
  <2>. QED
    BY <2>2, <2>3, <2>4 DEF GridInv, NoDrift
<1>4. ASSUME NEW t \in Threads, NEW x \in Timers, TimerWaitReturns(t, x)
      PROVE  GridInv'
  BY <1>0, <1>4, ExpireOnGrid DEF TimerWaitReturns
<1>5. CASE IrqExpire
  <2>1. Head(timerList) \in Timers
    BY <1>0, <1>5, HeadOpen DEF IrqExpire, HeadExpired, TypeOK
  <2>. QED
    BY <1>0, <1>5, <2>1, ExpireOnGrid DEF IrqExpire, HeadExpired
<1>6. ASSUME NEW t \in Threads, NEW x \in Timers,
             TimerShutdown(t, x) \/ TimerSignal(t, x) \/ TimerWaitBlocks(t, x)
      PROVE  GridInv'
  BY <1>1, <1>6 DEF TimerShutdown, TimerSignal, TimerWaitBlocks
<1>7. ASSUME NEW t \in Threads, ThreadExit(t) PROVE GridInv'
  BY <1>1, <1>7 DEF ThreadExit
<1>8. CASE IrqBegin \/ IrqEnd \/ UNCHANGED vars
  BY <1>1, <1>8 DEF IrqBegin, IrqEnd, vars
<1>. QED
  BY <1>2, <1>3, <1>4, <1>5, <1>6, <1>7, <1>8, Zenon DEF Next

\* Late interrupts and waits that catch up on several periods do not make a
\* repeating timer drift, for clocks and intervals below 2^32.
THEOREM NoDriftCorrect == ASSUME NoWrap PROVE Spec => []NoDrift
<1>1. Init => GridInv
  <2>1. ASSUME Init PROVE phase \in [Timers -> Nat] /\ \A x \in Timers : interval[x] = 0
    BY <2>1 DEF Init
  <2>. QED
    BY <2>1 DEF GridInv, NoDrift
<1>2. TimersInv /\ GridInv /\ [Next]_vars => GridInv'
  BY NextOnGrid
<1>3. GridInv => NoDrift
  BY DEF GridInv
<1>. QED
  BY <1>1, <1>2, <1>3, TimersInvariant, PTL DEF Spec

-----------------------------------------------------------------------------
(* The interrupt controller.                                               *)

\* A line that lost its callback is masked.
FreedMasked == reserved \ irqTable \subseteq mask

PicInv == LinesSound /\ FreedMasked

\* Eight lines on each chip: 1 << irq always hits the bit of the line itself.
LEMMA MaskBitIsLine ==
    ASSUME NEW line \in Irqs
    PROVE  MaskBit(line) = {line}
<1>1. line \in 0 .. 15
  BY DEF Irqs, IRQ_COUNT
<1>2. CASE line < 8
  BY <1>2 DEF MaskBit
<1>3. CASE line >= 8
  <2>1. line - 8 \in 0 .. 7 /\ 8 + (line - 8) = line
    BY <1>1, <1>3
  <2>2. {line - 8} \cap 0 .. 7 = {line - 8}
    BY <2>1
  <2>3. {8 + bit : bit \in {line - 8} \cap 0 .. 7} = {line}
    BY <2>1, <2>2
  <2>. QED
    BY <1>1, <1>3, <2>3 DEF MaskBit
<1>. QED
  BY <1>1, <1>2, <1>3

\* picInit masks lines of the chips only.
LEMMA InitLines ==
    ASSUME PicInit
    PROVE  PicInv
<1>1. \A n \in Nat : Bits(n) \subseteq 0 .. 7
  BY DEF Bits
<1>2. Bits(15) \subseteq 0 .. 7
  BY <1>1
<1>3. mask \subseteq Irqs
  BY <1>2 DEF PicInit, Irqs, IRQ_COUNT
<1>4. LinesTyped
  BY <1>3, PicAssumption DEF PicInit, LinesTyped
<1>. QED
  BY <1>4 DEF PicInv, LinesSound, ReservedOpen, FreedMasked, PicInit

\* Devices and their drivers.
LEMMA DeviceLines ==
    ASSUME PicInv, NEW line \in Devices,
           Raise(line) \/ PicReserveIRQ(line) \/ PicFreeIRQ(line)
    PROVE  PicInv'
<1>1. MaskBit(line) = {line} /\ line \in Irqs
  BY MaskBitIsLine, PicAssumption
<1>2. CASE Raise(line)
  BY <1>2, PicAssumption DEF Raise, PicInv, LinesSound, LinesTyped, ReservedOpen, FreedMasked
<1>3. CASE PicReserveIRQ(line)
  BY <1>1, <1>3 DEF PicReserveIRQ, PicInv, LinesSound, LinesTyped, ReservedOpen, FreedMasked,
     Irqs, IRQ_COUNT
<1>4. CASE PicFreeIRQ(line)
  BY <1>1, <1>4 DEF PicFreeIRQ, PicInv, LinesSound, LinesTyped, ReservedOpen, FreedMasked,
     Irqs, IRQ_COUNT
<1>. QED
  BY <1>2, <1>3, <1>4

\* The handler; a line that lost its callback does not get here.
LEMMA HandleLines ==
    ASSUME PicInv, NEW line \in Irqs, InterruptIrq(line)
    PROVE  PicInv' /\ (unhandled' \ unhandled) \cap reserved = {}
<1>1. line \in Devices /\ line \notin mask
  BY DEF InterruptIrq, Signalled, PicInv, LinesSound, LinesTyped
<1>2. line \in reserved => line \in irqTable
  BY <1>1 DEF PicInv, FreedMasked
<1>3. PicInv'
  BY <1>1 DEF InterruptIrq, Acknowledged, PicInv, LinesSound, LinesTyped, ReservedOpen,
     FreedMasked, Irqs, IRQ_COUNT
<1>. QED
  BY <1>2, <1>3 DEF InterruptIrq

\* A step keeps the invariant and reports no line that had a callback.
LEMMA NextLines ==
    ASSUME PicInv, [PicNext]_picVars
    PROVE  PicInv' /\ (unhandled' \ unhandled) \cap reserved = {}
<1>1. CASE UNCHANGED picVars
  BY <1>1 DEF picVars, PicInv, LinesSound, LinesTyped, ReservedOpen, FreedMasked, Irqs, IRQ_COUNT
<1>2. ASSUME NEW line \in Devices, Raise(line) \/ PicReserveIRQ(line) \/ PicFreeIRQ(line)
      PROVE  unhandled' = unhandled
  BY <1>2 DEF Raise, PicReserveIRQ, PicFreeIRQ
<1>. QED
  BY <1>1, <1>2, DeviceLines, HandleLines DEF PicNext, Handle

\* The invariant holds of every behaviour.
LEMMA LinesInvariant ==
    PicSpec => []PicInv
<1>1. PicInit => PicInv
  BY InitLines
<1>2. PicInv /\ [PicNext]_picVars => PicInv'
  BY NextLines
<1>. QED
  BY <1>1, <1>2, PTL DEF PicSpec

\* The masks of both chips agree with the table of callbacks.
THEOREM LinesCorrect ==
    PicSpec => []LinesSound
<1>1. PicInv => LinesSound
  BY DEF PicInv
<1>. QED
  BY <1>1, LinesInvariant, PTL

\* No interrupt arrives without a callback on a line that once had one.
THEOREM FreedCorrect ==
    PicSpec => FreedQuiet
<1>1. PicInv /\ [PicNext]_picVars => [(unhandled' \ unhandled) \cap reserved = {}]_picVars
  BY NextLines
<1>. QED
  BY <1>1, LinesInvariant, PTL DEF PicSpec, FreedQuiet

-----------------------------------------------------------------------------
(* The FPU.                                                                *)

\* A start in which no thread has used the FPU satisfies the invariant.
LEMMA InitFpu == FpuInit => FpuInv
  BY FpuAssumption
  DEF FpuInit, FpuInv, FpuTyped, DamageConfined, StateKept, OwnerRuns, TrapsFor,
      OwnerInitialized, Causes

\* Another thread is given the processor.
LEMMA RunInv ==
    ASSUME NEW t \in Tasks, FpuInv, Run(t)
    PROVE  FpuInv'
<1>1. FpuTyped'
  BY DEF FpuInv, FpuTyped, Run, TrapsFor
<1>2. DamageConfined' /\ OwnerInitialized'
  BY DEF FpuInv, DamageConfined, OwnerInitialized, Run
<1>3. StateKept'
  BY DEF FpuInv, StateKept, Run
<1>4. OwnerRuns'
  BY DEF FpuInv, FpuTyped, OwnerRuns, Run, TrapsFor
<1>. QED
  BY <1>1, <1>2, <1>3, <1>4 DEF FpuInv

\* A thread that runs without the trap owns the registers, so it finds there
\* what it left, unless something damaged its state before.
LEMMA ComputeInv ==
    ASSUME NEW t \in Tasks, NEW v \in Contents, FpuInv, Compute(t, v)
    PROVE  FpuInv'
<1>1. lastFPUthread = t /\ t \in alive
  BY DEF FpuInv, OwnerRuns, TrapsFor, Compute
<1>2. cause[t] = "none" => regs = expect[t]
  BY <1>1 DEF FpuInv, StateKept
<1>3. FpuTyped'
  BY DEF FpuInv, FpuTyped, Causes, Compute
<1>4. DamageConfined'
  BY <1>2 DEF FpuInv, DamageConfined, Compute
<1>5. StateKept'
  BY <1>1 DEF FpuInv, FpuTyped, StateKept, Compute
<1>6. OwnerRuns'
  BY DEF FpuInv, OwnerRuns, TrapsFor, Compute
<1>7. OwnerInitialized'
  BY <1>1 DEF FpuInv, FpuTyped, OwnerInitialized, Compute
<1>. QED
  BY <1>3, <1>4, <1>5, <1>6, <1>7 DEF FpuInv

\* The trap: the old owner's registers go to its memory, the new one's come
\* from there.  They are two threads, since the owner runs without the trap.
LEMMA NotAvailableInv ==
    ASSUME NEW t \in Tasks, FpuInv, NotAvailable(t)
    PROVE  FpuInv'
<1>1. FpuTyped'
  BY DEF FpuInv, FpuTyped, NotAvailable, Saved
<1>2. DamageConfined'
  BY DEF FpuInv, DamageConfined, NotAvailable
<1>3. lastFPUthread # t
  BY DEF FpuInv, OwnerRuns, TrapsFor, NotAvailable
<1>4. StateKept'
  <2>. SUFFICES ASSUME NEW u \in alive, cause[u] = "none"
                PROVE  IF u = t THEN regs' = expect[u]
                       ELSE expect[u] = IF fpuInitialized'[u] THEN fpu'[u] ELSE Fresh
    BY DEF StateKept, NotAvailable
  <2>. u \in Tasks /\ u # None
    BY FpuAssumption DEF FpuInv, FpuTyped
  <2>1. CASE u = t
    BY <2>1, <1>3 DEF FpuInv, StateKept, NotAvailable
  <2>2. CASE u = lastFPUthread
    <3>1. fpuInitialized'[u] /\ fpu'[u] = regs
      BY <2>2, <1>3 DEF FpuInv, FpuTyped, OwnerInitialized, NotAvailable, Saved
    <3>2. regs = expect[u]
      BY <2>2 DEF FpuInv, StateKept
    <3>. QED
      BY <3>1, <3>2, <2>2, <1>3
  <2>3. CASE u # t /\ u # lastFPUthread
    <3>1. fpuInitialized'[u] = fpuInitialized[u] /\ fpu'[u] = fpu[u]
      BY <2>3 DEF FpuInv, FpuTyped, NotAvailable, Saved
    <3>. QED
      BY <3>1, <2>3 DEF FpuInv, StateKept
  <2>. QED
    BY <2>1, <2>2, <2>3
<1>5. OwnerRuns'
  BY DEF FpuInv, FpuTyped, OwnerRuns, TrapsFor, NotAvailable
<1>6. OwnerInitialized'
  BY DEF FpuInv, FpuTyped, OwnerInitialized, NotAvailable
<1>. QED
  BY <1>1, <1>2, <1>4, <1>5, <1>6 DEF FpuInv
\* What the ends of a thread share: whatever it held is forgotten, and what
\* others have in their memory stays; only the registers of a thread that is
\* not the owner may change.
LEMMA ForgetInv ==
    ASSUME NEW t \in Tasks, FpuInv, t \in alive, lastFPUthread = t \/ regs' = regs,
           regs' \in Contents \cup {Fresh}, fpu' \in [Tasks -> Contents \cup {Fresh}],
           \A u \in Tasks : u # t => fpu'[u] = fpu[u],
           alive' = alive \ {t}, lastFPUthread' = Forget(t),
           cause' = [cause EXCEPT ![t] = "none"], expect' = [expect EXCEPT ![t] = Fresh],
           UNCHANGED <<ts, current, fpuInitialized, wrong>>
    PROVE  FpuInv'
<1>. USE FpuAssumption
<1>1. FpuTyped'
  BY DEF FpuInv, FpuTyped, Forget, Causes
<1>2. DamageConfined'
  BY DEF FpuInv, DamageConfined
<1>3. StateKept'
  BY DEF FpuInv, FpuTyped, StateKept, Forget
<1>4. OwnerRuns'
  BY DEF FpuInv, FpuTyped, OwnerRuns, TrapsFor, Forget
<1>5. OwnerInitialized'
  BY DEF FpuInv, FpuTyped, OwnerInitialized, Forget
<1>. QED
  BY <1>1, <1>2, <1>3, <1>4, <1>5 DEF FpuInv

\* A thread ends.
LEMMA ExitInv ==
    ASSUME NEW t \in Tasks, FpuInv, Exit(t)
    PROVE  FpuInv'
  BY ForgetInv DEF Exit, FpuInv, FpuTyped

\* A thread ends by an exception of the FPU, which it has to own for that.
LEMMA ExceptionInv ==
    ASSUME NEW t \in Tasks, FpuInv, Exception(t)
    PROVE  FpuInv'
<1>1. lastFPUthread = t /\ t # None
  BY FpuAssumption DEF Exception, FpuInv, OwnerRuns, TrapsFor
<1>2. fpu' = [fpu EXCEPT ![t] = regs]
  BY <1>1 DEF Exception, Saved
<1>3. /\ regs' \in Contents \cup {Fresh} /\ fpu' \in [Tasks -> Contents \cup {Fresh}]
      /\ \A u \in Tasks : u # t => fpu'[u] = fpu[u]
  BY <1>2 DEF Exception, FpuInv, FpuTyped
<1>4. /\ t \in alive /\ alive' = alive \ {t} /\ lastFPUthread' = Forget(t)
      /\ cause' = [cause EXCEPT ![t] = "none"] /\ expect' = [expect EXCEPT ![t] = Fresh]
      /\ UNCHANGED <<ts, current, fpuInitialized, wrong>>
  BY DEF Exception
<1>. QED
  BY <1>1, <1>3, <1>4, ForgetInv, ZenonT(20)

\* A thread starts another one, which has not used the FPU.
LEMMA CreateInv ==
    ASSUME NEW t \in Tasks, NEW c \in Tasks, FpuInv, Create(t, c)
    PROVE  FpuInv'
<1>. USE FpuAssumption
<1>1. lastFPUthread # c
  BY DEF FpuInv, FpuTyped, Create
<1>2. FpuTyped'
  BY DEF FpuInv, FpuTyped, Create, Causes
<1>3. DamageConfined'
  BY DEF FpuInv, DamageConfined, Create
<1>4. StateKept'
  BY <1>1 DEF FpuInv, FpuTyped, StateKept, Create
<1>5. OwnerRuns'
  BY DEF FpuInv, OwnerRuns, TrapsFor, Create
<1>6. OwnerInitialized'
  BY <1>1 DEF FpuInv, FpuTyped, OwnerInitialized, Create
<1>. QED
  BY <1>2, <1>3, <1>4, <1>5, <1>6 DEF FpuInv

\* A fork: the child gets the state from wherever the original's is.  The
\* original loses its own when it is in the registers, and is marked for it.
LEMMA ForkInv ==
    ASSUME NEW t \in Tasks, NEW c \in Tasks, FpuInv, Fork(t, c)
    PROVE  FpuInv'
<1>. USE FpuAssumption
<1>. DEFINE saves == fpuInitialized[t] /\ lastFPUthread = t
<1>1. t \in alive /\ c \notin alive /\ c # t /\ lastFPUthread # c
  BY DEF FpuInv, FpuTyped, Fork
<1>2. /\ alive' = alive \cup {c} /\ lastFPUthread' = lastFPUthread
      /\ fpuInitialized' = [fpuInitialized EXCEPT ![c] = fpuInitialized[t]]
      /\ expect' = [expect EXCEPT ![c] = expect[t]]
      /\ fpu' = IF fpuInitialized[t]
                THEN [fpu EXCEPT ![t] = Copied(t), ![c] = Copied(t)] ELSE fpu
      /\ regs' = IF saves THEN Fresh ELSE regs
      /\ cause' = [cause EXCEPT ![c] = cause[t],
                                ![t] = IF saves /\ @ = "none" THEN "fork" ELSE @]
  BY DEF Fork
<1>3. Copied(t) \in Contents \cup {Fresh}
  BY DEF Copied, FpuInv, FpuTyped
<1>4. FpuTyped'
  <2>1. cause[t] \in Causes /\ "fork" \in Causes /\ cause' \in [Tasks -> Causes]
    BY <1>2 DEF FpuInv, FpuTyped, Causes
  <2>. QED
    BY <1>2, <1>3, <2>1 DEF FpuInv, FpuTyped, Fork
<1>5. DamageConfined'
  BY DEF FpuInv, DamageConfined, Fork
<1>6. StateKept'
  <2>. SUFFICES ASSUME NEW u \in alive \cup {c}, cause'[u] = "none"
                PROVE  IF lastFPUthread = u THEN regs' = expect'[u]
                       ELSE expect'[u] = IF fpuInitialized'[u] THEN fpu'[u] ELSE Fresh
    BY <1>2 DEF StateKept
  <2>. u \in Tasks
    BY DEF FpuInv, FpuTyped
  <2>1. CASE u = c
    <3>1. cause[t] = "none" /\ expect'[c] = expect[t] /\ fpuInitialized'[c] = fpuInitialized[t]
      BY <2>1, <1>1, <1>2 DEF FpuInv, FpuTyped
    <3>2. CASE fpuInitialized[t]
      <4>1. fpu'[c] = Copied(t)
        BY <3>2, <1>1, <1>2 DEF FpuInv, FpuTyped
      <4>2. Copied(t) = expect[t]
        BY <3>1, <3>2, <1>1 DEF FpuInv, StateKept, Copied
      <4>. QED
        BY <2>1, <3>1, <3>2, <4>1, <4>2, <1>1
    <3>3. CASE ~fpuInitialized[t]
      <4>1. lastFPUthread # t
        BY <3>1, <3>3 DEF FpuInv, OwnerInitialized
      <4>2. expect[t] = Fresh
        BY <3>1, <3>3, <4>1, <1>1 DEF FpuInv, StateKept
      <4>. QED
        BY <2>1, <3>1, <3>3, <4>2, <1>1
    <3>. QED
      BY <3>2, <3>3
  <2>2. CASE u = t
    <3>1. ~saves /\ cause[t] = "none" /\ expect'[t] = expect[t]
          /\ fpuInitialized'[t] = fpuInitialized[t]
      BY <2>2, <1>1, <1>2 DEF FpuInv, FpuTyped
    <3>2. regs' = regs /\ (fpuInitialized[t] => fpu'[t] = fpu[t])
      BY <3>1, <1>1, <1>2 DEF FpuInv, FpuTyped, Copied
    <3>. QED
      BY <2>2, <3>1, <3>2, <1>1 DEF FpuInv, StateKept
  <2>3. CASE u # c /\ u # t
    <3>1. cause[u] = "none" /\ expect'[u] = expect[u] /\ fpu'[u] = fpu[u]
          /\ fpuInitialized'[u] = fpuInitialized[u] /\ u \in alive
      BY <2>3, <1>1, <1>2 DEF FpuInv, FpuTyped
    <3>2. lastFPUthread = u => regs' = regs
      BY <2>3, <1>2
    <3>. QED
      BY <3>1, <3>2 DEF FpuInv, StateKept
  <2>. QED
    BY <2>1, <2>2, <2>3
<1>7. OwnerRuns'
  BY DEF FpuInv, OwnerRuns, TrapsFor, Fork
<1>8. OwnerInitialized'
  BY <1>1, <1>2 DEF FpuInv, FpuTyped, OwnerInitialized
<1>. QED
  BY <1>4, <1>5, <1>6, <1>7, <1>8 DEF FpuInv

\* A new program: what its thread has in memory no longer counts, and what
\* it has in the registers is marked.
LEMMA ExecuteInv ==
    ASSUME NEW t \in Tasks, FpuInv, Execute(t)
    PROVE  FpuInv'
<1>1. FpuTyped'
  BY DEF FpuInv, FpuTyped, Execute, Causes
<1>2. DamageConfined' /\ OwnerRuns'
  BY DEF FpuInv, DamageConfined, OwnerRuns, TrapsFor, Execute
<1>3. StateKept'
  BY DEF FpuInv, FpuTyped, StateKept, Execute
<1>4. OwnerInitialized'
  BY DEF FpuInv, FpuTyped, OwnerInitialized, Execute
<1>. QED
  BY <1>1, <1>2, <1>3, <1>4 DEF FpuInv

-----------------------------------------------------------------------------

\* The invariant holds of every thread in every state, whatever threads start,
\* fork, are replaced, trap and end in which order.
THEOREM FpuInvariant == FpuSpec => []FpuInv
<1>1. FpuInv /\ [FpuNext]_fpuVars => FpuInv'
  <2>. SUFFICES ASSUME FpuInv, [FpuNext]_fpuVars PROVE FpuInv'
    OBVIOUS
  <2>1. CASE UNCHANGED fpuVars
    BY <2>1 DEF fpuVars, FpuInv, FpuTyped, DamageConfined, StateKept, OwnerRuns, TrapsFor,
                OwnerInitialized
  <2>2. CASE FpuNext
    BY <2>2, RunInv, NotAvailableInv, ExitInv, ExceptionInv, ExecuteInv, ComputeInv,
       CreateInv, ForkInv DEF FpuNext
  <2>. QED
    BY <2>1, <2>2
<1>. QED
  BY InitFpu, <1>1, PTL DEF FpuSpec

\* The registers belong to a thread that exists, or to none: the end of a
\* thread in every case takes back the pointer that the next trap follows.
THEOREM FpuTypeCorrect == FpuSpec => []FpuTyped
<1>1. FpuInv => FpuTyped
  BY DEF FpuInv
<1>. QED
  BY FpuInvariant, <1>1, PTL

\* A thread that was not damaged by its own fork or by its own new program
\* finds in the FPU what it left there.
THEOREM DamageStaysConfined == FpuSpec => []DamageConfined
<1>1. FpuInv => DamageConfined
  BY DEF FpuInv
<1>. QED
  BY FpuInvariant, <1>1, PTL

-----------------------------------------------------------------------------
(* Exit codes.                                                             *)

\* What is known about exit codes between two system calls.
CodesInv == CodesTyped /\ ThreadCodeKept /\ EndCode /\ NoneLeftWaiting

\* At the start nobody has ended, and every process has a thread.
LEMMA InitCodes ==
    ASSUME CodesInit
    PROVE  CodesInv
<1>1. CodesTyped /\ ThreadCodeKept /\ NoneLeftWaiting
  BY DEF CodesInit, CodesTyped, ThreadCodeKept, NoneLeftWaiting
<1>2. \A p \in Procs : ~ Ended(p)
  BY ExitCodesAssumption DEF CodesInit, Ended, Members
<1>. QED
  BY <1>1, <1>2 DEF CodesInv, EndCode

\* What a shutdown hands to End: threads that have not ended, and a process
\* exactly when its last threads are among them.
Complete(ending) ==
    /\ ending \subseteq Objects
    /\ ending \cap ended = {}
    /\ \A p \in Procs : p \in ending => Members(p) \subseteq ended \cup ending
    /\ \A p \in Procs : Members(p) \subseteq ended \cup ending => p \in ending \/ Ended(p)

\* A thread that ends takes its process along if it is the last one.
LEMMA WithLastComplete ==
    ASSUME CodesInv, NEW t \in Users, t \notin ended
    PROVE  Complete(WithLast(t))
<1>1. Owner[t] \in Procs /\ Users \cap Procs = {}
  BY ExitCodesAssumption
<1>2. ended \subseteq Users
  BY DEF CodesInv, CodesTyped
<1>3. WithLast(t) \subseteq Objects /\ WithLast(t) \cap ended = {}
  BY <1>1, <1>2 DEF WithLast, Objects
<1>4. ASSUME NEW p \in Procs, p \in WithLast(t)
      PROVE  Members(p) \subseteq ended \cup WithLast(t)
  BY <1>1, <1>4 DEF WithLast, Members
<1>5. ASSUME NEW p \in Procs, Members(p) \subseteq ended \cup WithLast(t)
      PROVE  p \in WithLast(t) \/ Ended(p)
  <2>1. Members(p) \subseteq Users /\ (t \in Members(p) => Owner[t] = p)
    BY DEF Members
  <2>2. Members(p) \subseteq ended \cup {t}
    BY <1>1, <1>5, <2>1 DEF WithLast
  <2>3. CASE t \in Members(p)
    BY <2>1, <2>2, <2>3 DEF WithLast
  <2>4. CASE t \notin Members(p)
    BY <1>1, <2>2, <2>4 DEF Ended
  <2>. QED
    BY <2>3, <2>4
<1>. QED
  BY <1>3, <1>4, <1>5 DEF Complete

\* A process that is shut down takes the threads that are left along.
LEMMA ProcessComplete ==
    ASSUME CodesInv, NEW p \in Procs
    PROVE  Complete({p} \cup (Members(p) \ ended))
<1>1. Users \cap Procs = {} /\ ended \subseteq Users
  BY ExitCodesAssumption DEF CodesInv, CodesTyped
<1>2. \A q \in Procs : Members(q) \subseteq Users /\ (q # p => Members(q) \cap Members(p) = {})
  BY DEF Members
<1>. QED
  BY <1>1, <1>2 DEF Complete, Objects, Ended

\* Who has ended after End is who had ended before or ends now.
LEMMA EndedAfter ==
    ASSUME CodesInv, NEW ending, Complete(ending),
           NEW c \in Codes, End(ending, c), NEW o \in Objects
    PROVE  Ended(o)' <=> Ended(o) \/ o \in ending
<1>1. Users \cap Procs = {} /\ ended \subseteq Users
  BY ExitCodesAssumption DEF CodesInv, CodesTyped
<1>2. ended' = ended \cup (ending \cap Users)
  BY DEF End
<1>3. CASE o \in Users
  BY <1>2, <1>3 DEF Ended
<1>4. CASE o \in Procs
  <2>1. Members(o)' = Members(o) /\ Members(o) \subseteq Users
    BY DEF Members
  <2>. QED
    BY <1>1, <1>2, <1>4, <2>1 DEF Ended, Complete
<1>. QED
  BY <1>3, <1>4 DEF Objects

\* Ending objects that are complete in this sense keeps the invariant.
LEMMA EndCodes ==
    ASSUME CodesInv, NEW ending, Complete(ending),
           NEW c \in Codes, End(ending, c)
    PROVE  CodesInv'
<1>. DEFINE gone == ended \cup (ending \cap Users)
<1>1. Users \cap Procs = {} /\ ended \subseteq Users /\ NoResult \notin Objects
  BY ExitCodesAssumption DEF CodesInv, CodesTyped
<1>2. /\ ended' = gone
      /\ exitcode' = [o \in Objects |-> IF o \in ending THEN c ELSE exitcode[o]]
      /\ first' = [p \in Procs |-> IF p \in ending /\ ~ Ended(p) THEN c ELSE first[p]]
      /\ waits' = [t \in Users |-> IF t \in gone \/ waits[t] \in ending THEN NoResult ELSE waits[t]]
      /\ told' = [t \in Users |->
                     IF t \in gone THEN NoResult
                     ELSE IF waits[t] \in ending THEN Result(waits[t], c, "end") ELSE told[t]]
  BY DEF End, WakeAll
<1>3. CodesTyped'
  <2>1. /\ exitcode \in [Objects -> Codes \cup {Unset}]
        /\ waits \in [Users -> Objects \cup {NoResult}]
        /\ first \in [Procs -> Codes \cup {Unset}]
        /\ told \in [Users -> {NoResult} \cup
              [of : Objects, code : Codes \cup {Unset}, by : {"end", "query", "signal"}]]
        /\ ending \subseteq Objects
    BY DEF CodesInv, CodesTyped, Complete
  <2>2. exitcode' \in [Objects -> Codes \cup {Unset}] /\ first' \in [Procs -> Codes \cup {Unset}]
    BY <1>2, <2>1
  <2>3. ended' \subseteq Users /\ waits' \in [Users -> Objects \cup {NoResult}]
    BY <1>1, <1>2, <2>1
  <2>4. \A t \in Users : waits[t] \in ending => Result(waits[t], c, "end") \in
              [of : Objects, code : Codes \cup {Unset}, by : {"end", "query", "signal"}]
    BY <2>1 DEF Result
  <2>5. told' \in [Users -> {NoResult} \cup
              [of : Objects, code : Codes \cup {Unset}, by : {"end", "query", "signal"}]]
    BY <1>2, <2>1, <2>4, Zenon
  <2>. QED
    BY <2>2, <2>3, <2>5 DEF CodesTyped, Objects, Unset
<1>4. ThreadCodeKept'
  <2>. SUFFICES ASSUME NEW t \in Users, told'[t] # NoResult, told'[t].by = "end",
                       told'[t].of \in Users
                PROVE  told'[t].of \in ended' /\ exitcode'[told'[t].of] = told'[t].code
    BY DEF ThreadCodeKept
  <2>1. t \notin gone
    BY <1>2
  <2>2. CASE waits[t] \in ending
    BY <1>2, <2>1, <2>2 DEF Result, Objects
  <2>3. CASE waits[t] \notin ending
    <3>1. told'[t] = told[t]
      BY <1>2, <2>1, <2>3
    <3>2. told[t].of \in ended /\ exitcode[told[t].of] = told[t].code
      BY <3>1 DEF CodesInv, ThreadCodeKept
    <3>. QED
      BY <1>2, <3>1, <3>2 DEF Complete, Objects
  <2>. QED
    BY <2>2, <2>3
<1>5. EndCode'
  <2>. SUFFICES ASSUME NEW p \in Procs, Ended(p)'
                PROVE  \E t \in Members(p)' : first'[p] = exitcode'[t]
    BY DEF EndCode
  <2>1. Members(p)' = Members(p) /\ Members(p) \subseteq Users
    BY DEF Members
  <2>2. CASE Ended(p)
    <3>1. PICK t \in Members(p) : first[p] = exitcode[t]
      BY <2>2 DEF CodesInv, EndCode
    <3>2. t \in ended
      BY <1>1, <2>1, <2>2 DEF Ended
    <3>3. t \notin ending
      BY <3>2 DEF Complete
    <3>. QED
      BY <1>2, <2>1, <2>2, <3>1, <3>3 DEF Objects
  <2>3. CASE ~ Ended(p)
    <3>1. p \in ending
      BY <2>3, EndedAfter DEF Objects
    <3>2. PICK t \in Members(p) : t \notin ended
      BY <1>1, <2>3 DEF Ended
    <3>3. t \in ending
      BY <3>1, <3>2 DEF Complete
    <3>. QED
      BY <1>2, <2>1, <2>3, <3>1, <3>3 DEF Objects
  <2>. QED
    BY <2>2, <2>3
<1>6. NoneLeftWaiting'
  <2>. SUFFICES ASSUME NEW t \in Users, waits'[t] # NoResult
                PROVE  ~ Ended(waits[t])'
    BY DEF NoneLeftWaiting
  <2>1. waits'[t] = waits[t] /\ waits[t] \notin ending
    BY <1>2
  <2>2. waits[t] \in Objects /\ ~ Ended(waits[t])
    BY <2>1 DEF CodesInv, CodesTyped, NoneLeftWaiting
  <2>3. PICK o \in Objects : o = waits[t]
    BY <2>2
  <2>4. ~ Ended(o) /\ o \notin ending
    BY <2>1, <2>2, <2>3
  <2>5. Ended(o)' <=> Ended(o) \/ o \in ending
    BY EndedAfter
  <2>6. Ended(waits[t])' <=> Ended(o)'
    BY <2>1, <2>3 DEF Ended
  <2>. QED
    BY <2>4, <2>5, <2>6
<1>. QED
  BY <1>3, <1>4, <1>5, <1>6 DEF CodesInv

\* A wait or a query of something that has ended reports its exit code.
LEMMA ReportCodes ==
    ASSUME CodesInv, NEW t \in Users, NEW o \in Objects,
           Wait(t, o) \/ GetStatus(t, o)
    PROVE  CodesInv'
<1>. DEFINE Reports == [of : Objects, code : Codes \cup {Unset}, by : {"end", "query", "signal"}]
<1>1. /\ exitcode \in [Objects -> Codes \cup {Unset}]
      /\ waits \in [Users -> Objects \cup {NoResult}]
      /\ told \in [Users -> {NoResult} \cup Reports]
  BY DEF CodesInv, CodesTyped
<1>2. /\ Result(o, exitcode[o], "end") \in Reports /\ Result(o, Unset, "query") \in Reports
      /\ Result(o, Unset, "query").by # "end"
  BY <1>1 DEF Result
<1>3. UNCHANGED <<ended, exitcode, first>>
  BY DEF Wait, GetStatus
<1>4. PICK r \in {NoResult} \cup Reports :
        /\ told' = [told EXCEPT ![t] = r]
        /\ r # NoResult /\ r.by = "end" => r.of = o /\ r.code = exitcode[o] /\ Ended(o)
  <2>1. CASE Ended(o)
    BY <1>2, <2>1 DEF Wait, GetStatus, Result
  <2>2. CASE ~ Ended(o)
    BY <1>2, <2>2 DEF Wait, GetStatus
  <2>. QED
    BY <2>1, <2>2
<1>5. UNCHANGED waits \/ (waits' = [waits EXCEPT ![t] = o] /\ ~ Ended(o))
  BY DEF Wait, GetStatus
<1>6. CodesTyped'
  <2>1. told' \in [Users -> {NoResult} \cup Reports]
    BY <1>1, <1>4
  <2>2. waits' \in [Users -> Objects \cup {NoResult}]
    BY <1>1, <1>5
  <2>. QED
    BY <1>3, <2>1, <2>2 DEF CodesInv, CodesTyped, Objects, Unset
<1>7. ThreadCodeKept'
  <2>. SUFFICES ASSUME NEW u \in Users, told'[u] # NoResult, told'[u].by = "end",
                       told'[u].of \in Users
                PROVE  told'[u].of \in ended' /\ exitcode'[told'[u].of] = told'[u].code
    BY DEF ThreadCodeKept
  <2>1. CASE u = t
    BY <1>1, <1>3, <1>4, <2>1 DEF Ended
  <2>2. CASE u # t
    BY <1>1, <1>3, <1>4, <2>2 DEF CodesInv, ThreadCodeKept
  <2>. QED
    BY <2>1, <2>2
<1>8. EndCode'
  BY <1>3 DEF CodesInv, EndCode, Ended, Members
<1>9. NoneLeftWaiting'
  <2>. SUFFICES ASSUME NEW u \in Users, waits'[u] # NoResult
                PROVE  ~ Ended(waits[u])'
    BY DEF NoneLeftWaiting
  <2>1. ~ Ended(waits'[u])
    BY <1>1, <1>5 DEF CodesInv, NoneLeftWaiting
  <2>. QED
    BY <1>3, <2>1 DEF Ended, Members
<1>. QED
  BY <1>6, <1>7, <1>8, <1>9 DEF CodesInv

\* A signal ends a wait; what the thread is told is no exit code.
LEMMA SignalCodes ==
    ASSUME CodesInv, NEW t \in Users, NEW u \in Users, NEW c \in Codes,
           Signal(t, u, c)
    PROVE  CodesInv'
<1>1. CodesTyped'
  BY DEF CodesInv, CodesTyped, Signal, Result, Objects, Unset
<1>2. ThreadCodeKept'
  BY DEF CodesInv, CodesTyped, ThreadCodeKept, Signal, Result
<1>3. EndCode'
  BY DEF CodesInv, EndCode, Ended, Members, Signal
<1>4. NoneLeftWaiting'
  BY DEF CodesInv, CodesTyped, NoneLeftWaiting, Ended, Members, Signal
<1>. QED
  BY <1>1, <1>2, <1>3, <1>4 DEF CodesInv

\* Every step keeps the invariant.
LEMMA NextCodes ==
    ASSUME CodesInv, [CodesNext]_codeVars
    PROVE  CodesInv'
<1>1. CASE UNCHANGED codeVars
  BY <1>1 DEF codeVars, CodesInv, CodesTyped, ThreadCodeKept, EndCode, NoneLeftWaiting,
              Ended, Members, Objects, Unset
<1>2. ASSUME NEW t \in Users, NEW o \in Objects, NEW c \in Codes, Shutdown(t, o, c)
      PROVE  CodesInv'
  <2>1. CASE o \in Users
    BY <1>2, <2>1, WithLastComplete, EndCodes DEF Shutdown, ThreadShutdown
  <2>2. CASE o \notin Users
    BY <1>2, <2>2, ProcessComplete, EndCodes DEF Shutdown, ProcessShutdown, Objects
  <2>. QED
    BY <2>1, <2>2
<1>. QED
  BY <1>1, <1>2, ReportCodes, SignalCodes DEF CodesNext

\* The invariant holds of every behaviour.
LEMMA CodesInvariant ==
    CodesSpec => []CodesInv
<1>1. CodesInit => CodesInv
  BY InitCodes
<1>2. CodesInv /\ [CodesNext]_codeVars => CodesInv'
  BY NextCodes
<1>. QED
  BY <1>1, <1>2, PTL DEF CodesSpec

\* Exit codes of threads are final, and the code of a process that ends comes
\* from one of its threads (process/thread.c, process/process.c).
THEOREM CodesCorrect ==
    CodesSpec => []CodesSound
<1>1. CodesInv => CodesSound
  BY DEF CodesInv, CodesSound
<1>. QED
  BY <1>1, CodesInvariant, PTL

\* Nobody is left waiting for a thread or a process that has ended.
THEOREM WaitsCorrect ==
    CodesSpec => []NoneLeftWaiting
<1>1. CodesInv => NoneLeftWaiting
  BY DEF CodesInv
<1>. QED
  BY <1>1, CodesInvariant, PTL
=============================================================================
