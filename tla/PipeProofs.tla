----------------------------- MODULE PipeProofs -----------------------------
(***************************************************************************)
(* Proofs about Pipe, for every set of threads, every pair of buffer sizes *)
(* and every set of strings written and lengths read.                      *)
(***************************************************************************)
EXTENDS Pipe, CommonTheorems, SequenceTheorems, TLAPS

\* The inductive invariant: the three invariants of Pipe need each other.
\* A waiting writer implies a full buffer, a full buffer is one of maximal
\* size, and a buffer of maximal size is the only one that cannot grow.
IInv == TypeOK /\ BufferSound /\ NoLostWakeup

-----------------------------------------------------------------------------
(* Buffers *)

\* Cutting a piece out of a sequence gives a sequence of the expected length.
LEMMA SubSeqType ==
    ASSUME NEW S, NEW s \in Seq(S), NEW m \in Nat, NEW n \in Nat,
           m <= n, n <= Len(s)
    PROVE  /\ SubSeq(s, m + 1, n) \in Seq(S)
           /\ Len(SubSeq(s, m + 1, n)) = n - m
           /\ \A i \in 1 .. n - m : SubSeq(s, m + 1, n)[i] = s[m + i]
<1>1. Len(s) \in Nat /\ \A i \in 1 .. Len(s) : s[i] \in S
  BY LenProperties, ElementOfSeq
<1>2. \A i \in m + 1 .. n : s[i] \in S
  BY <1>1
<1>3. /\ SubSeq(s, m + 1, n) \in Seq(S)
      /\ Len(SubSeq(s, m + 1, n)) = IF m + 1 <= n THEN n - (m + 1) + 1 ELSE 0
      /\ \A i \in 1 .. n - (m + 1) + 1 : SubSeq(s, m + 1, n)[i] = s[(m + 1) + i - 1]
  <2>1. m + 1 \in Int /\ n \in Int
    OBVIOUS
  <2>. QED
    BY <1>2, <2>1, SubSeqProperties
<1>. QED
  BY <1>3

\* A write that has to grow the buffer finds a legal size that is large
\* enough: the doubling loop of __pipeWrite ends at or below the maximum.
LEMMA NewSizeSound ==
    ASSUME size \in Sizes, NEW w \in Nat, size < w, w <= MAX_SIZE
    PROVE  NewSize(w) \in Sizes /\ NewSize(w) >= w
<1>. USE PipeAssumption
<1>. DEFINE large == {n \in Sizes : n >= 2 * size /\ n >= w}
<1>1. Sizes \subseteq 1 .. MAX_SIZE
  BY DEF Sizes
<1>2. 2 * size \in Sizes /\ MAX_SIZE \in Sizes
  BY <1>1, SizesAssumption
<1>3. MAX_SIZE >= 2 * size
  BY <1>1, <1>2
<1>4. MAX_SIZE \in large
  BY <1>2, <1>3
<1>5. \A n \in Sizes : n \in Nat
  BY <1>1
<1>6. large \in SUBSET Nat
  BY <1>5, Zenon
<1>7. Min(large) \in large
  BY <1>4, <1>6, MinNat
<1>. QED
  BY <1>7 DEF NewSize

\* The bytes between the two positions, as a sequence.
LEMMA ContentType ==
    ASSUME TypeOK, BufferSound
    PROVE  /\ Content \in Seq(Byte) /\ Len(Content) = used /\ used \in Nat
           /\ \A i \in 1 .. used : Content[i] = buffer[readPos + i]
<1>1. writePos \in Nat /\ readPos \in Nat /\ readPos <= writePos
  BY LenProperties DEF TypeOK, BufferSound, writePos
<1>. QED
  BY <1>1, SubSeqType DEF TypeOK, Content, writePos, used

\* No buffer holds more than the maximum.
LEMMA UsedBound ==
    ASSUME TypeOK, BufferSound
    PROVE  /\ used \in Nat /\ used <= size /\ used <= writePos /\ writePos <= size
           /\ size \in Nat /\ size <= MAX_SIZE /\ writePos \in Nat /\ readPos \in Nat
           /\ readPos <= writePos
<1>1. writePos \in Nat
  BY LenProperties DEF TypeOK, writePos
<1>2. size <= MAX_SIZE
  BY PipeAssumption DEF TypeOK, BufferSound, Sizes
<1>. QED
  BY <1>1, <1>2 DEF TypeOK, BufferSound, used

\* The largest buffer holds at least one byte.
LEMMA MaxPositive == MAX_SIZE \in Nat /\ 1 <= MAX_SIZE
BY PipeAssumption, SizesAssumption DEF Sizes

\* Waking threads with a legal answer leaves legal answers behind.
LEMMA WakeupType ==
    ASSUME TypeOK, NEW t \in Threads, NEW queue,
           NEW eax \in -1 .. MAX_SIZE, NEW value \in -1 .. MAX_SIZE,
           Wakeup(queue, eax, t, value)
    PROVE  result' \in [Threads -> -1 .. MAX_SIZE]
BY DEF Wakeup, TypeOK

-----------------------------------------------------------------------------
(* The inductive invariant *)

\* A new object has no waiting threads and an empty buffer of minimal size;
\* before the first call there is no pipe at all.
LEMMA InitIInv == Init => IInv
<1>. SUFFICES ASSUME Init PROVE IInv
  OBVIOUS
<1>1. <<>> \in Seq(Byte) /\ Len(<<>>) = 0
  BY EmptySeq
<1>2. writePos = 0 /\ used = 0
  BY <1>1 DEF Init, writePos, used
<1>3. TypeOK
  <2>1. present \in BOOLEAN /\ writeable \in BOOLEAN
    BY Zenon DEF Init
  <2>2. result \in [Threads -> -1 .. MAX_SIZE] /\ size \in Nat /\ readPos \in Nat
    BY MaxPositive DEF Init
  <2>3. readWaiters \subseteq Threads /\ writeWaiters \subseteq Threads
    BY DEF Init
  <2>4. buffer \in Seq(Byte) /\ data \in Seq(Byte)
    BY <1>1, Zenon DEF Init
  <2>. QED
    BY <2>1, <2>2, <2>3, <2>4, Zenon DEF TypeOK
<1>4. BufferSound
  BY <1>2 DEF Init, BufferSound
<1>5. NoLostWakeup
  BY DEF Init, NoLostWakeup
<1>. QED
  BY <1>3, <1>4, <1>5 DEF IInv

\* __pipeWrite keeps the invariant.
LEMMA WriteIInv ==
    ASSUME IInv, NEW t \in Threads, NEW d \in WriteData, PipeWrite(t, d)
    PROVE  IInv'
<1>. USE PipeAssumption
<1>. DEFINE length == Smaller(Len(d), MAX_SIZE - used)
            fits   == length <= size - writePos
            moved  == IF fits THEN buffer ELSE Content
            piece  == SubSeq(d, 1, length)
<1>1. /\ used \in Nat /\ used <= size /\ used <= writePos /\ writePos <= size
      /\ size \in Nat /\ size <= MAX_SIZE /\ writePos \in Nat /\ readPos \in Nat
      /\ readPos <= writePos /\ used = writePos - readPos
  BY UsedBound DEF IInv, used
<1>2. d \in Seq(Byte) /\ Len(d) \in Nat
  BY LenProperties
<1>3. length \in Nat /\ length <= Len(d) /\ used + length <= MAX_SIZE
  BY <1>1, <1>2 DEF Smaller
<1>4. piece \in Seq(Byte) /\ Len(piece) = length
  BY <1>2, <1>3, SubSeqType, 0 + 1 = 1
<1>5. Content \in Seq(Byte) /\ Len(Content) = used
  BY ContentType DEF IInv
<1>6. moved \in Seq(Byte) /\ Len(moved) = IF fits THEN writePos ELSE used
  BY <1>5 DEF IInv, TypeOK, writePos
<1>7. size \in Sizes /\ writeable /\ present /\ Sizes \subseteq 1 .. MAX_SIZE
  BY DEF IInv, BufferSound, PipeWrite, CanCall, Sizes
<1>8. buffer' = moved \o piece
  BY DEF PipeWrite
<1>9. buffer' \in Seq(Byte) /\ Len(buffer') = Len(moved) + length
  BY <1>4, <1>6, <1>8, ConcatProperties
<1>. HIDE DEF piece, moved, length
<1>10. /\ readPos' = IF fits THEN readPos ELSE 0
       /\ size' = IF length > size - Len(moved) THEN NewSize(Len(moved) + length) ELSE size
       /\ used' = used + length
       /\ writePos' = Len(moved) + length
  <2>1. /\ readPos' = IF fits THEN readPos ELSE 0
        /\ size' = IF length > size - Len(moved) THEN NewSize(Len(moved) + length) ELSE size
    BY DEF PipeWrite, moved, length
  <2>2. writePos' = Len(moved) + length
    BY <1>9 DEF writePos
  <2>3. used' = writePos' - readPos'
    BY DEF used
  <2>4. used' = used + length
    BY <2>1, <2>2, <2>3, <1>1, <1>3, <1>6
  <2>. QED
    BY <2>1, <2>2, <2>4
<1>11. size' \in Sizes /\ size' \in Nat /\ writePos' <= size'
  <2>1. CASE length > size - Len(moved)
    <3>1. Len(moved) = used
      BY <2>1, <1>1, <1>3, <1>6
    <3>2. size < Len(moved) + length /\ Len(moved) + length <= MAX_SIZE
      BY <2>1, <3>1, <1>1, <1>3
    <3>3. NewSize(Len(moved) + length) \in Sizes /\ NewSize(Len(moved) + length) >= Len(moved) + length
      <4>1. Len(moved) + length \in Nat
        BY <3>1, <1>1, <1>3
      <4>. QED
        BY <4>1, <3>2, <1>7, NewSizeSound
    <3>4. size' = NewSize(Len(moved) + length) /\ writePos' = Len(moved) + length
      BY <2>1, <1>10
    <3>5. \A n \in Sizes : n \in Nat
      BY <1>7
    <3>. QED
      BY <3>3, <3>4, <3>5
  <2>2. CASE ~(length > size - Len(moved))
    BY <2>2, <1>1, <1>3, <1>6, <1>7, <1>10
  <2>. QED
    BY <2>1, <2>2
<1>12. /\ readWaiters' = IF used + length > 0 THEN {} ELSE readWaiters
       /\ writeWaiters' = writeWaiters
       /\ present' = present /\ writeable' = writeable /\ data' = <<>>
       /\ result' \in [Threads -> -1 .. MAX_SIZE]
  <2>1. /\ length \in -1 .. MAX_SIZE /\ used + length \in -1 .. MAX_SIZE /\ 0 \in -1 .. MAX_SIZE
        /\ \A u \in Threads : result[u] \in -1 .. MAX_SIZE
    BY <1>1, <1>3 DEF IInv, TypeOK
  <2>2. \A u \in Threads : result'[u] \in {used + length, 0, length, result[u]}
    BY <1>1, <1>3 DEF PipeWrite, Wakeup, length
  <2>3. result' = [u \in Threads |-> result'[u]]
    BY DEF PipeWrite, Wakeup
  <2>4. result' \in [Threads -> -1 .. MAX_SIZE]
    BY <2>1, <2>2, <2>3
  <2>. QED
    BY <1>1, <1>3, <2>4 DEF PipeWrite, length
<1>13. TypeOK'
  <2>1. <<>> \in Seq(Byte)
    BY EmptySeq
  <2>. QED
    BY <2>1, <1>1, <1>9, <1>10, <1>11, <1>12 DEF IInv, TypeOK
<1>14. BufferSound'
  BY <1>1, <1>3, <1>6, <1>7, <1>10, <1>11, <1>12 DEF IInv, BufferSound
<1>15. NoLostWakeup'
  BY <1>1, <1>3, <1>10, <1>12 DEF IInv, NoLostWakeup
<1>. QED
  BY <1>13, <1>14, <1>15 DEF IInv

\* __pipeRead keeps the invariant.
LEMMA ReadIInv ==
    ASSUME IInv, NEW t \in Threads, NEW n \in ReadLengths, PipeRead(t, n)
    PROVE  IInv'
<1>. USE PipeAssumption
<1>. DEFINE length == Smaller(n, used)
            left   == used - length
<1>1. /\ used \in Nat /\ used <= size /\ used <= writePos /\ writePos <= size
      /\ size \in Nat /\ size <= MAX_SIZE /\ writePos \in Nat /\ readPos \in Nat
      /\ readPos <= writePos /\ used = writePos - readPos
  BY UsedBound DEF IInv, used
<1>2. n \in Nat /\ length \in Nat /\ length <= used /\ left \in Nat
  BY <1>1 DEF Smaller
<1>3. data' = SubSeq(buffer, readPos + 1, readPos + length)
  BY DEF PipeRead
<1>4. data' \in Seq(Byte)
  <2>1. readPos + length \in Nat /\ readPos <= readPos + length /\ readPos + length <= Len(buffer)
    BY <1>1, <1>2 DEF writePos
  <2>. HIDE DEF length
  <2>. QED
    BY <2>1, <1>1, <1>3, SubSeqType DEF IInv, TypeOK
<1>5. <<>> \in Seq(Byte) /\ Len(<<>>) = 0
  BY EmptySeq
<1>6. \/ left < MAX_SIZE /\ writeWaiters' = {}
      \/ ~(left < MAX_SIZE) /\ writeWaiters' = writeWaiters
  BY DEF PipeRead
<1>7. result' \in [Threads -> -1 .. MAX_SIZE]
  <2>1. result \in [Threads -> -1 .. MAX_SIZE] /\ length \in -1 .. MAX_SIZE
        /\ (left < MAX_SIZE => MAX_SIZE - left \in -1 .. MAX_SIZE) /\ 0 \in -1 .. MAX_SIZE
    BY <1>1, <1>2 DEF IInv, TypeOK
  <2>2. \E queue, eax : eax \in -1 .. MAX_SIZE /\ Wakeup(queue, eax, t, length)
    <3>1. CASE left < MAX_SIZE
      <4>1. Wakeup(writeWaiters, IF writeable THEN MAX_SIZE - left ELSE 0, t, length)
        BY <3>1 DEF PipeRead
      <4>2. (IF writeable THEN MAX_SIZE - left ELSE 0) \in -1 .. MAX_SIZE
        BY <3>1, <2>1
      <4>. QED
        BY <4>1, <4>2
    <3>2. CASE ~(left < MAX_SIZE)
      <4>1. Wakeup({}, 0, t, length)
        BY <3>2 DEF PipeRead
      <4>. QED
        BY <4>1, <2>1
    <3>. QED
      BY <3>1, <3>2
  <2>. HIDE DEF length, left
  <2>. QED
    BY <2>1, <2>2, WakeupType DEF IInv
<1>8. CASE left = 0
  <2>1. /\ buffer' = <<>> /\ readPos' = 0
        /\ size' = IF writeable THEN size ELSE 0
    BY <1>8 DEF PipeRead
  <2>2. writePos' = 0 /\ used' = 0
    BY <2>1, <1>5 DEF writePos, used
  <2>3. size' \in Nat /\ buffer' \in Seq(Byte) /\ readPos' \in Nat
    BY <2>1, <1>1, <1>5
  <2>4. writeable' = writeable /\ present' = present /\ readWaiters' = readWaiters
    BY DEF PipeRead
  <2>5. BufferSound'
    BY <2>1, <2>2, <2>4, <1>1 DEF BufferSound, IInv
  <2>6. writeWaiters' \subseteq writeWaiters
    BY <1>6
  <2>7. MAX_SIZE > 0
    BY SizesAssumption DEF Sizes
  <2>8. NoLostWakeup'
    <3>1. readWaiters' # {} => present' /\ writeable' /\ used' = 0
      BY <2>2, <2>4 DEF IInv, NoLostWakeup
    <3>2. writeWaiters' = {}
      BY <2>7, <1>8, <1>6
    <3>. QED
      BY <3>1, <3>2 DEF NoLostWakeup
  <2>9. TypeOK'
    BY <2>3, <2>4, <2>6, <1>4, <1>7 DEF IInv, TypeOK
  <2>. QED
    BY <2>5, <2>8, <2>9 DEF IInv
<1>9. CASE left # 0
  <2>1. buffer' = buffer /\ readPos' = readPos + length /\ size' = size
    BY <1>9 DEF PipeRead
  <2>2. writePos' = writePos /\ used' = left
    BY <2>1, <1>1, <1>2 DEF writePos, used
  <2>3. writeable' = writeable /\ present' = present /\ readWaiters' = readWaiters
    BY DEF PipeRead
  <2>4. writeWaiters' \subseteq writeWaiters
    BY <1>6
  <2>5. BufferSound'
    BY <2>1, <2>2, <2>3, <1>1, <1>2, <1>9 DEF BufferSound, IInv
  <2>6. writeWaiters' = {} \/ (left >= MAX_SIZE /\ writeWaiters' = writeWaiters)
    BY <1>2, <1>6
  <2>7. readWaiters = {}
    BY <1>1, <1>2, <1>9 DEF IInv, NoLostWakeup
  <2>8. left >= MAX_SIZE => left = used /\ left = MAX_SIZE
    BY <1>1, <1>2
  <2>. HIDE DEF left, length
  <2>9. NoLostWakeup'
    BY <2>2, <2>3, <2>6, <2>7, <2>8 DEF IInv, NoLostWakeup
  <2>10. TypeOK'
    BY <2>1, <2>3, <2>4, <1>1, <1>2, <1>4, <1>7 DEF IInv, TypeOK
  <2>. QED
    BY <2>5, <2>9, <2>10 DEF IInv
<1>. QED
  BY <1>8, <1>9

\* Creation, destruction and both kinds of shutdown keep the invariant.
LEMMA LifecycleIInv ==
    ASSUME IInv, NEW t \in Threads,
           \/ PipeCreate(t) \/ PipeDestroy(t)
           \/ \E mode \in {0, 1} : PipeShutdown(t, mode)
    PROVE  IInv'
<1>1. <<>> \in Seq(Byte) /\ Len(<<>>) = 0
  BY EmptySeq
<1>2. CASE PipeCreate(t)
  <2>1. /\ present' = TRUE /\ writeable' = TRUE /\ size' = MIN_SIZE /\ buffer' = <<>>
        /\ readPos' = 0 /\ data' = <<>> /\ readWaiters = {} /\ writeWaiters = {}
        /\ readWaiters' = {} /\ writeWaiters' = {} /\ result' = result
    BY <1>2 DEF PipeCreate, IInv, NoLostWakeup
  <2>2. writePos' = 0 /\ used' = 0
    BY <2>1, <1>1 DEF writePos, used
  <2>3. BufferSound'
    BY <2>1, <2>2, PipeAssumption, SizesAssumption DEF BufferSound
  <2>4. NoLostWakeup'
    BY <2>1 DEF NoLostWakeup
  <2>5. present' \in BOOLEAN /\ writeable' \in BOOLEAN
    BY <2>1, Zenon
  <2>6. size' \in Nat /\ readPos' \in Nat
    BY <2>1, PipeAssumption
  <2>7. TypeOK'
    BY <2>1, <2>5, <2>6, <1>1, Zenon DEF TypeOK, IInv
  <2>. QED
    BY <2>3, <2>4, <2>7 DEF IInv
<1>3. ASSUME writeWaiters' = {}, readWaiters' = {}, size' = 0, buffer' = <<>>,
             readPos' = 0, data' = <<>>, writeable' = FALSE, present' \in BOOLEAN,
             result' \in [Threads -> -1 .. MAX_SIZE]
      PROVE  IInv'
  <2>1. writePos' = 0 /\ used' = 0
    BY <1>1, <1>3 DEF writePos, used
  <2>2. BufferSound'
    BY <2>1, <1>3 DEF BufferSound
  <2>3. NoLostWakeup'
    BY <1>3 DEF NoLostWakeup
  <2>4. writeable' \in BOOLEAN
    BY <1>3, Zenon
  <2>5. size' \in Nat /\ readPos' \in Nat /\ readWaiters' \subseteq Threads /\ writeWaiters' \subseteq Threads
    BY <1>3
  <2>6. TypeOK'
    BY <2>4, <2>5, <1>1, <1>3, Zenon DEF TypeOK
  <2>. QED
    BY <2>2, <2>3, <2>6 DEF IInv
<1>4. CASE PipeDestroy(t)
  <2>1. present' \in BOOLEAN
    BY <1>4, Zenon DEF PipeDestroy
  <2>2. result' \in [Threads -> -1 .. MAX_SIZE]
    BY <1>4, MaxPositive DEF PipeDestroy, Wakeup, IInv, TypeOK
  <2>. QED
    BY <1>3, <1>4, <2>1, <2>2, Zenon DEF PipeDestroy
<1>5. ASSUME NEW mode \in {0, 1}, PipeShutdown(t, mode)
      PROVE  IInv'
  <2>1. present' = present /\ present' \in BOOLEAN /\ writeable' = FALSE /\ writeWaiters' = {} /\ data' = <<>>
    BY <1>5 DEF PipeShutdown, IInv, TypeOK
  <2>2. result' \in [Threads -> -1 .. MAX_SIZE]
    BY <1>5, MaxPositive DEF PipeShutdown, Wakeup, IInv, TypeOK
  <2>3. CASE mode = 1 /\ used # 0
    <3>1. UNCHANGED <<size, buffer, readPos, readWaiters>>
      BY <1>5, <2>3 DEF PipeShutdown
    <3>2. readWaiters = {}
      BY <2>3 DEF IInv, NoLostWakeup
    <3>3. writePos' = writePos /\ used' = used
      BY <3>1 DEF writePos, used
    <3>4. BufferSound'
      BY <2>1, <3>1, <3>3 DEF IInv, BufferSound
    <3>5. NoLostWakeup'
      BY <2>1, <3>1, <3>2 DEF NoLostWakeup
    <3>6. writeable' \in BOOLEAN
      BY <2>1, Zenon
    <3>7. writeWaiters' \subseteq Threads
      BY <2>1
    <3>8. TypeOK'
      BY <2>1, <2>2, <3>1, <3>6, <3>7, <1>1, Zenon DEF IInv, TypeOK
    <3>. QED
      BY <3>4, <3>5, <3>8 DEF IInv
  <2>4. CASE ~(mode = 1 /\ used # 0)
    <3>1. readWaiters' = {} /\ size' = 0 /\ buffer' = <<>> /\ readPos' = 0
      BY <1>5, <2>4 DEF PipeShutdown
    <3>. QED
      BY <1>3, <2>1, <2>2, <3>1, Zenon
  <2>. QED
    BY <2>3, <2>4
<1>. QED
  BY <1>2, <1>4, <1>5

\* Waiting, failing calls and the end of a thread only touch the queues.
LEMMA QueueIInv ==
    ASSUME IInv, NEW t \in Threads,
           \/ \E mode \in {0, 1} : PipeWait(t, mode)
           \/ PipeWriteFails(t) \/ PipeReadFails(t) \/ ThreadExit(t)
    PROVE  IInv'
<1>1. <<>> \in Seq(Byte)
  BY EmptySeq
<1>2. UNCHANGED <<present, writeable, size, buffer, readPos>> /\ data' = <<>>
  BY DEF PipeWait, PipeWriteFails, PipeReadFails, CallFails, ThreadExit
<1>3. writePos' = writePos /\ used' = used /\ used \in Nat /\ used <= MAX_SIZE /\ MAX_SIZE \in Nat
  BY <1>2, UsedBound, PipeAssumption DEF writePos, used, IInv
<1>4. BufferSound'
  BY <1>2, <1>3 DEF IInv, BufferSound
<1>5. SUFFICES /\ result' \in [Threads -> -1 .. MAX_SIZE]
               /\ readWaiters' \subseteq Threads /\ writeWaiters' \subseteq Threads
               /\ NoLostWakeup'
  BY <1>1, <1>2, <1>4 DEF IInv, TypeOK
<1>6. ASSUME NEW mode \in {0, 1}, PipeWait(t, mode)
      PROVE  /\ result' \in [Threads -> -1 .. MAX_SIZE]
             /\ readWaiters' \subseteq Threads /\ writeWaiters' \subseteq Threads
             /\ NoLostWakeup'
  <2>1. PipeGetStatus(mode) \in -1 .. MAX_SIZE
    BY <1>3 DEF PipeGetStatus
  <2>2. result' \in [Threads -> -1 .. MAX_SIZE]
    BY <1>6, <2>1 DEF PipeWait, IInv, TypeOK
  <2>3. readWaiters' \subseteq Threads /\ writeWaiters' \subseteq Threads
    BY <1>6 DEF PipeWait, IInv, TypeOK
  <2>4. NoLostWakeup'
    <3>1. CASE ~MustWait(mode)
      BY <3>1, <1>2, <1>3, <1>6 DEF PipeWait, IInv, NoLostWakeup
    <3>2. CASE MustWait(mode) /\ mode = 0
      <4>1. readWaiters' = readWaiters \cup {t} /\ writeWaiters' = writeWaiters /\ t \notin writeWaiters
        BY <1>6, <3>2 DEF PipeWait, CanCall
      <4>2. present /\ writeable /\ used = 0
        BY <1>6, <3>2 DEF PipeWait, CanCall, MustWait
      <4>. QED
        BY <4>1, <4>2, <1>2, <1>3 DEF IInv, NoLostWakeup
    <3>3. CASE MustWait(mode) /\ mode = 1
      <4>1. writeWaiters' = writeWaiters \cup {t} /\ readWaiters' = readWaiters /\ t \notin readWaiters
        BY <1>6, <3>3 DEF PipeWait, CanCall
      <4>2. present /\ writeable /\ used = MAX_SIZE
        BY <1>3, <1>6, <3>3 DEF PipeWait, CanCall, MustWait
      <4>. QED
        BY <4>1, <4>2, <1>2, <1>3 DEF IInv, NoLostWakeup
    <3>. QED
      BY <3>1, <3>2, <3>3
  <2>. QED
    BY <2>2, <2>3, <2>4
<1>7. CASE PipeWriteFails(t) \/ PipeReadFails(t)
  BY <1>7, <1>2, <1>3 DEF PipeWriteFails, PipeReadFails, CallFails, IInv, TypeOK, NoLostWakeup
<1>8. CASE ThreadExit(t)
  BY <1>8, <1>2, <1>3 DEF ThreadExit, IInv, TypeOK, NoLostWakeup
<1>. QED
  BY <1>6, <1>7, <1>8

\* Every step keeps the invariant.
LEMMA NextIInv == IInv /\ [Next]_vars => IInv'
<1>. SUFFICES ASSUME IInv, [Next]_vars PROVE IInv'
  OBVIOUS
<1>1. CASE UNCHANGED vars
  <2>1. writePos' = writePos /\ used' = used
    BY <1>1 DEF vars, writePos, used
  <2>. QED
    BY <1>1, <2>1 DEF vars, IInv, TypeOK, BufferSound, NoLostWakeup
<1>2. ASSUME NEW t \in Threads,
             \/ PipeCreate(t) \/ PipeDestroy(t)
             \/ \E mode \in {0, 1} : PipeShutdown(t, mode)
      PROVE  IInv'
  BY <1>2, LifecycleIInv
<1>3. ASSUME NEW t \in Threads,
             \/ \E mode \in {0, 1} : PipeWait(t, mode)
             \/ PipeWriteFails(t) \/ PipeReadFails(t) \/ ThreadExit(t)
      PROVE  IInv'
  BY <1>3, QueueIInv
<1>4. ASSUME NEW t \in Threads, NEW d \in WriteData, PipeWrite(t, d)
      PROVE  IInv'
  BY <1>4, WriteIInv
<1>5. ASSUME NEW t \in Threads, NEW n \in ReadLengths, PipeRead(t, n)
      PROVE  IInv'
  BY <1>5, ReadIInv
<1>. QED
  BY <1>1, <1>2, <1>3, <1>4, <1>5, Zenon DEF Next

\* The inductive invariant holds in every reachable state.
THEOREM InvariantHolds == Spec => []IInv
BY InitIInv, NextIInv, PTL DEF Spec

\* Every field of the pipe keeps its type.
THEOREM TypeCorrect == Spec => []TypeOK
<1>1. IInv => TypeOK
  BY DEF IInv
<1>. QED
  BY <1>1, InvariantHolds, PTL

\* The positions stay inside the buffer and the assertions of pipe.c:278 and
\* pipe.c:338 never fail, whatever the two buffer limits are.
THEOREM BufferCorrect == Spec => []BufferSound
<1>1. IInv => BufferSound
  BY DEF IInv
<1>. QED
  BY <1>1, InvariantHolds, PTL

\* No thread stays queued on a pipe that has what it waits for.
THEOREM WakeupCorrect == Spec => []NoLostWakeup
<1>1. IInv => NoLostWakeup
  BY DEF IInv
<1>. QED
  BY <1>1, InvariantHolds, PTL

-----------------------------------------------------------------------------
(* The pipe implements the bounded queue of PipeFifo *)

\* An empty queue is one without bytes between the two positions.
LEMMA ContentEmpty ==
    ASSUME IInv
    PROVE  Content = <<>> <=> used = 0
BY ContentType, EmptySeq DEF IInv

\* Taking the first bytes of the content of a buffer away.
LEMMA ContentDrop ==
    ASSUME IInv, NEW k \in Nat, k <= used
    PROVE  /\ SubSeq(buffer, readPos + 1, readPos + k) = SubSeq(Content, 1, k)
           /\ SubSeq(buffer, readPos + k + 1, writePos) = SubSeq(Content, k + 1, Len(Content))
<1>1. /\ used \in Nat /\ writePos \in Nat /\ readPos \in Nat
      /\ readPos <= writePos /\ used = writePos - readPos /\ writePos = Len(buffer)
  BY UsedBound DEF IInv, used, writePos
<1>2. /\ Content \in Seq(Byte) /\ Len(Content) = used
      /\ \A i \in 1 .. used : Content[i] = buffer[readPos + i]
  BY ContentType DEF IInv
<1>3. buffer \in Seq(Byte)
  BY DEF IInv, TypeOK
<1>4. /\ readPos + k \in Nat /\ readPos <= readPos + k /\ readPos + k <= Len(buffer)
      /\ readPos + k <= writePos
  BY <1>1
<1>5. SubSeq(buffer, readPos + 1, readPos + k) = SubSeq(Content, 1, k)
  <2>. DEFINE a == SubSeq(buffer, readPos + 1, readPos + k)
              b == SubSeq(Content, 0 + 1, k)
  <2>1. /\ a \in Seq(Byte) /\ Len(a) = (readPos + k) - readPos
        /\ \A i \in 1 .. (readPos + k) - readPos : a[i] = buffer[readPos + i]
    BY <1>1, <1>3, <1>4, SubSeqType
  <2>2. /\ b \in Seq(Byte) /\ Len(b) = k - 0
        /\ \A i \in 1 .. k - 0 : b[i] = Content[0 + i]
    BY <1>1, <1>2, SubSeqType
  <2>. HIDE DEF a, b
  <2>3. Len(a) = k /\ Len(b) = k
    <3>1. (readPos + k) - readPos = k /\ k - 0 = k
      BY <1>1
    <3>. QED
      BY <2>1, <2>2, <3>1, Zenon
  <2>4. ASSUME NEW i \in 1 .. k PROVE a[i] = b[i]
    <3>1. i \in 1 .. used /\ i \in 1 .. (readPos + k) - readPos /\ i \in 1 .. k - 0 /\ 0 + i = i
      BY <1>1
    <3>. QED
      BY <1>2, <2>1, <2>2, <3>1, Zenon
  <2>5. Len(a) = Len(b) /\ \A i \in 1 .. Len(a) : a[i] = b[i]
    BY <2>3, <2>4, Zenon
  <2>6. a = b
    BY <2>1, <2>2, <2>5, SeqEqual
  <2>. QED
    BY <2>6, 0 + 1 = 1 DEF a, b
<1>6. SubSeq(buffer, readPos + k + 1, writePos) = SubSeq(Content, k + 1, Len(Content))
  <2>. DEFINE m == readPos + k
              a == SubSeq(buffer, m + 1, writePos)
              b == SubSeq(Content, k + 1, Len(Content))
  <2>1. /\ a \in Seq(Byte) /\ Len(a) = writePos - m
        /\ \A i \in 1 .. writePos - m : a[i] = buffer[m + i]
    <3>. HIDE DEF m
    <3>1. m \in Nat /\ m <= writePos /\ writePos \in Nat /\ writePos <= Len(buffer)
      BY <1>1, <1>4 DEF m
    <3>. QED
      BY <3>1, <1>3, SubSeqType
  <2>2. /\ b \in Seq(Byte) /\ Len(b) = used - k
        /\ \A i \in 1 .. used - k : b[i] = Content[k + i]
    BY <1>1, <1>2, SubSeqType
  <2>. HIDE DEF a, b
  <2>3. writePos - m = used - k
    BY <1>1
  <2>4. ASSUME NEW i \in 1 .. used - k PROVE a[i] = b[i]
    <3>1. /\ k + i \in 1 .. used /\ i \in 1 .. writePos - m
          /\ m + i = readPos + (k + i)
      BY <1>1
    <3>. QED
      BY <1>2, <2>1, <2>2, <3>1, Zenon
  <2>5. Len(a) = Len(b) /\ \A i \in 1 .. Len(a) : a[i] = b[i]
    BY <2>1, <2>2, <2>3, <2>4, Zenon
  <2>6. a = b
    BY <2>1, <2>2, <2>5, SeqEqual
  <2>. QED
    BY <2>6 DEF a, b
<1>. QED
  BY <1>5, <1>6

\* Appending to a buffer appends to its content.
LEMMA ContentAppend ==
    ASSUME IInv, NEW e \in Seq(Byte)
    PROVE  SubSeq(buffer \o e, readPos + 1, writePos + Len(e)) = Content \o e
<1>1. /\ used \in Nat /\ writePos \in Nat /\ readPos \in Nat /\ Len(e) \in Nat
      /\ readPos <= writePos /\ used = writePos - readPos /\ writePos = Len(buffer)
  BY UsedBound, LenProperties DEF IInv, used, writePos
<1>2. /\ Content \in Seq(Byte) /\ Len(Content) = used
      /\ \A i \in 1 .. used : Content[i] = buffer[readPos + i]
  BY ContentType DEF IInv
<1>. DEFINE all == buffer \o e
            a   == SubSeq(all, readPos + 1, writePos + Len(e))
            b   == Content \o e
<1>3. /\ all \in Seq(Byte) /\ Len(all) = writePos + Len(e)
      /\ \A i \in 1 .. writePos + Len(e) :
             all[i] = IF i <= writePos THEN buffer[i] ELSE e[i - writePos]
  BY <1>1, ConcatProperties DEF IInv, TypeOK
<1>4. /\ b \in Seq(Byte) /\ Len(b) = used + Len(e)
      /\ \A i \in 1 .. used + Len(e) : b[i] = IF i <= used THEN Content[i] ELSE e[i - used]
  BY <1>2, ConcatProperties
<1>. HIDE DEF all, b
<1>5. /\ a \in Seq(Byte) /\ Len(a) = (writePos + Len(e)) - readPos
      /\ \A i \in 1 .. (writePos + Len(e)) - readPos : a[i] = all[readPos + i]
  <2>1. writePos + Len(e) \in Nat /\ readPos <= writePos + Len(e) /\ writePos + Len(e) <= Len(all)
    BY <1>1, <1>3
  <2>. QED
    BY <2>1, <1>1, <1>3, SubSeqType
<1>. HIDE DEF a
<1>6. Len(a) = Len(b)
  <2>1. (writePos + Len(e)) - readPos = used + Len(e)
    BY <1>1
  <2>2. Len(a) = (writePos + Len(e)) - readPos /\ Len(b) = used + Len(e)
    BY <1>4, <1>5
  <2>. QED
    BY <2>1, <2>2, Zenon
<1>7. ASSUME NEW i \in 1 .. Len(a) PROVE a[i] = b[i]
  <2>1. i \in 1 .. used + Len(e) /\ i \in 1 .. (writePos + Len(e)) - readPos
        /\ readPos + i \in 1 .. writePos + Len(e)
    BY <1>1, <1>5
  <2>2. a[i] = IF readPos + i <= writePos THEN buffer[readPos + i] ELSE e[(readPos + i) - writePos]
    BY <2>1, <1>3, <1>5
  <2>3. b[i] = IF i <= used THEN Content[i] ELSE e[i - used]
    BY <2>1, <1>4
  <2>4. CASE i <= used
    BY <2>2, <2>3, <2>4, <1>1, <1>2, <2>1
  <2>5. CASE ~(i <= used)
    <3>1. (readPos + i) - writePos = i - used
      BY <1>1
    <3>. QED
      BY <2>2, <2>3, <2>5, <3>1, <1>1
  <2>. QED
    BY <2>4, <2>5
<1>8. a = b
  BY <1>4, <1>5, <1>6, <1>7, SeqEqual
<1>. QED
  BY <1>8 DEF a, b, all

\* How the queues of a step map to the abstract one: if exactly the threads
\* in `rel' leave the queues, and they are the ones that are ready after the
\* step, the step settles the abstract waiting threads.
LEMMA SettleStep ==
    ASSUME IInv, NEW t \in Threads, NEW value, NEW eax, NEW rel,
           t \notin readWaiters \cup writeWaiters,
           rel \subseteq readWaiters \cup writeWaiters,
           readWaiters' = readWaiters \ rel, writeWaiters' = writeWaiters \ rel,
           \A u \in readWaiters : u \in rel <=> Fifo!Ready("read", Content', writeable'),
           \A u \in writeWaiters : u \in rel <=> Fifo!Ready("write", Content', writeable'),
           \A u \in readWaiters : u \in rel => eax = Fifo!Answer("read", Content', writeable'),
           \A u \in writeWaiters : u \in rel => eax = Fifo!Answer("write", Content', writeable'),
           Wakeup(rel, eax, t, value)
    PROVE  Fifo!Settle(t, value)
<1>. DEFINE w == [u \in Threads |-> IF u \in readWaiters THEN "read"
                                    ELSE IF u \in writeWaiters THEN "write" ELSE "no"]
<1>1. readWaiters \cap writeWaiters = {}
  BY DEF IInv, NoLostWakeup
<1>2. ASSUME NEW u \in Threads
      PROVE  Fifo!Released(u) <=> u \in rel
  BY <1>1 DEF Fifo!Released
<1>3. ASSUME NEW u \in Threads
      PROVE  w'[u] = IF Fifo!Released(u) THEN "no" ELSE w[u]
  BY <1>1, <1>2
<1>4. ASSUME NEW u \in Threads
      PROVE  result'[u] = IF u = t THEN value
                          ELSE IF Fifo!Released(u) THEN Fifo!Answer(w[u], Content', writeable')
                          ELSE result[u]
  BY <1>1, <1>2 DEF Wakeup
<1>5. w' = [u \in Threads |-> IF Fifo!Released(u) THEN "no" ELSE w[u]]
  BY <1>3
<1>6. result' = [u \in Threads |-> result'[u]]
  BY DEF Wakeup
<1>7. result' = [u \in Threads |-> IF u = t THEN value
                          ELSE IF Fifo!Released(u) THEN Fifo!Answer(w[u], Content', writeable')
                          ELSE result[u]]
  BY <1>4, <1>6
<1>. QED
  BY <1>5, <1>7 DEF Fifo!Settle

\* A thread that can call the pipe can call the queue.
LEMMA CallMaps ==
    ASSUME NEW t \in Threads, CanCall(t)
    PROVE  Fifo!CanCall(t)
BY DEF CanCall, Fifo!CanCall

\* An emptied buffer is an empty queue.
LEMMA ContentReset ==
    ASSUME buffer' = <<>>, readPos' = 0
    PROVE  Content' = <<>>
<1>1. Len(<<>>) = 0 /\ 0 + 1 = 1
  BY EmptySeq
<1>2. Content' = SubSeq(<<>>, 1, 0)
  BY <1>1 DEF Content, writePos
<1>3. 0 < 1 /\ 0 \in Int /\ 1 \in Int
  OBVIOUS
<1>4. SubSeq(<<>>, 1, 0) = <<>>
  BY <1>3, SubSeqEmpty
<1>. QED
  BY <1>2, <1>4

\* pipeCreate creates the queue.
LEMMA CreateMaps ==
    ASSUME IInv, NEW t \in Threads, PipeCreate(t)
    PROVE  Fifo!Create(t)
<1>1. Content' = <<>>
  BY ContentReset DEF PipeCreate
<1>. QED
  BY <1>1 DEF PipeCreate, Fifo!Create

\* Closing the last handle destroys the queue and releases every waiting thread.
LEMMA DestroyMaps ==
    ASSUME IInv, NEW t \in Threads, PipeDestroy(t)
    PROVE  Fifo!Destroy(t)
<1>1. Content' = <<>>
  BY ContentReset DEF PipeDestroy
<1>2. Fifo!Settle(t, 1)
  <2>. DEFINE rel == writeWaiters \cup readWaiters
  <2>1. /\ readWaiters' = readWaiters \ rel /\ writeWaiters' = writeWaiters \ rel
        /\ Wakeup(rel, -1, t, 1) /\ t \notin readWaiters \cup writeWaiters
        /\ rel \subseteq readWaiters \cup writeWaiters
    BY DEF PipeDestroy, CanCall
  <2>2. /\ Fifo!Ready("read", Content', writeable') /\ Fifo!Ready("write", Content', writeable')
        /\ Fifo!Answer("read", Content', writeable') = -1
        /\ Fifo!Answer("write", Content', writeable') = -1
    BY <1>1 DEF PipeDestroy, Fifo!Ready, Fifo!Answer
  <2>3. \A u \in readWaiters \cup writeWaiters : u \in rel
    OBVIOUS
  <2>. HIDE DEF rel
  <2>. QED
    BY <2>1, <2>2, <2>3, SettleStep
<1>. QED
  BY <1>1, <1>2, CallMaps DEF PipeDestroy, Fifo!Destroy

\* Shutting an empty pipe down for writing closes both sides: nobody can tell.
LEMMA ShutdownMaps ==
    ASSUME IInv, NEW t \in Threads, NEW mode \in {0, 1}, PipeShutdown(t, mode)
    PROVE  \E side \in {"read", "write"} : Fifo!Shutdown(t, side)
<1>1. /\ t \notin readWaiters \cup writeWaiters /\ writeable' = FALSE /\ present' = present
      /\ data' = <<>> /\ Fifo!CanCall(t)
  BY CallMaps DEF PipeShutdown, CanCall
<1>2. CASE mode = 1 /\ used # 0
  <2>1. /\ UNCHANGED <<size, buffer, readPos, readWaiters>> /\ writeWaiters' = {}
        /\ Wakeup(writeWaiters, -1, t, 1)
    BY <1>2 DEF PipeShutdown
  <2>2. Content' = Content
    BY <2>1 DEF Content, writePos
  <2>3. readWaiters = {}
    BY <1>2 DEF IInv, NoLostWakeup
  <2>4. Fifo!Ready("write", Content', writeable') /\ Fifo!Answer("write", Content', writeable') = -1
    BY <1>1 DEF Fifo!Ready, Fifo!Answer
  <2>5. Fifo!Settle(t, 1)
    <3>1. /\ readWaiters' = readWaiters \ writeWaiters /\ writeWaiters' = writeWaiters \ writeWaiters
          /\ writeWaiters \subseteq readWaiters \cup writeWaiters
      BY <2>1, <2>3
    <3>. QED
      BY <1>1, <2>1, <2>3, <2>4, <3>1, SettleStep
  <2>6. Fifo!Shutdown(t, "write")
    BY <1>1, <2>2, <2>5 DEF Fifo!Shutdown
  <2>. QED
    BY <2>6
<1>3. CASE ~(mode = 1 /\ used # 0)
  <2>. DEFINE rel == writeWaiters \cup readWaiters
  <2>1. /\ readWaiters' = readWaiters \ rel /\ writeWaiters' = writeWaiters \ rel
        /\ Wakeup(rel, -1, t, 1) /\ rel \subseteq readWaiters \cup writeWaiters
        /\ buffer' = <<>> /\ readPos' = 0
    BY <1>3 DEF PipeShutdown
  <2>2. Content' = <<>>
    BY <2>1, ContentReset
  <2>3. /\ Fifo!Ready("read", Content', writeable') /\ Fifo!Ready("write", Content', writeable')
        /\ Fifo!Answer("read", Content', writeable') = -1
        /\ Fifo!Answer("write", Content', writeable') = -1
    BY <1>1, <2>2 DEF Fifo!Ready, Fifo!Answer
  <2>4. \A u \in readWaiters \cup writeWaiters : u \in rel
    OBVIOUS
  <2>. HIDE DEF rel
  <2>5. Fifo!Settle(t, 1)
    BY <1>1, <2>1, <2>3, <2>4, SettleStep
  <2>6. Fifo!Shutdown(t, "read")
    BY <1>1, <2>2, <2>5 DEF Fifo!Shutdown
  <2>. QED
    BY <2>6
<1>. QED
  BY <1>2, <1>3

\* __pipeWait blocks exactly when the queue has nothing to tell, and answers the same
\* number otherwise.
LEMMA WaitMaps ==
    ASSUME IInv, NEW t \in Threads, NEW mode \in {0, 1}, PipeWait(t, mode)
    PROVE  \E side \in {"read", "write"} : Fifo!Wait(t, side)
<1>. DEFINE side == IF mode = 1 THEN "write" ELSE "read"
<1>1. /\ Content' = Content /\ UNCHANGED <<present, writeable>> /\ data' = <<>>
      /\ t \notin readWaiters \cup writeWaiters /\ Fifo!CanCall(t)
  BY CallMaps DEF PipeWait, CanCall, Content, writePos
<1>2. /\ Len(Content) = used /\ used \in Nat /\ used <= MAX_SIZE /\ MAX_SIZE \in Nat
      /\ Content = <<>> <=> used = 0
  BY ContentType, ContentEmpty, UsedBound, PipeAssumption DEF IInv
<1>3. /\ Fifo!Ready(side, Content, writeable) <=> ~MustWait(mode)
      /\ ~MustWait(mode) => Fifo!Answer(side, Content, writeable) = PipeGetStatus(mode)
  BY <1>2 DEF Fifo!Ready, Fifo!Answer, MustWait, PipeGetStatus
<1>4. Fifo!Wait(t, side)
  <2>1. CASE MustWait(mode)
    <3>1. result' = result
      BY <2>1 DEF PipeWait
    <3>2. /\ mode = 1 => writeWaiters' = writeWaiters \cup {t} /\ readWaiters' = readWaiters
          /\ mode = 0 => readWaiters' = readWaiters \cup {t} /\ writeWaiters' = writeWaiters
      BY <2>1 DEF PipeWait
    <3>. QED
      BY <1>1, <1>3, <2>1, <3>1, <3>2 DEF Fifo!Wait
  <2>2. CASE ~MustWait(mode)
    <3>1. result' = [result EXCEPT ![t] = PipeGetStatus(mode)] /\ UNCHANGED <<readWaiters, writeWaiters>>
      BY <2>2 DEF PipeWait
    <3>. QED
      BY <1>1, <1>3, <2>2, <3>1 DEF Fifo!Wait
  <2>. QED
    BY <2>1, <2>2
<1>. QED
  BY <1>4

\* A thread that ends leaves the queue it waits in.
LEMMA LeaveMaps ==
    ASSUME IInv, NEW t \in Threads, ThreadExit(t)
    PROVE  Fifo!Leave(t)
<1>1. Content' = Content
  BY DEF ThreadExit, Content, writePos
<1>2. readWaiters \cap writeWaiters = {}
  BY DEF IInv, NoLostWakeup
<1>. QED
  BY <1>1, <1>2 DEF ThreadExit, Fifo!Leave

\* __pipeWrite appends as much as the queue has room for, wherever the buffer
\* has to move or grow, and releases the readers.
LEMMA WriteMaps ==
    ASSUME IInv, NEW t \in Threads, NEW d \in WriteData, PipeWrite(t, d)
    PROVE  Fifo!Write(t, d)
<1>. USE PipeAssumption
<1>. DEFINE length == Smaller(Len(d), MAX_SIZE - used)
            fits   == length <= size - writePos
            piece  == SubSeq(d, 1, length)
            total  == used + length
<1>1. /\ used \in Nat /\ used <= MAX_SIZE /\ Len(Content) = used /\ Content \in Seq(Byte)
      /\ writePos \in Nat /\ size \in Nat /\ readPos \in Nat
  BY UsedBound, ContentType DEF IInv
<1>2. d \in Seq(Byte) /\ Len(d) \in Nat
  BY LenProperties
<1>3. /\ length \in Nat /\ length \in 0 .. Len(d) /\ used + length <= MAX_SIZE /\ length <= Len(d)
      /\ length = Len(d) \/ length = MAX_SIZE - used
  BY <1>1, <1>2 DEF Smaller
<1>4. piece \in Seq(Byte) /\ Len(piece) = length
  BY <1>2, <1>3, SubSeqType, 0 + 1 = 1
<1>5. /\ writeable /\ writeable' = writeable /\ present' = present /\ data' = <<>>
      /\ writeWaiters' = writeWaiters
      /\ t \notin readWaiters \cup writeWaiters /\ Fifo!CanCall(t)
  BY CallMaps DEF PipeWrite, CanCall
<1>6. Content' = Content \o piece
  <2>1. CASE fits
    <3>1. buffer' = buffer \o piece /\ readPos' = readPos
      BY <2>1 DEF PipeWrite
    <3>2. Len(buffer') = writePos + Len(piece)
      BY <3>1, <1>4, ConcatProperties DEF IInv, TypeOK, writePos
    <3>3. Content' = SubSeq(buffer \o piece, readPos + 1, writePos + Len(piece))
      BY <3>1, <3>2 DEF Content, writePos
    <3>. HIDE DEF piece
    <3>. QED
      BY <3>3, <1>4, ContentAppend
  <2>2. CASE ~fits
    <3>1. buffer' = Content \o piece /\ readPos' = 0
      BY <2>2 DEF PipeWrite
    <3>2. Content' = SubSeq(buffer', 1, Len(buffer'))
      BY <3>1, 0 + 1 = 1 DEF Content, writePos
    <3>3. Content \o piece \in Seq(Byte)
      BY <1>1, <1>4, ConcatProperties
    <3>. HIDE DEF piece
    <3>4. SubSeq(Content \o piece, 1, Len(Content \o piece)) = Content \o piece
      BY <3>3, SubSeqFull
    <3>. QED
      BY <3>1, <3>2, <3>4
  <2>. QED
    BY <2>1, <2>2
<1>7. Content' \in Seq(Byte) /\ Len(Content') = total
  BY <1>1, <1>4, <1>6, ConcatProperties
<1>8. Content' = <<>> <=> total = 0
  BY <1>1, <1>3, <1>7, EmptySeq
<1>9. Fifo!Settle(t, length)
  <2>. DEFINE rel == IF total > 0 THEN readWaiters ELSE {}
              eax == IF total > 0 THEN total ELSE 0
  <2>1. Wakeup(rel, eax, t, length) /\ readWaiters' = readWaiters \ rel
    <3>1. CASE total > 0
      BY <3>1 DEF PipeWrite
    <3>2. CASE ~(total > 0)
      BY <3>2 DEF PipeWrite
    <3>. QED
      BY <3>1, <3>2
  <2>2. writeWaiters # {} => total = MAX_SIZE /\ rel \cap writeWaiters = {}
    BY <1>1, <1>3 DEF IInv, NoLostWakeup
  <2>3. writeWaiters' = writeWaiters \ rel /\ rel \subseteq readWaiters \cup writeWaiters
    BY <1>5, <2>2
  <2>4. total > 0 <=> Fifo!Ready("read", Content', writeable')
    BY <1>1, <1>3, <1>5, <1>8 DEF Fifo!Ready
  <2>5. total > 0 => eax = Fifo!Answer("read", Content', writeable')
    BY <1>1, <1>3, <1>7, <1>8 DEF Fifo!Answer
  <2>6. writeWaiters # {} => ~Fifo!Ready("write", Content', writeable')
    BY <1>5, <1>7, <2>2 DEF Fifo!Ready
  <2>7. /\ \A u \in readWaiters : u \in rel <=> total > 0
        /\ \A u \in writeWaiters : u \notin rel
    BY <2>2
  <2>. HIDE DEF rel, eax, total, length
  <2>8. /\ \A u \in readWaiters : u \in rel <=> Fifo!Ready("read", Content', writeable')
        /\ \A u \in writeWaiters : u \in rel <=> Fifo!Ready("write", Content', writeable')
        /\ \A u \in readWaiters : u \in rel => eax = Fifo!Answer("read", Content', writeable')
        /\ \A u \in writeWaiters : u \in rel => eax = Fifo!Answer("write", Content', writeable')
    BY <2>4, <2>5, <2>6, <2>7
  <2>9. PICK v, e : v = length /\ e = eax
    OBVIOUS
  <2>10. Wakeup(rel, e, t, v)
    BY <2>1, <2>9 DEF Wakeup
  <2>11. Fifo!Settle(t, v)
    BY <1>5, <2>1, <2>3, <2>8, <2>9, <2>10, SettleStep
  <2>. QED
    BY <2>9, <2>11 DEF Fifo!Settle
<1>10. Len(Content') <= MAX_SIZE
  BY <1>3, <1>7
<1>. HIDE DEF length, total
<1>. PICK v : v = length
  OBVIOUS
<1>11. Fifo!Settle(t, IF writeable THEN v ELSE -1)
  BY <1>5, <1>9 DEF Fifo!Settle
<1>12. v \in 0 .. Len(d) /\ (v = Len(d) \/ v = MAX_SIZE - Len(Content)) /\ writeable
  BY <1>1, <1>3, <1>5
<1>13. Content' = Content \o SubSeq(d, 1, v) /\ UNCHANGED <<present, writeable>>
  BY <1>5, <1>6
<1>. QED
  BY <1>5, <1>10, <1>11, <1>12, <1>13 DEF Fifo!Write, Fifo!Settle, Fifo!Released

\* __pipeRead removes the oldest bytes and releases the writers.
LEMMA ReadMaps ==
    ASSUME IInv, NEW t \in Threads, NEW n \in ReadLengths, PipeRead(t, n)
    PROVE  Fifo!Read(t, n)
<1>. USE PipeAssumption
<1>. DEFINE length == Smaller(n, used)
            left   == used - length
            k      == IF n > Len(Content) THEN Len(Content) ELSE n
<1>1. /\ used \in Nat /\ used <= MAX_SIZE /\ Len(Content) = used /\ Content \in Seq(Byte)
      /\ writePos \in Nat /\ readPos \in Nat /\ n \in Nat /\ used = writePos - readPos
  BY UsedBound, ContentType DEF IInv, used
<1>2. length \in Nat /\ length <= used /\ left \in Nat /\ k = length
  BY <1>1 DEF Smaller
<1>3. /\ writeable \/ used > 0
      /\ writeable' = writeable /\ present' = present /\ readWaiters' = readWaiters
      /\ t \notin readWaiters \cup writeWaiters /\ Fifo!CanCall(t)
  BY CallMaps DEF PipeRead, CanCall
<1>4. data' = SubSeq(buffer, readPos + 1, readPos + length)
  BY DEF PipeRead
<1>5. data' = SubSeq(Content, 1, length)
  <2>. HIDE DEF length
  <2>. QED
    BY <1>2, <1>4, ContentDrop
<1>6. Content' = SubSeq(Content, length + 1, Len(Content))
  <2>1. CASE left = 0
    <3>1. buffer' = <<>> /\ readPos' = 0
      BY <2>1 DEF PipeRead
    <3>2. Content' = <<>>
      BY <3>1, ContentReset
    <3>3. length + 1 \in Int /\ Len(Content) \in Int /\ Len(Content) < length + 1
      BY <2>1, <1>1, <1>2
    <3>. HIDE DEF length
    <3>4. SubSeq(Content, length + 1, Len(Content)) = <<>>
      BY <3>3, SubSeqEmpty
    <3>. QED
      BY <3>2, <3>4
  <2>2. CASE left # 0
    <3>1. buffer' = buffer /\ readPos' = readPos + length
      BY <2>2 DEF PipeRead
    <3>. HIDE DEF length
    <3>2. Content' = SubSeq(buffer, readPos + length + 1, writePos)
      BY <3>1 DEF Content, writePos
    <3>. QED
      BY <3>2, <1>2, ContentDrop
  <2>. QED
    BY <2>1, <2>2
<1>7. Content' \in Seq(Byte) /\ Len(Content') = left
  <2>. HIDE DEF length
  <2>1. length <= Len(Content) /\ Len(Content) \in Nat /\ Len(Content) <= Len(Content)
    BY <1>1, <1>2
  <2>2. /\ SubSeq(Content, length + 1, Len(Content)) \in Seq(Byte)
        /\ Len(SubSeq(Content, length + 1, Len(Content))) = Len(Content) - length
    BY <1>1, <1>2, <2>1, SubSeqType
  <2>. QED
    BY <1>1, <1>6, <2>2
<1>8. Content' = <<>> <=> left = 0
  BY <1>2, <1>7, EmptySeq
<1>9. Fifo!Settle(t, length)
  <2>. DEFINE rel == IF left < MAX_SIZE THEN writeWaiters ELSE {}
              eax == IF left < MAX_SIZE THEN IF writeable THEN MAX_SIZE - left ELSE 0 ELSE 0
  <2>1. Wakeup(rel, eax, t, length) /\ writeWaiters' = writeWaiters \ rel
    <3>1. CASE left < MAX_SIZE
      BY <3>1 DEF PipeRead
    <3>2. CASE ~(left < MAX_SIZE)
      BY <3>2 DEF PipeRead
    <3>. QED
      BY <3>1, <3>2
  <2>2. /\ readWaiters # {} => left = 0 /\ writeable
        /\ writeWaiters # {} => writeable
        /\ rel \cap readWaiters = {}
    BY <1>1, <1>2 DEF IInv, NoLostWakeup
  <2>3. readWaiters' = readWaiters \ rel /\ rel \subseteq readWaiters \cup writeWaiters
    BY <1>3, <2>2
  <2>4. writeWaiters # {} => (left < MAX_SIZE <=> Fifo!Ready("write", Content', writeable'))
    BY <1>3, <1>7, <2>2 DEF Fifo!Ready
  <2>5. writeWaiters # {} /\ left < MAX_SIZE => eax = Fifo!Answer("write", Content', writeable')
    BY <1>3, <1>7, <2>2 DEF Fifo!Answer
  <2>6. readWaiters # {} => ~Fifo!Ready("read", Content', writeable')
    BY <1>3, <1>8, <2>2 DEF Fifo!Ready
  <2>7. /\ \A u \in writeWaiters : u \in rel <=> left < MAX_SIZE
        /\ \A u \in readWaiters : u \notin rel
    BY <2>2
  <2>. HIDE DEF rel, eax, left, length
  <2>8. /\ \A u \in readWaiters : u \in rel <=> Fifo!Ready("read", Content', writeable')
        /\ \A u \in writeWaiters : u \in rel <=> Fifo!Ready("write", Content', writeable')
        /\ \A u \in readWaiters : u \in rel => eax = Fifo!Answer("read", Content', writeable')
        /\ \A u \in writeWaiters : u \in rel => eax = Fifo!Answer("write", Content', writeable')
    BY <2>4, <2>5, <2>6, <2>7
  <2>9. PICK v, e : v = length /\ e = eax
    OBVIOUS
  <2>10. Wakeup(rel, e, t, v)
    BY <2>1, <2>9 DEF Wakeup
  <2>11. Fifo!Settle(t, v)
    BY <1>3, <2>1, <2>3, <2>8, <2>9, <2>10, SettleStep
  <2>. QED
    BY <2>9, <2>11 DEF Fifo!Settle
<1>10. ~(Content = <<>> /\ ~writeable)
  BY <1>1, <1>3, ContentEmpty
<1>11. /\ data' = SubSeq(Content, 1, k) /\ Content' = SubSeq(Content, k + 1, Len(Content))
       /\ Fifo!Settle(t, IF Content = <<>> /\ ~writeable THEN -1 ELSE k)
  <2>. HIDE DEF k, length
  <2>1. k = length
    BY <1>2
  <2>2. Fifo!Settle(t, IF Content = <<>> /\ ~writeable THEN -1 ELSE k)
    BY <1>9, <1>10, <2>1 DEF Fifo!Settle
  <2>. QED
    BY <1>5, <1>6, <2>1, <2>2
<1>. QED
  BY <1>3, <1>11 DEF Fifo!Read

\* A call that fails with -1 leaves the queue alone; nobody waits any more.
LEMMA FailsSettle ==
    ASSUME IInv, NEW t \in Threads, CanCall(t), ~writeable, CallFails(t)
    PROVE  /\ Fifo!CanCall(t) /\ Fifo!Settle(t, -1) /\ data' = <<>>
           /\ Content' = Content /\ UNCHANGED <<present, writeable>>
<1>1. /\ Content' = Content /\ UNCHANGED <<present, writeable, readWaiters, writeWaiters>>
      /\ data' = <<>> /\ result' = [result EXCEPT ![t] = -1]
  BY DEF CallFails, Content, writePos
<1>2. readWaiters = {} /\ writeWaiters = {}
  BY DEF IInv, NoLostWakeup
<1>3. Wakeup({}, -1, t, -1)
  BY <1>1 DEF Wakeup, IInv, TypeOK
<1>4. Fifo!Settle(t, -1)
  BY <1>1, <1>2, <1>3, SettleStep
<1>. QED
  BY <1>1, <1>4, CallMaps

\* A write to a closed pipe is a write of nothing.
LEMMA WriteFailsMaps ==
    ASSUME IInv, NEW t \in Threads, NEW d \in WriteData, PipeWriteFails(t)
    PROVE  Fifo!Write(t, d)
<1>1. /\ Fifo!CanCall(t) /\ Fifo!Settle(t, -1) /\ data' = <<>> /\ ~writeable
      /\ Content' = Content /\ UNCHANGED <<present, writeable>>
  BY FailsSettle DEF PipeWriteFails
<1>2. Content \in Seq(Byte) /\ Len(Content) <= MAX_SIZE
  BY ContentType, UsedBound, PipeAssumption DEF IInv
<1>3. Len(d) \in Nat
  BY PipeAssumption, LenProperties
<1>4. 0 \in Int /\ 1 \in Int /\ 0 < 1
  OBVIOUS
<1>5. SubSeq(d, 1, 0) = <<>>
  BY <1>4, SubSeqEmpty
<1>6. Content' = Content \o SubSeq(d, 1, 0) /\ 0 \in 0 .. Len(d)
  BY <1>1, <1>2, <1>3, <1>5, ConcatEmptySeq
<1>7. Len(Content') <= MAX_SIZE
  BY <1>1, <1>2
<1>. QED
  BY <1>1, <1>6, <1>7 DEF Fifo!Write, Fifo!Settle, Fifo!Released

\* A read from a closed and empty pipe is the end of the data.
LEMMA ReadFailsMaps ==
    ASSUME IInv, NEW t \in Threads, NEW n \in ReadLengths, PipeReadFails(t)
    PROVE  Fifo!Read(t, n)
<1>1. /\ Fifo!CanCall(t) /\ Fifo!Settle(t, -1) /\ data' = <<>> /\ ~writeable
      /\ Content' = Content /\ UNCHANGED <<present, writeable>>
  BY FailsSettle DEF PipeReadFails
<1>2. Content = <<>> /\ Len(Content) = 0
  BY ContentEmpty, EmptySeq DEF PipeReadFails
<1>3. n \in Nat /\ 0 \in Int /\ 1 \in Int /\ 0 < 1 /\ 0 + 1 = 1
  BY PipeAssumption
<1>. DEFINE k == IF n > Len(Content) THEN Len(Content) ELSE n
<1>4. k = 0
  BY <1>2, <1>3
<1>5. SubSeq(Content, 1, 0) = <<>>
  BY <1>3, SubSeqEmpty
<1>. HIDE DEF k
<1>6. data' = SubSeq(Content, 1, k) /\ Content' = SubSeq(Content, k + 1, Len(Content))
  BY <1>1, <1>2, <1>3, <1>4, <1>5
<1>7. Fifo!Settle(t, IF Content = <<>> /\ ~writeable THEN -1 ELSE k)
  BY <1>1, <1>2 DEF Fifo!Settle
<1>. QED
  BY <1>1, <1>6, <1>7 DEF Fifo!Read, k

\* Every step of the pipe is a step of the queue or leaves it unchanged.
LEMMA StepMaps == IInv /\ [Next]_vars => [Fifo!Next]_(Fifo!vars)
<1>. SUFFICES ASSUME IInv, [Next]_vars PROVE [Fifo!Next]_(Fifo!vars)
  OBVIOUS
<1>1. CASE UNCHANGED vars
  BY <1>1 DEF vars, Fifo!vars, Content, writePos
<1>2. ASSUME NEW t \in Threads, PipeCreate(t) \/ PipeDestroy(t) \/ ThreadExit(t)
      PROVE  Fifo!Next
  BY <1>2, CreateMaps, DestroyMaps, LeaveMaps DEF Fifo!Next
<1>3. ASSUME NEW t \in Threads, NEW mode \in {0, 1},
             PipeShutdown(t, mode) \/ PipeWait(t, mode)
      PROVE  Fifo!Next
  BY <1>3, ShutdownMaps, WaitMaps DEF Fifo!Next
<1>4. ASSUME NEW t \in Threads, NEW d \in WriteData, PipeWrite(t, d) \/ PipeWriteFails(t)
      PROVE  Fifo!Next
  BY <1>4, WriteMaps, WriteFailsMaps DEF Fifo!Next
<1>5. ASSUME NEW t \in Threads, NEW n \in ReadLengths, PipeRead(t, n) \/ PipeReadFails(t)
      PROVE  Fifo!Next
  BY <1>5, ReadMaps, ReadFailsMaps DEF Fifo!Next
<1>. QED
  BY <1>1, <1>2, <1>3, <1>4, <1>5, Zenon DEF Next

\* Before the first call there is no queue either.
LEMMA InitMaps == Init => Fifo!Init
<1>. SUFFICES ASSUME Init PROVE Fifo!Init
  OBVIOUS
<1>1. Len(<<>>) = 0 /\ 0 + 1 = 1 /\ 0 \in Int /\ 1 \in Int /\ 0 < 1
  BY EmptySeq
<1>2. SubSeq(<<>>, 1, 0) = <<>>
  BY <1>1, SubSeqEmpty
<1>3. Content = <<>>
  BY <1>1, <1>2 DEF Init, Content, writePos
<1>. QED
  BY <1>3 DEF Init, Fifo!Init

\* The pipe of process/pipe.c implements the bounded queue of bytes, with the
\* blocking and the answers its users see, for all buffer limits.
THEOREM PipeImplementsFifo == Spec => ImplementsFifo
<1>1. Init => Fifo!Init
  BY InitMaps
<1>2. IInv /\ [Next]_vars => [Fifo!Next]_(Fifo!vars)
  BY StepMaps
<1>. QED
  BY <1>1, <1>2, InvariantHolds, PTL DEF Spec, ImplementsFifo, Fifo!Spec
=============================================================================
