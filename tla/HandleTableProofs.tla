-------------------------- MODULE HandleTableProofs --------------------------
(***************************************************************************)
(* Proofs about HandleTable, for every number of processes and objects and *)
(* every pair of table sizes.                                              *)
(*                                                                         *)
(* Two invariants: IInv, about the shape of the tables, and on top of it   *)
(* CountInv, about the references.  Each operation on a table is reduced   *)
(* to what it does to the sets of open handles (Opened, Closes), and these *)
(* sets are counted with the theorems on finite sets.                      *)
(***************************************************************************)
EXTENDS HandleTable, CommonTheorems, FiniteSetTheorems, TLAPS

\* What every operation keeps true of a table: it is well formed and its
\* cached free_begin may be trusted.
Good(t) == WellFormed(t) /\ FreeBeginSound(t)

\* The inductive invariant.  It speaks about free_begin and free_end
\* together: the growth step of handleAllocate stays inside the array only
\* because its start index is bounded by free_end.
IInv ==
    /\ TypeOK
    /\ ~overrun => \A p \in live : Good(tables[p])

-----------------------------------------------------------------------------
(* Array sizes *)

\* The doubling loop ends with a size that is at least its start and at least
\* what was asked for.
LEMMA DoubleUntilBounds ==
    ASSUME NEW c \in Nat, NEW w \in Nat
    PROVE  /\ DoubleUntil(c, w) \in Nat
           /\ c <= 2 * MAX_HANDLES => DoubleUntil(c, w) >= c
           /\ w <= 2 * MAX_HANDLES => DoubleUntil(c, w) >= w
<1>. USE HandleTableAssumption
<1>. DEFINE enough == {n \in Doublings(c) : n >= w}
<1>1. enough \in SUBSET Nat /\ \A n \in enough : n >= c /\ n >= w
  BY DEF Doublings
<1>2. CASE enough = {}
  BY <1>2 DEF DoubleUntil
<1>3. CASE enough # {}
  <2>1. Min(enough) \in enough
    BY <1>1, <1>3, MinNat
  <2>. HIDE DEF enough
  <2>2. DoubleUntil(c, w) = Min(enough)
    BY <1>3 DEF DoubleUntil, enough
  <2>. QED
    BY <1>1, <2>1, <2>2
<1>. QED
  BY <1>2, <1>3

\* A forked table is never larger than the maximal size, because the maximal
\* size is itself a doubling of the minimal one.
LEMMA ForkSizeBound ==
    ASSUME NEW w \in Nat, w <= MAX_HANDLES
    PROVE  /\ DoubleUntil(MIN_HANDLES, w) \in Nat
           /\ DoubleUntil(MIN_HANDLES, w) >= MIN_HANDLES
           /\ DoubleUntil(MIN_HANDLES, w) >= w
           /\ DoubleUntil(MIN_HANDLES, w) <= MAX_HANDLES
<1>. USE HandleTableAssumption
<1>. DEFINE enough == {n \in Doublings(MIN_HANDLES) : n >= w}
<1>1. MIN_HANDLES <= 2 * MAX_HANDLES /\ MAX_HANDLES >= MIN_HANDLES
  BY SizesAssumption DEF Doublings
<1>2. MAX_HANDLES \in enough /\ enough \in SUBSET Nat
  BY SizesAssumption DEF Doublings
<1>3. Min(enough) <= MAX_HANDLES
  BY <1>2, MinNat
<1>4. DoubleUntil(MIN_HANDLES, w) = Min(enough)
  BY <1>2 DEF DoubleUntil
<1>. QED
  BY <1>1, <1>3, <1>4, DoubleUntilBounds

\* Growing an array that is not yet maximal makes it strictly larger, never
\* larger than the maximum, and large enough or maximal.
LEMMA GrownCountBounds ==
    ASSUME NEW c \in Nat, NEW w \in Nat
    PROVE  /\ GrownCount(c, w) \in Nat
           /\ GrownCount(c, w) <= MAX_HANDLES
           /\ c <= MAX_HANDLES => c <= GrownCount(c, w)
           /\ c < MAX_HANDLES /\ c > 0 => c < GrownCount(c, w)
<1>. USE HandleTableAssumption
<1>1. /\ DoubleUntil(2 * c, w) \in Nat
      /\ c <= MAX_HANDLES => DoubleUntil(2 * c, w) >= 2 * c
  BY DoubleUntilBounds
<1>. QED
  BY <1>1 DEF GrownCount

-----------------------------------------------------------------------------
(* Operations on one table *)

\* Growing keeps the cells below free_end and clears the new ones.
LEMMA GrowTable ==
    ASSUME NEW t \in Table, NEW w \in Nat
    PROVE  /\ Grow(t, w) \in Table
           /\ Grow(t, w).count = GrownCount(t.count, w)
           /\ Grow(t, w).free_begin = t.free_begin
           /\ Grow(t, w).free_end = t.free_end
           /\ \A i \in Cells : Grow(t, w).handles[i] =
                  IF t.count <= i /\ i < GrownCount(t.count, w)
                  THEN None ELSE t.handles[i]
<1>. USE HandleTableAssumption
<1>1. GrownCount(t.count, w) \in Nat
  BY GrownCountBounds DEF Table
<1>. QED
  BY <1>1 DEF Grow, Table, Cell, Cells

\* A good table stays good when it grows.
LEMMA GrowGood ==
    ASSUME NEW t \in Table, NEW w \in Nat, Good(t)
    PROVE  Good(Grow(t, w)) /\ Grow(t, w).count >= t.count
<1>. USE HandleTableAssumption
<1>. DEFINE g == Grow(t, w)
            n == GrownCount(t.count, w)
<1>1. n \in Nat /\ t.count <= n /\ n <= MAX_HANDLES
  BY GrownCountBounds DEF Table, Good, WellFormed
<1>2. /\ g \in Table /\ g.count = n
      /\ g.free_begin = t.free_begin /\ g.free_end = t.free_end
      /\ \A i \in Cells : g.handles[i] =
                  IF t.count <= i /\ i < n THEN None ELSE t.handles[i]
  BY GrowTable
<1>. HIDE DEF g, n
<1>3. \A i \in Cells : i < t.free_end => g.handles[i] = t.handles[i]
  BY <1>1, <1>2 DEF Good, WellFormed, Table, Cells
<1>4. WellFormed(g)
  <2>1. g.free_end <= g.count /\ MIN_HANDLES <= g.count /\ g.count <= MAX_HANDLES
    BY <1>1, <1>2 DEF Good, WellFormed, Table
  <2>2. g.free_end > 0 => g.handles[g.free_end - 1] \in Objects
    BY <1>1, <1>2, <1>3 DEF Good, WellFormed, Table, Cells
  <2>3. \A i \in Cells : i < g.free_end => g.handles[i] # Junk
    BY <1>2, <1>3 DEF Good, WellFormed
  <2>4. \A i \in Cells : g.free_end <= i /\ i < g.count => g.handles[i] = None
    BY <1>1, <1>2 DEF Good, WellFormed, Table, Cells
  <2>. QED
    BY <2>1, <2>2, <2>3, <2>4 DEF WellFormed
<1>5. FreeBeginSound(g)
  BY <1>1, <1>2, <1>3 DEF Good, WellFormed, FreeBeginSound, Table, Cells, Larger
<1>. QED
  BY <1>1, <1>2, <1>4, <1>5 DEF Good, g

\* The index handleAllocate uses: in a good table it is at most the array
\* size, and every cell an object with that minimal handle could use below
\* it is taken, provided the minimal handle is the default one.
LEMMA AllocIndexType ==
    ASSUME NEW t \in Table, NEW o \in Objects
    PROVE  AllocIndex(t, o) \in Nat
<1>. USE HandleTableAssumption
<1>. DEFINE start == Larger(MinHandle(o), t.free_begin)
            empty == {i \in Cells : start <= i /\ i < t.free_end /\ t.handles[i] = None}
<1>1. start \in Nat /\ t.free_end \in Nat /\ empty \in SUBSET Nat
  BY DEF Table, Larger, MinHandle, Cells
<1>2. empty # {} => Min(empty) \in Nat
  BY <1>1, MinNat
<1>. HIDE DEF start
<1>. QED
  BY <1>1, <1>2 DEF AllocIndex, Larger, start

LEMMA AllocIndexGood ==
    ASSUME NEW t \in Table, NEW o \in Objects, Good(t)
    PROVE  /\ AllocIndex(t, o) <= t.count
           /\ AllocIndex(t, o) >= t.free_begin
           /\ AllocIndex(t, o) < t.free_end => t.handles[AllocIndex(t, o)] = None
           /\ \A i \in Cells : Larger(MinHandle(o), t.free_begin) <= i
                                /\ i < AllocIndex(t, o) /\ i < t.free_end
                  => t.handles[i] \in Objects
           /\ AllocIndex(t, o) <= Larger(Larger(MinHandle(o), t.free_begin), t.free_end)
<1>. USE HandleTableAssumption
<1>. DEFINE start == Larger(MinHandle(o), t.free_begin)
            empty == {i \in Cells : start <= i /\ i < t.free_end /\ t.handles[i] = None}
<1>0. AllocIndex(t, o) = IF empty # {} THEN Min(empty) ELSE Larger(start, t.free_end)
  BY DEF AllocIndex
<1>1. /\ start \in Nat /\ t.free_end \in Nat /\ t.free_begin \in Nat
      /\ t.count \in Nat /\ start >= t.free_begin
      /\ empty \in SUBSET Nat
      /\ t.free_end <= t.count /\ start <= t.count
  BY DEF Table, Larger, MinHandle, Cells, Good, WellFormed, FreeBeginSound
<1>2. \A i \in Cells : i < t.free_end => t.handles[i] \in Objects \/ t.handles[i] = None
  BY DEF Good, WellFormed, Table, Cell
<1>3. CASE empty = {}
  <2>1. AllocIndex(t, o) = Larger(start, t.free_end)
    BY <1>0, <1>3
  <2>2. \A i \in Cells : start <= i /\ i < t.free_end => t.handles[i] \in Objects
    BY <1>2, <1>3
  <2>. HIDE DEF start, empty
  <2>. QED
    BY <1>1, <2>1, <2>2 DEF Larger, start
<1>4. CASE empty # {}
  <2>1. AllocIndex(t, o) = Min(empty)
    BY <1>0, <1>4
  <2>2. Min(empty) \in empty /\ \A y \in empty : Min(empty) <= y
    BY <1>1, <1>4, MinNat
  <2>3. \A i \in Cells : start <= i /\ i < Min(empty) /\ i < t.free_end
            => t.handles[i] \in Objects
    <3>. SUFFICES ASSUME NEW i \in Cells, start <= i, i < Min(empty), i < t.free_end
                  PROVE  t.handles[i] # None
      BY <1>2
    <3>1. i \notin empty
      BY <1>1, <2>2 DEF Cells
    <3>. QED
      BY <3>1
  <2>4. Min(empty) \in Nat /\ Min(empty) < t.free_end /\ start <= Min(empty)
        /\ t.handles[Min(empty)] = None
    BY <1>1, <2>2
  <2>. HIDE DEF start, empty
  <2>. QED
    BY <1>1, <2>1, <2>3, <2>4 DEF Larger, start
<1>. QED
  BY <1>3, <1>4

\* Every cell from the default minimal handle to the allocated index is taken.
LEMMA BelowAllocIndex ==
    ASSUME NEW t \in Table, NEW o \in Objects, Good(t)
    PROVE  \A i \in Cells : DefaultMin <= i /\ i < AllocIndex(t, o)
              => i < t.free_end /\ t.handles[i] \in Objects
<1>. USE HandleTableAssumption
<1>. SUFFICES ASSUME NEW i \in Cells, DefaultMin <= i, i < AllocIndex(t, o)
              PROVE  i < t.free_end /\ t.handles[i] \in Objects
  OBVIOUS
<1>1. AllocIndex(t, o) \in Nat
  BY AllocIndexType
<1>2. /\ AllocIndex(t, o) <= Larger(Larger(MinHandle(o), t.free_begin), t.free_end)
      /\ Larger(MinHandle(o), t.free_begin) <= i /\ i < t.free_end
            => t.handles[i] \in Objects
  BY AllocIndexGood
<1>3. /\ t.free_begin <= Larger(DefaultMin, t.free_end)
      /\ i < t.free_begin => t.handles[i] \in Objects
  BY DEF Good, FreeBeginSound
<1>4. i \in Nat /\ t.free_begin \in Nat /\ t.free_end \in Nat
  BY DEF Table, Cells
<1>. QED
  BY <1>1, <1>2, <1>3, <1>4 DEF Larger, MinHandle

\* Storing an object into a cell of the array keeps a table good, if
\* free_begin either stays or moves right behind a full prefix.
LEMMA PutGood ==
    ASSUME NEW t \in Table, Good(t), NEW u \in Table,
           NEW h \in Nat, h < t.count, NEW o \in Objects,
           u.count = t.count, u.free_end = Larger(t.free_end, h + 1),
           u.handles = [t.handles EXCEPT ![h] = o],
           \/ u.free_begin = t.free_begin
           \/ /\ u.free_begin = h + 1
              /\ \A i \in Cells : DefaultMin <= i /\ i < h => t.handles[i] \in Objects
    PROVE  Good(u)
<1>. USE HandleTableAssumption
<1>1. /\ t.count \in Nat /\ t.free_end \in Nat /\ t.free_begin \in Nat
      /\ t.handles \in [Cells -> Cell]
      /\ u.free_end \in Nat /\ u.free_end <= t.count /\ u.free_end >= t.free_end
      /\ u.free_end = h + 1 \/ (u.free_end = t.free_end /\ h + 1 <= t.free_end)
      /\ h \in Cells
  BY DEF Table, Good, WellFormed, Larger, Cells
<1>2. \A i \in Cells : u.handles[i] = IF i = h THEN o ELSE t.handles[i]
  BY <1>1
<1>3. WellFormed(u)
  <2>1. u.free_end <= u.count /\ MIN_HANDLES <= u.count /\ u.count <= MAX_HANDLES
    BY <1>1 DEF Good, WellFormed
  <2>2. u.free_end > 0 => u.handles[u.free_end - 1] \in Objects
    <3>1. CASE u.free_end = h + 1
      BY <1>1, <1>2, <3>1
    <3>2. CASE u.free_end = t.free_end /\ h + 1 <= t.free_end
      BY <1>1, <1>2, <3>2 DEF Good, WellFormed, Cells
    <3>. QED
      BY <1>1, <3>1, <3>2
  <2>3. \A i \in Cells : i < u.free_end => u.handles[i] # Junk
    <3>. SUFFICES ASSUME NEW i \in Cells, i < u.free_end, i # h
                  PROVE  t.handles[i] # Junk
      BY <1>2
    <3>. QED
      BY <1>1 DEF Good, WellFormed, Cells
  <2>4. \A i \in Cells : u.free_end <= i /\ i < u.count => u.handles[i] = None
    BY <1>1, <1>2 DEF Good, WellFormed, Cells
  <2>. QED
    BY <2>1, <2>2, <2>3, <2>4 DEF WellFormed
<1>4. FreeBeginSound(u)
  <2>1. u.free_begin <= Larger(DefaultMin, u.free_end)
    BY <1>1 DEF Good, FreeBeginSound, Larger
  <2>2. \A i \in Cells : DefaultMin <= i /\ i < u.free_begin => u.handles[i] \in Objects
    BY <1>1, <1>2 DEF Good, FreeBeginSound, Cells
  <2>. QED
    BY <2>1, <2>2 DEF FreeBeginSound
<1>. QED
  BY <1>3, <1>4 DEF Good

\* In table u, handle h is open for object o; all other handles are as in t.
Opened(u, t, h, o) ==
    \A x \in Objects : HandlesOf(u, x) = IF x = o THEN HandlesOf(t, x) \cup {h}
                                         ELSE HandlesOf(t, x) \ {h}

\* In table u, handle h is closed; all other handles are as in t.
Closes(u, t, h) == \A x \in Objects : HandlesOf(u, x) = HandlesOf(t, x) \ {h}

\* Growing opens and closes no handle.
LEMMA GrowOpen ==
    ASSUME NEW t \in Table, NEW w \in Nat, Good(t), NEW x \in Objects
    PROVE  HandlesOf(Grow(t, w), x) = HandlesOf(t, x)
<1>. USE HandleTableAssumption
<1>1. \A i \in Cells : i < t.free_end => ~ (t.count <= i)
  BY DEF Good, WellFormed, Table, Cells
<1>2. /\ Grow(t, w).free_end = t.free_end
      /\ \A i \in Cells : i < t.free_end => Grow(t, w).handles[i] = t.handles[i]
  BY <1>1, GrowTable
<1>. QED
  BY <1>2 DEF HandlesOf

\* Writing o into cell h of the array opens h for o, closes it for the object
\* it was open for, and changes no other handle, although free_end may move.
LEMMA PutOpen ==
    ASSUME NEW t \in Table, Good(t), NEW u \in Table,
           NEW h \in Nat, h < t.count, NEW o \in Objects,
           u.free_end = Larger(t.free_end, h + 1),
           u.handles = [t.handles EXCEPT ![h] = o]
    PROVE  /\ h \in Cells
           /\ Opened(u, t, h, o)
           /\ \A x \in Objects : t.handles[h] = x <=> h \in HandlesOf(t, x)
<1>. USE HandleTableAssumption
<1>1. /\ h \in Cells /\ t.free_end \in Nat /\ t.count \in Nat /\ t.count <= MAX_HANDLES
      /\ t.handles \in [Cells -> Cell]
  BY DEF Table, Cells, Good, WellFormed
<1>2. \A x \in Objects : t.handles[h] = x <=> h \in HandlesOf(t, x)
  <2>1. t.free_end <= h => t.handles[h] = None
    BY <1>1 DEF Good, WellFormed
  <2>2. h < t.free_end \/ t.free_end <= h
    BY <1>1
  <2>. QED
    BY <1>1, <2>1, <2>2 DEF HandlesOf
<1>3. ASSUME NEW x \in Objects, NEW i \in Cells
      PROVE  i < u.free_end /\ u.handles[i] = x
             <=> (i # h /\ i < t.free_end /\ t.handles[i] = x) \/ (i = h /\ x = o)
  <2>1. CASE i = h
    BY <1>1, <2>1 DEF Larger
  <2>2. CASE i # h
    <3>1. u.handles[i] = t.handles[i]
      BY <1>1, <2>2
    <3>2. i < t.free_end => i < u.free_end
      BY <1>1 DEF Larger, Cells
    <3>3. ~ (i < t.free_end) /\ i < u.free_end => t.handles[i] = None
      BY <1>1, <2>2 DEF Larger, Cells, Good, WellFormed
    <3>. QED
      BY <2>2, <3>1, <3>2, <3>3
  <2>. QED
    BY <2>1, <2>2
<1>4. ASSUME NEW x \in Objects
      PROVE  HandlesOf(u, x) = IF x = o THEN HandlesOf(t, x) \cup {h}
                                ELSE HandlesOf(t, x) \ {h}
  BY <1>1, <1>3 DEF HandlesOf
<1>. QED
  BY <1>1, <1>2, <1>4 DEF Opened

\* handleAllocate keeps the table typed and, if it has room, good.
LEMMA AllocateTable ==
    ASSUME NEW t \in Table, NEW o \in Objects
    PROVE  /\ HandleAllocate(t, o) \in Table
           /\ Good(t) /\ CanAllocate(t, o) =>
                 /\ Good(HandleAllocate(t, o))
                 /\ AllocIndex(t, o) \in Cells
                 /\ \A x \in Objects : AllocIndex(t, o) \notin HandlesOf(t, x)
                 /\ Opened(HandleAllocate(t, o), t, AllocIndex(t, o), o)
<1>. USE HandleTableAssumption
<1>. DEFINE i == AllocIndex(t, o)
            g == IF i >= t.count THEN Grow(t, i) ELSE t
            u == HandleAllocate(t, o)
<1>1. i \in Nat
  BY AllocIndexType
<1>2. g \in Table /\ g.free_begin = t.free_begin /\ g.free_end = t.free_end
  BY <1>1, GrowTable
<1>3. /\ u = [g EXCEPT !.handles = [@ EXCEPT ![i] = o],
                       !.free_begin = i + 1,
                       !.free_end = Larger(@, i + 1)]
  BY DEF HandleAllocate
<1>. HIDE DEF i, g, u
<1>4. /\ u \in Table
      /\ u.count = g.count /\ u.free_begin = i + 1
      /\ u.free_end = Larger(g.free_end, i + 1)
      /\ u.handles = [g.handles EXCEPT ![i] = o]
  <2>1. [g.handles EXCEPT ![i] = o] \in [Cells -> Cell] /\ Larger(g.free_end, i + 1) \in Nat
    <3>1. g.handles \in [Cells -> Cell] /\ o \in Cell /\ g.free_end \in Nat
      BY <1>2 DEF Table, Cell
    <3>2. [g.handles EXCEPT ![i] = o] \in [Cells -> Cell]
      BY <3>1
    <3>. QED
      BY <1>1, <3>1, <3>2 DEF Larger
  <2>2. u = [count |-> g.count, free_begin |-> i + 1,
             free_end |-> Larger(g.free_end, i + 1),
             handles |-> [g.handles EXCEPT ![i] = o]]
    BY <1>2, <1>3 DEF Table
  <2>. QED
    BY <1>1, <1>2, <2>1, <2>2 DEF Table
<1>5. ASSUME Good(t), CanAllocate(t, o)
      PROVE  /\ Good(u) /\ i \in Cells
             /\ \A x \in Objects : i \notin HandlesOf(t, x)
             /\ Opened(u, t, i, o)
  <2>1. Good(g) /\ i < g.count
    <3>1. i <= t.count /\ t.count \in Nat /\ t.count > 0 /\ t.count <= MAX_HANDLES
      BY <1>5, AllocIndexGood DEF i, Table, Good, WellFormed
    <3>2. CASE i < t.count
      BY <1>1, <1>5, <3>1, <3>2 DEF g
    <3>3. CASE i >= t.count
      <4>1. t.count < MAX_HANDLES
        BY <1>1, <1>5, <3>1, <3>3 DEF CanAllocate, i
      <4>2. t.count < GrownCount(t.count, i)
        BY <1>1, <3>1, <4>1, GrownCountBounds
      <4>3. g = Grow(t, i) /\ g.count = GrownCount(t.count, i)
        BY <1>1, <3>3, GrowTable DEF g
      <4>4. Good(g)
        BY <1>1, <1>5, <4>3, GrowGood
      <4>5. GrownCount(t.count, i) \in Nat
        BY <1>1, <3>1, GrownCountBounds
      <4>. QED
        BY <1>1, <3>1, <4>2, <4>3, <4>4, <4>5
    <3>. QED
      BY <1>1, <3>1, <3>2, <3>3
  <2>2. \A j \in Cells : DefaultMin <= j /\ j < i => g.handles[j] \in Objects
    <3>. SUFFICES ASSUME NEW j \in Cells, DefaultMin <= j, j < i
                  PROVE  g.handles[j] \in Objects
      OBVIOUS
    <3>1. j < t.free_end /\ t.handles[j] \in Objects
      BY <1>5, BelowAllocIndex DEF i
    <3>2. ~(t.count <= j)
      BY <1>5, <3>1 DEF Good, WellFormed, Table, Cells
    <3>. QED
      BY <1>1, <3>1, <3>2, GrowTable DEF g
  <2>3. Good(u)
    BY <1>1, <1>2, <1>4, <2>1, <2>2, PutGood
  <2>4. \A x \in Objects : HandlesOf(g, x) = HandlesOf(t, x)
    BY <1>1, <1>5, GrowOpen DEF g
  <2>5. i \in Cells /\ Opened(u, g, i, o)
    BY <1>1, <1>2, <1>4, <2>1, PutOpen
  <2>6. \A x \in Objects : i \notin HandlesOf(t, x)
    <3>1. i < t.free_end => t.handles[i] = None
      BY <1>5, AllocIndexGood DEF i
    <3>. QED
      BY <3>1 DEF HandlesOf
  <2>7. Opened(u, t, i, o)
    BY <2>4, <2>5 DEF Opened
  <2>. QED
    BY <2>3, <2>5, <2>6, <2>7
<1>. QED
  BY <1>4, <1>5 DEF u, i

\* handleSet keeps the table typed, and good as long as it stays inside the
\* array.
LEMMA SetTable ==
    ASSUME NEW t \in Table, NEW h \in Nat, NEW o \in Objects
    PROVE  /\ SetBase(t, h) \in Table
           /\ HandleSet(t, h, o) \in Table
           /\ Good(t) /\ h < SetBase(t, h).count =>
                 /\ Good(HandleSet(t, h, o))
                 /\ h \in Cells
                 /\ \A x \in Objects : SetBase(t, h).handles[h] = x <=> h \in HandlesOf(t, x)
                 /\ Opened(HandleSet(t, h, o), t, h, o)
<1>. USE HandleTableAssumption
<1>. DEFINE g == SetBase(t, h)
            u == HandleSet(t, h, o)
            fb == IF h = g.free_begin THEN h + 1 ELSE g.free_begin
<1>1. g \in Table /\ (Good(t) => Good(g))
  BY GrowTable, GrowGood DEF SetBase
<1>2. u = [g EXCEPT !.handles = [@ EXCEPT ![h] = o],
                    !.free_begin = IF h = @ THEN h + 1 ELSE @,
                    !.free_end = Larger(@, h + 1)]
  BY DEF HandleSet
<1>. HIDE DEF g, u
<1>3. /\ u \in Table
      /\ u.count = g.count /\ u.free_begin = fb
      /\ u.free_end = Larger(g.free_end, h + 1)
      /\ u.handles = [g.handles EXCEPT ![h] = o]
  <2>1. g.handles \in [Cells -> Cell] /\ o \in Cell /\ g.free_end \in Nat
        /\ g.free_begin \in Nat
    BY <1>1 DEF Table, Cell
  <2>2. [g.handles EXCEPT ![h] = o] \in [Cells -> Cell]
    BY <2>1
  <2>3. u = [count |-> g.count, free_begin |-> fb,
             free_end |-> Larger(g.free_end, h + 1),
             handles |-> [g.handles EXCEPT ![h] = o]]
    BY <1>1, <1>2 DEF Table
  <2>4. Larger(g.free_end, h + 1) \in Nat /\ fb \in Nat
    BY <2>1 DEF Larger
  <2>. HIDE DEF fb
  <2>. QED
    BY <1>1, <2>2, <2>3, <2>4 DEF Table
<1>4. ASSUME Good(t), h < g.count
      PROVE  /\ Good(u) /\ h \in Cells
             /\ \A x \in Objects : g.handles[h] = x <=> h \in HandlesOf(t, x)
             /\ Opened(u, t, h, o)
  <2>1. \/ u.free_begin = g.free_begin
        \/ /\ u.free_begin = h + 1
           /\ \A i \in Cells : DefaultMin <= i /\ i < h => g.handles[i] \in Objects
    BY <1>1, <1>3, <1>4 DEF Good, FreeBeginSound
  <2>2. Good(u)
    BY <1>1, <1>3, <1>4, <2>1, PutGood
  <2>3. \A x \in Objects : HandlesOf(g, x) = HandlesOf(t, x)
    BY <1>4, GrowOpen DEF g, SetBase
  <2>4. /\ h \in Cells /\ Opened(u, g, h, o)
        /\ \A x \in Objects : g.handles[h] = x <=> h \in HandlesOf(g, x)
    BY <1>1, <1>3, <1>4, PutOpen
  <2>. QED
    BY <2>2, <2>3, <2>4 DEF Opened
<1>. QED
  BY <1>1, <1>3, <1>4 DEF u, g

\* The loop that moves free_end down stops right behind the last used cell.
LEMMA LastUsedBound ==
    ASSUME NEW t \in Table
    PROVE  /\ LastUsed(t) \in Nat
           /\ LastUsed(t) <= t.free_end
           /\ LastUsed(t) > 0 => /\ LastUsed(t) - 1 \in Cells
                                 /\ t.handles[LastUsed(t) - 1] # None
           /\ \A i \in Cells : LastUsed(t) <= i /\ i < t.free_end => t.handles[i] = None
<1>. USE HandleTableAssumption
<1>. DEFINE used == {i \in Cells : i < t.free_end /\ t.handles[i] # None}
<1>0. t.free_end \in Nat
  BY DEF Table
<1>1. used \in SUBSET (0 .. MAX_HANDLES) /\ \A i \in used : i \in Cells /\ i < t.free_end
  BY DEF Cells
<1>2. CASE used = {}
  BY <1>0, <1>2 DEF LastUsed, Cells
<1>3. CASE used # {}
  <2>1. Max(used) \in used /\ \A y \in used : Max(used) >= y
    BY <1>1, <1>3, MaxNat
  <2>2. LastUsed(t) = Max(used) + 1
    BY <1>3 DEF LastUsed
  <2>3. Max(used) \in Cells /\ Max(used) < t.free_end /\ t.handles[Max(used)] # None
    BY <2>1
  <2>4. \A i \in Cells : Max(used) + 1 <= i /\ i < t.free_end => t.handles[i] = None
    <3>. SUFFICES ASSUME NEW i \in Cells, Max(used) + 1 <= i, i < t.free_end,
                         t.handles[i] # None
                  PROVE  FALSE
      OBVIOUS
    <3>1. i \in used
      OBVIOUS
    <3>. QED
      BY <2>1, <2>3, <3>1 DEF Cells
  <2>. HIDE DEF used
  <2>. QED
    BY <1>0, <2>2, <2>3, <2>4 DEF Cells
<1>. QED
  BY <1>2, <1>3

\* Shrinking a table whose handles all lie in the first quarter loses none.
LEMMA ShrinkTable ==
    ASSUME NEW t \in Table
    PROVE  /\ Shrink(t) \in Table
           /\ Good(t) /\ t.free_end < t.count \div 4 => Good(Shrink(t))
           /\ t.free_end < t.count \div 4 =>
                 \A x \in Objects : HandlesOf(Shrink(t), x) = HandlesOf(t, x)
<1>. USE HandleTableAssumption
<1>. DEFINE n == Larger(t.count \div 4, MIN_HANDLES)
            u == Shrink(t)
<1>1. t.count \in Nat /\ t.count \div 4 \in Nat /\ t.count \div 4 <= t.count
      /\ t.free_end \in Nat
  BY DEF Table
<1>2. n \in Nat /\ t.count \div 4 <= n /\ MIN_HANDLES <= n
      /\ (n = t.count \div 4 \/ n = MIN_HANDLES)
  BY <1>1 DEF Larger
<1>. HIDE DEF n
<1>3. /\ u \in Table
      /\ u.count = n /\ u.free_begin = t.free_begin /\ u.free_end = t.free_end
      /\ \A i \in Cells : u.handles[i] = IF i < n THEN t.handles[i] ELSE Junk
  BY <1>2 DEF Shrink, Table, Cell, Cells, n
<1>. HIDE DEF u
<1>4. ASSUME Good(t), t.free_end < t.count \div 4
      PROVE  Good(u)
  <2>1. n <= t.count /\ t.free_end < n /\ n <= MAX_HANDLES
    BY <1>1, <1>2, <1>4 DEF Good, WellFormed
  <2>2. WellFormed(u)
    <3>1. u.free_end > 0 => u.handles[u.free_end - 1] \in Objects
      BY <1>1, <1>2, <1>3, <1>4, <2>1 DEF Good, WellFormed, Cells
    <3>2. \A i \in Cells : i < u.free_end => u.handles[i] # Junk
      BY <1>1, <1>2, <1>3, <1>4, <2>1 DEF Good, WellFormed, Cells
    <3>3. \A i \in Cells : u.free_end <= i /\ i < u.count => u.handles[i] = None
      BY <1>1, <1>2, <1>3, <1>4, <2>1 DEF Good, WellFormed, Cells
    <3>. QED
      BY <1>1, <1>2, <1>3, <2>1, <3>1, <3>2, <3>3 DEF WellFormed
  <2>3. FreeBeginSound(u)
    <3>1. \A i \in Cells : DefaultMin <= i /\ i < u.free_begin => u.handles[i] \in Objects
      <4>. SUFFICES ASSUME NEW i \in Cells, DefaultMin <= i, i < t.free_begin
                    PROVE  i < n
        BY <1>3, <1>4 DEF Good, FreeBeginSound
      <4>. QED
        BY <1>1, <1>2, <1>4, <2>1 DEF Good, FreeBeginSound, Larger, Cells, Table
    <3>. QED
      BY <1>3, <1>4, <3>1 DEF Good, FreeBeginSound
  <2>. QED
    BY <2>2, <2>3 DEF Good
<1>5. ASSUME t.free_end < t.count \div 4, NEW x \in Objects
      PROVE  HandlesOf(u, x) = HandlesOf(t, x)
  <2>1. \A i \in Cells : i < t.free_end => i < n
    BY <1>1, <1>2, <1>5 DEF Cells
  <2>. QED
    BY <1>3, <2>1 DEF HandlesOf
<1>. QED
  BY <1>3, <1>4, <1>5 DEF u

\* Clearing a cell keeps everything but the fact that the last cell is used.
LEMMA ClearCellTable ==
    ASSUME NEW t \in Table, NEW h \in Cells
    PROVE  /\ ClearCell(t, h) \in Table
           /\ ClearCell(t, h).count = t.count
           /\ ClearCell(t, h).free_end = t.free_end
           /\ ClearCell(t, h).free_begin = IF h < t.free_begin THEN h ELSE t.free_begin
           /\ \A i \in Cells : ClearCell(t, h).handles[i] =
                                  IF i = h THEN None ELSE t.handles[i]
<1>. DEFINE u == ClearCell(t, h)
            fb == IF h < t.free_begin THEN h ELSE t.free_begin
<1>1. u = [t EXCEPT !.handles = [@ EXCEPT ![h] = None],
                    !.free_begin = IF h < @ THEN h ELSE @]
  BY DEF ClearCell
<1>2. u.handles = [t.handles EXCEPT ![h] = None] /\ u.free_begin = fb
      /\ u.count = t.count /\ u.free_end = t.free_end
  BY <1>1 DEF Table
<1>3. [t.handles EXCEPT ![h] = None] \in [Cells -> Cell] /\ fb \in Nat
  BY HandleTableAssumption DEF Cell, Table, Cells
<1>4. u \in Table
  BY <1>1, <1>3 DEF Table
<1>. QED
  BY <1>2, <1>4 DEF Table

\* handleRelease of an open handle keeps the table typed and good.
LEMMA ReleaseTable ==
    ASSUME NEW t \in Table, NEW h \in Cells, h < t.free_end
    PROVE  /\ HandleRelease(t, h) \in Table
           /\ Good(t) => /\ Good(HandleRelease(t, h))
                         /\ Closes(HandleRelease(t, h), t, h)
<1>. USE HandleTableAssumption
<1>. DEFINE c == ClearCell(t, h)
            m == Trim(c)
<1>0. h \in Nat /\ t.free_end \in Nat /\ t.free_begin \in Nat /\ t.count \in Nat
      /\ t.handles \in [Cells -> Cell]
  BY DEF Cells, Table
<1>1. /\ c \in Table /\ c.count = t.count /\ c.free_end = t.free_end
      /\ c.free_begin = IF h < t.free_begin THEN h ELSE t.free_begin
      /\ \A i \in Cells : c.handles[i] = IF i = h THEN None ELSE t.handles[i]
  BY ClearCellTable
<1>2. HandleRelease(t, h) =
        IF h # t.free_end - 1 THEN c
        ELSE IF MIN_HANDLES < m.free_end /\ m.free_end < t.count \div 4
             THEN Shrink(m) ELSE m
  BY DEF HandleRelease
<1>. HIDE DEF c
<1>3. /\ m \in Table /\ m.count = t.count /\ m.free_end = LastUsed(c)
      /\ m.free_begin = c.free_begin /\ m.handles = c.handles
  BY <1>0, <1>1, LastUsedBound DEF Table, Trim
<1>. HIDE DEF m
<1>4. HandleRelease(t, h) \in Table
  BY <1>1, <1>2, <1>3, ShrinkTable
<1>5. ASSUME Good(t) PROVE Good(HandleRelease(t, h))
  <2>0. c.free_begin \in Nat /\ c.free_begin <= t.free_begin /\ c.free_begin <= h
    BY <1>0, <1>1
  <2>1. /\ \A i \in Cells : i < t.free_end => c.handles[i] # Junk
        /\ \A i \in Cells : t.free_end <= i /\ i < t.count => c.handles[i] = None
        /\ \A i \in Cells : DefaultMin <= i /\ i < c.free_begin => c.handles[i] \in Objects
    <3>1. \A i \in Cells : i < t.free_end => c.handles[i] # Junk
      BY <1>1, <1>5 DEF Good, WellFormed
    <3>2. \A i \in Cells : t.free_end <= i /\ i < t.count => c.handles[i] = None
      BY <1>1, <1>5 DEF Good, WellFormed
    <3>3. \A i \in Cells : DefaultMin <= i /\ i < c.free_begin => c.handles[i] \in Objects
      BY <1>0, <1>1, <1>5, <2>0 DEF Good, FreeBeginSound, Cells
    <3>. QED
      BY <3>1, <3>2, <3>3
  <2>2. CASE h # t.free_end - 1
    <3>1. WellFormed(c)
      BY <1>0, <1>1, <1>5, <2>1, <2>2 DEF Good, WellFormed, Cells
    <3>2. FreeBeginSound(c)
      BY <1>0, <1>1, <1>5, <2>0, <2>1 DEF Good, FreeBeginSound, Larger
    <3>. QED
      BY <1>2, <2>2, <3>1, <3>2 DEF Good
  <2>3. CASE h = t.free_end - 1
    <3>0. /\ LastUsed(c) \in Nat /\ LastUsed(c) <= t.free_end
          /\ LastUsed(c) > 0 => /\ LastUsed(c) - 1 \in Cells
                                /\ c.handles[LastUsed(c) - 1] # None
          /\ \A i \in Cells : LastUsed(c) <= i /\ i < t.free_end => c.handles[i] = None
      BY <1>1, LastUsedBound
    <3>1. WellFormed(m)
      <4>1. m.free_end > 0 => m.handles[m.free_end - 1] \in Objects
        <5>. SUFFICES ASSUME LastUsed(c) > 0
                      PROVE  c.handles[LastUsed(c) - 1] \in Objects
          BY <1>3
        <5>1. LastUsed(c) - 1 \in Cells /\ c.handles[LastUsed(c) - 1] # None
              /\ c.handles[LastUsed(c) - 1] # Junk
          BY <1>0, <2>1, <3>0
        <5>. QED
          BY <1>1, <5>1 DEF Table, Cell
      <4>2. \A i \in Cells : m.free_end <= i /\ i < m.count => m.handles[i] = None
        BY <1>0, <1>3, <2>1, <3>0 DEF Cells
      <4>3. \A i \in Cells : i < m.free_end => m.handles[i] # Junk
        BY <1>0, <1>3, <2>1, <3>0 DEF Cells
      <4>. QED
        BY <1>0, <1>3, <1>5, <3>0, <4>1, <4>2, <4>3 DEF Good, WellFormed
    <3>2. FreeBeginSound(m)
      <4>1. c.free_begin <= h
        BY <2>0
      <4>2. c.free_begin <= Larger(DefaultMin, LastUsed(c))
        <5>. SUFFICES ASSUME c.free_begin > DefaultMin, c.free_begin > LastUsed(c)
                      PROVE  FALSE
          BY <1>0, <2>0, <3>0 DEF Larger
        <5>1. c.free_begin - 1 \in Cells /\ c.free_begin - 1 >= DefaultMin
          BY <1>0, <2>0, <4>1 DEF Cells
        <5>2. c.handles[c.free_begin - 1] \in Objects
          BY <2>0, <2>1, <5>1
        <5>. QED
          BY <1>0, <2>0, <3>0, <4>1, <5>1, <5>2
      <4>. QED
        BY <1>3, <2>1, <4>2 DEF FreeBeginSound
    <3>. QED
      BY <1>2, <1>3, <2>3, <3>1, <3>2, ShrinkTable DEF Good
  <2>. QED
    BY <2>2, <2>3
<1>6. ASSUME Good(t), NEW x \in Objects 
      PROVE  HandlesOf(HandleRelease(t, h), x) = HandlesOf(t, x) \ {h}
  <2>1. HandlesOf(c, x) = HandlesOf(t, x) \ {h}
    BY <1>0, <1>1 DEF HandlesOf
  <2>2. HandlesOf(m, x) = HandlesOf(c, x)
    <3>1. /\ LastUsed(c) \in Nat /\ LastUsed(c) <= t.free_end
          /\ \A i \in Cells : LastUsed(c) <= i /\ i < t.free_end => c.handles[i] = None
      BY <1>1, LastUsedBound
    <3>2. \A i \in Cells : i < LastUsed(c) => i < t.free_end
      BY <1>0, <3>1 DEF Cells
    <3>3. \A i \in Cells : i < t.free_end /\ c.handles[i] = x => i < LastUsed(c)
      BY <1>0, <3>1 DEF Cells
    <3>. QED
      BY <1>1, <1>3, <3>2, <3>3 DEF HandlesOf
  <2>3. m.free_end < t.count \div 4 => HandlesOf(Shrink(m), x) = HandlesOf(m, x)
    BY <1>3, ShrinkTable
  <2>. QED
    BY <1>2, <2>1, <2>2, <2>3
<1>. QED
  BY <1>4, <1>5, <1>6 DEF Closes

\* handleForkTable copies a good table into a good table.
LEMMA ForkTable ==
    ASSUME NEW t \in Table
    PROVE  /\ HandleForkTable(t) \in Table
           /\ Good(t) => Good(HandleForkTable(t))
           /\ \A x : HandlesOf(HandleForkTable(t), x) = HandlesOf(t, x)
<1>. USE HandleTableAssumption
<1>. DEFINE n == DoubleUntil(MIN_HANDLES, t.free_end)
            u == HandleForkTable(t)
<1>0. t.free_end \in Nat /\ t.free_begin \in Nat /\ t.count \in Nat
      /\ t.handles \in [Cells -> Cell]
  BY DEF Table
<1>1. n \in Nat
  BY <1>0, DoubleUntilBounds
<1>. HIDE DEF n
<1>2. /\ u \in Table
      /\ u.count = n /\ u.free_begin = t.free_begin /\ u.free_end = t.free_end
      /\ \A i \in Cells : u.handles[i] = IF i < t.free_end THEN t.handles[i]
                                          ELSE IF i < n THEN None ELSE Junk
  BY <1>0, <1>1 DEF HandleForkTable, Table, Cell, n
<1>. HIDE DEF u
<1>3. ASSUME Good(t) PROVE Good(u)
  <2>1. n >= MIN_HANDLES /\ n >= t.free_end /\ n <= MAX_HANDLES
    BY <1>0, <1>3, ForkSizeBound DEF n, Good, WellFormed
  <2>2. WellFormed(u)
    <3>1. u.free_end > 0 => u.handles[u.free_end - 1] \in Objects
      BY <1>0, <1>2, <1>3 DEF Good, WellFormed, Cells
    <3>. QED
      BY <1>0, <1>1, <1>2, <1>3, <2>1, <3>1 DEF Good, WellFormed, Cells
  <2>3. FreeBeginSound(u)
    BY <1>0, <1>2, <1>3 DEF Good, FreeBeginSound, Larger, Cells
  <2>. QED
    BY <2>2, <2>3 DEF Good
<1>4. ASSUME NEW x PROVE HandlesOf(u, x) = HandlesOf(t, x)
  BY <1>2 DEF HandlesOf
<1>. QED
  BY <1>2, <1>3, <1>4 DEF u

\* The number of handles to an object is a natural number.
LEMMA HandlesOfFinite ==
    ASSUME NEW t, NEW o
    PROVE  Cardinality(HandlesOf(t, o)) \in Nat
<1>1. IsFiniteSet(Cells)
  BY HandleTableAssumption, FS_Interval DEF Cells
<1>2. HandlesOf(t, o) \subseteq Cells
  BY DEF HandlesOf
<1>. QED
  BY <1>1, <1>2, FS_Subset, FS_CardinalityType

-----------------------------------------------------------------------------
(* The inductive invariant *)

\* The first process starts with an empty, good table.
LEMMA InitIInv == Init => IInv
<1>. USE HandleTableAssumption
<1>. SUFFICES ASSUME Init PROVE IInv
  OBVIOUS
<1>1. HandleTableInit \in Table /\ Closed \in Table
  BY DEF HandleTableInit, Closed, Table, Cell
<1>2. Good(HandleTableInit)
  <2>1. MIN_HANDLES <= MAX_HANDLES
    BY SizesAssumption DEF Doublings
  <2>. QED
    BY <2>1 DEF Good, WellFormed, FreeBeginSound, HandleTableInit, Larger, Cells
<1>3. PICK p \in Procs :
        /\ live = {p}
        /\ tables = [q \in Procs |-> IF q = p THEN HandleTableInit ELSE Closed]
        /\ refs = [o \in Objects |-> IF o = p THEN 1 ELSE 0]
  BY DEF Init
<1>4. TypeOK
  <2>1. tables \in [Procs -> Table]
    BY <1>1, <1>3
  <2>2. refs \in [Objects -> Int]
    BY <1>3
  <2>3. live \subseteq Procs
    BY <1>3
  <2>. QED
    BY <2>1, <2>2, <2>3 DEF Init, TypeOK
<1>. QED
  BY <1>2, <1>3, <1>4 DEF IInv

\* Every system call keeps the tables typed and, inside the array, good.
LEMMA NextIInv == IInv /\ [Next]_vars => IInv'
<1>. USE HandleTableAssumption
<1>. SUFFICES ASSUME IInv, [Next]_vars PROVE IInv'
  OBVIOUS
<1>0. /\ TypeOK
      /\ ~overrun => \A r \in live : Good(tables[r])
      /\ \A r \in Procs : tables[r] \in Table
  BY DEF IInv, TypeOK
<1>1. ASSUME NEW p \in Procs, NEW o \in Objects, CreateObject(p, o)
      PROVE  IInv'
  <2>1. CASE CanAllocate(tables[p], o)
    <3>1. /\ HandleAllocate(tables[p], o) \in Table
          /\ Good(tables[p]) => Good(HandleAllocate(tables[p], o))
      BY <1>0, <2>1, AllocateTable
    <3>. QED
      BY <1>0, <1>1, <2>1, <3>1 DEF CreateObject, Running, IInv, TypeOK
  <2>2. CASE ~CanAllocate(tables[p], o)
    BY <1>0, <1>1, <2>2 DEF CreateObject, IInv, TypeOK
  <2>. QED
    BY <2>1, <2>2
<1>2. ASSUME NEW p \in Procs, NEW h \in Cells, Dup(p, h)
      PROVE  IInv'
  <2>. DEFINE o == HandleGet(tables[p], h)
              t == tables[p]
  <2>1. /\ o \in Objects /\ CanAllocate(t, o) /\ p \in live
        /\ tables' = [tables EXCEPT ![p] = HandleAllocate(t, o)]
        /\ refs' = [refs EXCEPT ![o] = @ + 1]
        /\ UNCHANGED <<live, overrun, panic>>
    BY <1>2 DEF Dup, Running
  <2>. HIDE DEF o
  <2>2. HandleAllocate(t, o) \in Table /\ (Good(t) => Good(HandleAllocate(t, o)))
    BY <1>0, <2>1, AllocateTable
  <2>. QED
    BY <1>0, <2>1, <2>2 DEF IInv, TypeOK
<1>3. ASSUME NEW p \in Procs, NEW h \in Cells, NEW target \in SetHandles,
             Dup2(p, h, target)
      PROVE  IInv'
  <2>. DEFINE o == HandleGet(tables[p], h)
  <2>1. o \in Objects /\ target \in Nat
    BY <1>3 DEF Dup2
  <2>2. HandleSet(tables[p], target, o) \in Table
    BY <1>0, <2>1, SetTable
  <2>3. ~overrun' => ~overrun /\ ~(target >= SetBase(tables[p], target).count)
    BY <1>3 DEF Dup2
  <2>4. ~overrun' => Good(HandleSet(tables[p], target, o))
    <3>1. SetBase(tables[p], target).count \in Nat
      BY <1>0, <2>1, SetTable DEF Table
    <3>2. p \in live /\ (~ overrun' => target < SetBase(tables[p], target).count)
      BY <1>3, <2>1, <2>3, <3>1 DEF Dup2, Running
    <3>. HIDE DEF o
    <3>3. Good(tables[p]) /\ target < SetBase(tables[p], target).count
             => Good(HandleSet(tables[p], target, o))
      BY <1>0, <2>1, SetTable
    <3>. QED
      BY <1>0, <2>3, <3>2, <3>3
  <2>5. tables' = [tables EXCEPT ![p] = HandleSet(tables[p], target, o)]
        /\ live' = live
    BY <1>3 DEF Dup2
  <2>6. TypeOK'
    BY <1>0, <1>3, <2>2, <2>5 DEF Dup2, TypeOK
  <2>. HIDE DEF o
  <2>. QED
    BY <1>0, <2>3, <2>4, <2>5, <2>6 DEF IInv, TypeOK
<1>4. ASSUME NEW p \in Procs, NEW h \in Cells, Close(p, h)
      PROVE  IInv'
  <2>1. h < tables[p].free_end
    BY <1>0, <1>4 DEF Close, HandleGet, Table, Cells
  <2>2. /\ HandleRelease(tables[p], h) \in Table
        /\ Good(tables[p]) => Good(HandleRelease(tables[p], h))
    BY <1>0, <2>1, ReleaseTable
  <2>. QED
    BY <1>0, <1>4, <2>2 DEF Close, Running, IInv, TypeOK
<1>5. ASSUME NEW p \in Procs, NEW q \in Procs, Fork(p, q)
      PROVE  IInv'
  <2>. DEFINE child  == HandleForkTable(tables[p])
              parent == IF CanAllocate(tables[p], q)
                        THEN HandleAllocate(tables[p], q) ELSE tables[p]
  <2>1. child \in Table /\ (Good(tables[p]) => Good(child))
    BY <1>0, ForkTable
  <2>2. parent \in Table /\ (Good(tables[p]) => Good(parent))
    BY <1>0, AllocateTable
  <2>. HIDE DEF child, parent
  <2>3. /\ tables' = [tables EXCEPT ![q] = child, ![p] = parent]
        /\ live' = live \cup {q} /\ p \in live /\ p # q
        /\ overrun' = overrun /\ panic' = panic
    BY <1>5 DEF Fork, Running, child, parent
  <2>4. refs' \in [Objects -> Int]
    BY <1>0, <1>5, HandlesOfFinite DEF Fork, TypeOK
  <2>. QED
    BY <1>0, <2>1, <2>2, <2>3, <2>4 DEF IInv, TypeOK
<1>6. ASSUME NEW p \in Procs, Exit(p)
      PROVE  IInv'
  <2>1. Closed \in Table
    BY DEF Closed, Table, Cell
  <2>2. refs' \in [Objects -> Int]
    BY <1>0, <1>6, HandlesOfFinite DEF Exit, TypeOK
  <2>. QED
    BY <1>0, <1>6, <2>1, <2>2 DEF Exit, IInv, TypeOK
<1>7. CASE UNCHANGED vars
  BY <1>0, <1>7 DEF vars, IInv, TypeOK
<1>. QED
  BY <1>1, <1>2, <1>3, <1>4, <1>5, <1>6, <1>7 DEF Next

\* Type correctness: no sequence of system calls leaves the C structures
\* without a value of their type.
THEOREM TypeCorrect == Spec => []TypeOK
<1>1. IInv => TypeOK
  BY DEF IInv
<1>. QED
  BY <1>1, InitIInv, NextIInv, PTL DEF Spec

\* As long as handleSet has not written behind the array, every table is well
\* formed: free_end is the last used element + 1 and lies inside the array.
THEOREM WellFormedCorrect == Spec => []TablesWellFormed
<1>1. IInv => TablesWellFormed
  BY DEF IInv, Good, TablesWellFormed
<1>. QED
  BY <1>1, InitIInv, NextIInv, PTL DEF Spec

\* The search that starts at the cached free_begin finds the lowest possible
\* handle for every object with the default minimal handle.
THEOREM LowestDefaultCorrect == Spec => []LowestDefaultHandle
<1>1. IInv => LowestDefaultHandle
  BY BelowAllocIndex DEF IInv, TypeOK, LowestDefaultHandle
<1>. QED
  BY <1>1, InitIInv, NextIInv, PTL DEF Spec

-----------------------------------------------------------------------------
(* Reference counts *)

\* The open handles to x in the tables T of the processes L; OpenTo(x) of the
\* current state, or of the next one.
Pairs(L, T, x) == {at \in L \X Cells : at[2] \in HandlesOf(T[at[1]], x)}

\* OpenTo, before and after a step.
LEMMA OpenToPairs ==
    ASSUME NEW x
    PROVE  OpenTo(x) = Pairs(live, tables, x) /\ OpenTo(x)' = Pairs(live', tables', x)
  BY DEF OpenTo, Pairs, HandlesOf

\* A pair of a process and a handle is in the set if the handle is open there.
LEMMA PairsElement ==
    ASSUME NEW L, NEW T, NEW x
    PROVE  /\ \A r, h : <<r, h>> \in Pairs(L, T, x) <=> r \in L /\ h \in HandlesOf(T[r], x)
           /\ \A at \in Pairs(L, T, x) : at = <<at[1], at[2]>> /\ at[1] \in L
                                         /\ at[2] \in HandlesOf(T[at[1]], x)
  BY DEF Pairs, HandlesOf

\* Two sets of open handles are equal if they have the same pairs.
LEMMA PairsEqual ==
    ASSUME NEW A, NEW B, \A at \in A : at = <<at[1], at[2]>>, \A at \in B : at = <<at[1], at[2]>>,
           \A r, h : <<r, h>> \in A <=> <<r, h>> \in B
    PROVE  A = B
<1>1. \A at \in A : at \in B
  <2>. SUFFICES ASSUME NEW at \in A PROVE at \in B
    OBVIOUS
  <2>1. PICK r, h : at = <<r, h>>
    OBVIOUS
  <2>2. <<r, h>> \in A <=> <<r, h>> \in B
    OBVIOUS
  <2>. QED
    BY <2>1, <2>2
<1>2. \A at \in B : at \in A
  <2>. SUFFICES ASSUME NEW at \in B PROVE at \in A
    OBVIOUS
  <2>1. PICK r, h : at = <<r, h>>
    OBVIOUS
  <2>2. <<r, h>> \in A <=> <<r, h>> \in B
    OBVIOUS
  <2>. QED
    BY <2>1, <2>2
<1>. QED
  BY <1>1, <1>2

\* Finitely many processes have finitely many open handles.
LEMMA PairsFinite ==
    ASSUME NEW L, IsFiniteSet(L), NEW T, NEW x
    PROVE  IsFiniteSet(Pairs(L, T, x)) /\ Cardinality(Pairs(L, T, x)) \in Nat
<1>1. IsFiniteSet(Cells)
  BY HandleTableAssumption, FS_Interval DEF Cells
<1>2. IsFiniteSet(L \X Cells)
  BY <1>1, FS_Product
<1>3. Pairs(L, T, x) \in SUBSET (L \X Cells)
  BY DEF Pairs
<1>4. IsFiniteSet(Pairs(L, T, x))
  BY <1>2, <1>3, FS_Subset
<1>. QED
  BY <1>4, FS_CardinalityType

\* The tables of all processes in L but p are the same.
SameButOne(L, T, U, p) == \A r \in L \ {p} : U[r] = T[r]

\* One table is replaced by one in which h is open for o.
LEMMA PairsOpened ==
    ASSUME NEW L, IsFiniteSet(L), NEW T, NEW U, NEW p \in L, NEW x \in Objects,
           NEW h, NEW o \in Objects,
           SameButOne(L, T, U, p), Opened(U[p], T[p], h, o)
    PROVE  /\ x = o => Cardinality(Pairs(L, U, x)) =
                 Cardinality(Pairs(L, T, x)) + (IF h \in HandlesOf(T[p], x) THEN 0 ELSE 1)
           /\ x # o => Cardinality(Pairs(L, U, x)) =
                 Cardinality(Pairs(L, T, x)) - (IF h \in HandlesOf(T[p], x) THEN 1 ELSE 0)
<1>. DEFINE A == Pairs(L, T, x)
            B == Pairs(L, U, x)
            C == IF x = o THEN A \cup {<<p, h>>} ELSE A \ {<<p, h>>}
<1>1. IsFiniteSet(A) /\ Cardinality(A) \in Nat
  BY PairsFinite
<1>2. /\ \A r, k : <<r, k>> \in A <=> r \in L /\ k \in HandlesOf(T[r], x)
      /\ \A r, k : <<r, k>> \in B <=> r \in L /\ k \in HandlesOf(U[r], x)
      /\ \A at \in A : at = <<at[1], at[2]>>
      /\ \A at \in B : at = <<at[1], at[2]>>
  BY PairsElement
<1>. HIDE DEF A, B
<1>3. \A r, k : <<r, k>> \in B <=> <<r, k>> \in C
  BY <1>2 DEF Opened, SameButOne
<1>4. \A at \in C : at = <<at[1], at[2]>>
  BY <1>2
<1>. HIDE DEF C
<1>5. B = C
  BY <1>2, <1>3, <1>4, PairsEqual
<1>6. x = o => Cardinality(C) = IF <<p, h>> \in A THEN Cardinality(A) ELSE Cardinality(A) + 1
  BY <1>1, FS_AddElement DEF C
<1>7. x # o => Cardinality(C) = IF <<p, h>> \in A THEN Cardinality(A) - 1 ELSE Cardinality(A)
  BY <1>1, FS_RemoveElement DEF C
<1>8. /\ x = o => Cardinality(B) = Cardinality(A) + (IF h \in HandlesOf(T[p], x) THEN 0 ELSE 1)
      /\ x # o => Cardinality(B) = Cardinality(A) - (IF h \in HandlesOf(T[p], x) THEN 1 ELSE 0)
  BY <1>1, <1>2, <1>5, <1>6, <1>7
<1>. QED
  BY <1>8 DEF A, B

\* One table is replaced by one in which h is closed.
LEMMA PairsClosed ==
    ASSUME NEW L, IsFiniteSet(L), NEW T, NEW U, NEW p \in L, NEW x \in Objects, NEW h,
           SameButOne(L, T, U, p), Closes(U[p], T[p], h)
    PROVE  Cardinality(Pairs(L, U, x)) =
              Cardinality(Pairs(L, T, x)) - (IF h \in HandlesOf(T[p], x) THEN 1 ELSE 0)
<1>. DEFINE A == Pairs(L, T, x)
            B == Pairs(L, U, x)
            C == A \ {<<p, h>>}
<1>1. IsFiniteSet(A) /\ Cardinality(A) \in Nat
  BY PairsFinite
<1>2. /\ \A r, k : <<r, k>> \in A <=> r \in L /\ k \in HandlesOf(T[r], x)
      /\ \A r, k : <<r, k>> \in B <=> r \in L /\ k \in HandlesOf(U[r], x)
      /\ \A at \in A : at = <<at[1], at[2]>>
      /\ \A at \in B : at = <<at[1], at[2]>>
  BY PairsElement
<1>. HIDE DEF A, B
<1>3. \A r, k : <<r, k>> \in B <=> <<r, k>> \in C
  BY <1>2 DEF Closes, SameButOne
<1>4. \A at \in C : at = <<at[1], at[2]>>
  BY <1>2
<1>. HIDE DEF C
<1>5. B = C
  BY <1>2, <1>3, <1>4, PairsEqual
<1>6. Cardinality(C) = IF <<p, h>> \in A THEN Cardinality(A) - 1 ELSE Cardinality(A)
  BY <1>1, FS_RemoveElement DEF C
<1>7. Cardinality(B) = Cardinality(A) - (IF h \in HandlesOf(T[p], x) THEN 1 ELSE 0)
  BY <1>1, <1>2, <1>5, <1>6
<1>. QED
  BY <1>7 DEF A, B

\* A table is added: the handles of process q come on top.
LEMMA PairsAdded ==
    ASSUME NEW L, IsFiniteSet(L), NEW T, NEW U, NEW q, q \notin L, NEW x,
           \A r \in L : HandlesOf(U[r], x) = HandlesOf(T[r], x)
    PROVE  /\ Cardinality(Pairs(L \cup {q}, U, x))
                = Cardinality(Pairs(L, T, x)) + Cardinality(HandlesOf(U[q], x))
           /\ Cardinality(HandlesOf(U[q], x)) \in Nat
<1>. DEFINE A == Pairs(L, T, x)
            B == Pairs(L \cup {q}, U, x)
            H == HandlesOf(U[q], x)
            C == {q} \X H
<1>1. IsFiniteSet(A) /\ Cardinality(A) \in Nat
  BY PairsFinite
<1>2. IsFiniteSet(H) /\ Cardinality(H) \in Nat
  <2>1. IsFiniteSet(Cells)
    BY HandleTableAssumption, FS_Interval DEF Cells
  <2>2. H \in SUBSET Cells
    BY DEF HandlesOf
  <2>3. IsFiniteSet(H)
    BY <2>1, <2>2, FS_Subset
  <2>. QED
    BY <2>3, FS_CardinalityType
<1>3. /\ \A r, k : <<r, k>> \in A <=> r \in L /\ k \in HandlesOf(T[r], x)
      /\ \A r, k : <<r, k>> \in B <=> r \in L \cup {q} /\ k \in HandlesOf(U[r], x)
      /\ \A at \in A : at = <<at[1], at[2]>> /\ at[1] \in L
      /\ \A at \in B : at = <<at[1], at[2]>>
  BY PairsElement
<1>. HIDE DEF A, B, H
<1>4. \A r, k : <<r, k>> \in C <=> r = q /\ k \in H
  OBVIOUS
<1>5. \A at \in C : at = <<at[1], at[2]>> /\ at[1] = q
  OBVIOUS
<1>6. IsFiniteSet(C) /\ Cardinality(C) = Cardinality(H)
  <2>1. IsFiniteSet({q}) /\ Cardinality({q}) = 1
    BY FS_Singleton
  <2>2. IsFiniteSet(C) /\ Cardinality(C) = 1 * Cardinality(H)
    BY <1>2, <2>1, FS_Product
  <2>. QED
    BY <1>2, <2>2
<1>. HIDE DEF C
<1>7. A \cap C = {}
  BY <1>3, <1>5
<1>8. B = A \cup C
  <2>1. \A r, k : <<r, k>> \in B <=> <<r, k>> \in A \/ <<r, k>> \in C
    BY <1>3, <1>4 DEF H
  <2>2. \A at \in A \cup C : at = <<at[1], at[2]>>
    BY <1>3, <1>5
  <2>. DEFINE D == A \cup C
  <2>3. \A r, k : <<r, k>> \in B <=> <<r, k>> \in D
    BY <2>1
  <2>. HIDE DEF D
  <2>4. B = D
    BY <1>3, <2>2, <2>3, PairsEqual DEF D
  <2>. QED
    BY <2>4 DEF D
<1>9. Cardinality(A \cup C) = Cardinality(A) + Cardinality(C) - Cardinality(A \cap C)
  BY <1>1, <1>6, FS_Union
<1>10. Cardinality(A \cap C) = 0
  BY <1>7, FS_EmptySet
<1>11. Cardinality(B) = Cardinality(A) + Cardinality(H)
  BY <1>1, <1>2, <1>6, <1>8, <1>9, <1>10
<1>. QED
  BY <1>2, <1>11 DEF A, B, H

\* The counts of the current and of the next state.
Count(x) == Cardinality(Pairs(live, tables, x))
CountNext(x) == Cardinality(Pairs(live', tables', x))

\* Exact reference counts, and the finitely many running processes that make
\* the open handles countable.
CountInv == IsFiniteSet(live) /\ RefcountExact

\* What RefcountExact says of the two states of a step.
LEMMA ExactCounts ==
    /\ RefcountExact <=> (~ overrun =>
          \A x \in Objects : refs[x] = Count(x) + (IF x \in live THEN 1 ELSE 0))
    /\ RefcountExact' <=> (~ overrun' =>
          \A x \in Objects : refs'[x] = CountNext(x) + (IF x \in live' THEN 1 ELSE 0))
  BY OpenToPairs DEF RefcountExact, References, Count, CountNext

\* An object without references has no handle and is no running process.
LEMMA UnreferencedUnused ==
    ASSUME TypeOK, CountInv, ~ overrun, NEW x \in Objects, refs[x] = 0
    PROVE  /\ x \notin live /\ Count(x) = 0
           /\ \A r \in live : HandlesOf(tables[r], x) = {}
<1>1. IsFiniteSet(Pairs(live, tables, x)) /\ Count(x) \in Nat
  BY PairsFinite DEF CountInv, Count
<1>2. refs[x] = Count(x) + (IF x \in live THEN 1 ELSE 0)
  BY ExactCounts DEF CountInv
<1>3. x \notin live /\ Count(x) = 0
  BY <1>1, <1>2
<1>4. Pairs(live, tables, x) = {}
  BY <1>1, <1>3, FS_EmptySet DEF Count
<1>5. ASSUME NEW r \in live, NEW h \in HandlesOf(tables[r], x) PROVE FALSE
  BY <1>4, PairsElement
<1>. QED
  BY <1>3, <1>5

\* A handle is opened for o in the table of process p.
LEMMA OpenedCounts ==
    ASSUME IsFiniteSet(live), NEW p \in live, NEW h, NEW o \in Objects,
           SameButOne(live, tables, tables', p),
           Opened(tables'[p], tables[p], h, o), NEW x \in Objects
    PROVE  /\ Count(x) \in Nat
           /\ Cardinality(Pairs(live, tables', x)) =
                IF x = o THEN Count(x) + (IF h \in HandlesOf(tables[p], x) THEN 0 ELSE 1)
                ELSE Count(x) - (IF h \in HandlesOf(tables[p], x) THEN 1 ELSE 0)
<1>1. Cardinality(Pairs(live, tables', o)) =
          Cardinality(Pairs(live, tables, o)) + (IF h \in HandlesOf(tables[p], o) THEN 0 ELSE 1)
  BY PairsOpened
<1>3. x # o => Cardinality(Pairs(live, tables', x)) =
          Cardinality(Pairs(live, tables, x)) - (IF h \in HandlesOf(tables[p], x) THEN 1 ELSE 0)
  BY PairsOpened
<1>2. Cardinality(Pairs(live, tables, x)) \in Nat
  BY PairsFinite
<1>. QED
  BY <1>1, <1>2, <1>3 DEF Count

\* A handle is closed in the table of process p.
LEMMA ClosedCounts ==
    ASSUME IsFiniteSet(live), NEW p \in live, NEW h,
           SameButOne(live, tables, tables', p),
           Closes(tables'[p], tables[p], h), NEW x \in Objects
    PROVE  /\ Count(x) \in Nat
           /\ Cardinality(Pairs(live, tables', x)) = Count(x) - (IF h \in HandlesOf(tables[p], x) THEN 1 ELSE 0)
<1>1. Cardinality(Pairs(live, tables', x)) =
        Cardinality(Pairs(live, tables, x)) - (IF h \in HandlesOf(tables[p], x) THEN 1 ELSE 0)
  BY PairsClosed
<1>2. Cardinality(Pairs(live, tables, x)) \in Nat
  BY PairsFinite
<1>. QED
  BY <1>1, <1>2 DEF Count

\* SYSCALL_CREATE_*: the new object has the one handle.
LEMMA CreateCounts ==
    ASSUME IInv, CountInv, NEW p \in Procs, NEW o \in Objects, CreateObject(p, o)
    PROVE  CountInv'
<1>0. TypeOK /\ tables[p] \in Table /\ p \in live /\ live' = live /\ overrun' = overrun
      /\ IsFiniteSet(live')
  BY DEF IInv, TypeOK, CreateObject, Running, CountInv
<1>1. CASE ~ CanAllocate(tables[p], o)
  <2>1. tables' = tables /\ refs' = refs
    BY <1>1 DEF CreateObject
  <2>. QED
    BY <1>0, <2>1, ExactCounts DEF CountInv, Count, CountNext
<1>2. CASE CanAllocate(tables[p], o)
  <2>. SUFFICES ASSUME ~ overrun, NEW x \in Objects
                PROVE  refs'[x] = CountNext(x) + (IF x \in live' THEN 1 ELSE 0)
    BY <1>0, ExactCounts DEF CountInv
  <2>1. /\ tables' = [tables EXCEPT ![p] = HandleAllocate(tables[p], o)]
        /\ refs' = [refs EXCEPT ![o] = 1] /\ refs[o] = 0
    BY <1>2 DEF CreateObject
  <2>2. /\ \A y \in Objects : AllocIndex(tables[p], o) \notin HandlesOf(tables[p], y)
        /\ Opened(HandleAllocate(tables[p], o), tables[p], AllocIndex(tables[p], o), o)
    BY <1>0, <1>2, AllocateTable DEF IInv
  <2>3. Count(x) \in Nat /\ CountNext(x) = IF x = o THEN Count(x) + 1 ELSE Count(x)
    <3>1. tables'[p] = HandleAllocate(tables[p], o) /\ SameButOne(live, tables, tables', p)
      BY <1>0, <2>1 DEF TypeOK, SameButOne
    <3>2. Opened(tables'[p], tables[p], AllocIndex(tables[p], o), o)
      BY <2>2, <3>1
    <3>3. /\ Count(x) \in Nat
          /\ CountNext(x) = IF x = o THEN Count(x) + 1 ELSE Count(x)
      <4>1. /\ Count(x) \in Nat
            /\ Cardinality(Pairs(live, tables', x)) =
                 IF x = o THEN Count(x) + (IF AllocIndex(tables[p], o) \in HandlesOf(tables[p], x) THEN 0 ELSE 1)
                 ELSE Count(x) - (IF AllocIndex(tables[p], o) \in HandlesOf(tables[p], x) THEN 1 ELSE 0)
        BY <1>0, <3>1, <3>2, OpenedCounts, Zenon DEF CountInv
      <4>. QED
        BY <1>0, <2>2, <4>1 DEF CountNext
    <3>. QED
      BY <3>3
  <2>4. o \notin live /\ Count(o) = 0
    BY <1>0, <2>1, UnreferencedUnused
  <2>5. refs[x] = Count(x) + (IF x \in live THEN 1 ELSE 0) /\ refs \in [Objects -> Int]
    BY <1>0, ExactCounts DEF CountInv, TypeOK
  <2>. QED
    BY <1>0, <2>1, <2>3, <2>4, <2>5
<1>. QED
  BY <1>1, <1>2

\* SYSCALL_OBJECT_DUP
LEMMA DupCounts ==
    ASSUME IInv, CountInv, NEW p \in Procs, NEW h \in Cells, Dup(p, h)
    PROVE  CountInv'
<1>. DEFINE o == HandleGet(tables[p], h)
<1>0. TypeOK /\ tables[p] \in Table /\ p \in live /\ live' = live /\ overrun' = overrun
      /\ IsFiniteSet(live')
  BY DEF IInv, TypeOK, Dup, Running, CountInv
<1>1. /\ o \in Objects /\ CanAllocate(tables[p], o)
      /\ tables' = [tables EXCEPT ![p] = HandleAllocate(tables[p], o)]
      /\ refs' = [refs EXCEPT ![o] = refs[o] + 1]
  BY DEF Dup
<1>. HIDE DEF o
<1>. SUFFICES ASSUME ~ overrun, NEW x \in Objects
              PROVE  refs'[x] = CountNext(x) + (IF x \in live' THEN 1 ELSE 0)
  BY <1>0, ExactCounts DEF CountInv
<1>2. /\ \A y \in Objects : AllocIndex(tables[p], o) \notin HandlesOf(tables[p], y)
      /\ Opened(HandleAllocate(tables[p], o), tables[p], AllocIndex(tables[p], o), o)
  BY <1>0, <1>1, AllocateTable DEF IInv
<1>3. Count(x) \in Nat /\ CountNext(x) = IF x = o THEN Count(x) + 1 ELSE Count(x)
  <2>1. tables'[p] = HandleAllocate(tables[p], o) /\ SameButOne(live, tables, tables', p)
    BY <1>0, <1>1 DEF TypeOK, SameButOne
  <2>2. Opened(tables'[p], tables[p], AllocIndex(tables[p], o), o)
    BY <1>2, <2>1
  <2>3. /\ Count(x) \in Nat
        /\ Cardinality(Pairs(live, tables', x)) =
             IF x = o THEN Count(x) + (IF AllocIndex(tables[p], o) \in HandlesOf(tables[p], x) THEN 0 ELSE 1)
             ELSE Count(x) - (IF AllocIndex(tables[p], o) \in HandlesOf(tables[p], x) THEN 1 ELSE 0)
    BY <1>0, <1>1, <2>1, <2>2, OpenedCounts, Zenon DEF CountInv
  <2>. QED
    BY <1>0, <1>2, <2>3 DEF CountNext
<1>4. refs[x] = Count(x) + (IF x \in live THEN 1 ELSE 0) /\ refs \in [Objects -> Int]
  BY <1>0, ExactCounts DEF CountInv, TypeOK
<1>. QED
  BY <1>0, <1>1, <1>3, <1>4

\* SYSCALL_OBJECT_DUP2: the object the handle was open for loses a reference.
LEMMA Dup2Counts ==
    ASSUME IInv, CountInv, NEW p \in Procs, NEW h \in Cells, NEW target \in SetHandles,
           Dup2(p, h, target)
    PROVE  CountInv'
<1>. DEFINE o == HandleGet(tables[p], h)
            base == SetBase(tables[p], target)
            old == base.handles[target]
<1>0. TypeOK /\ tables[p] \in Table /\ p \in live /\ live' = live
      /\ IsFiniteSet(live') /\ target \in Nat
  BY HandleTableAssumption DEF IInv, TypeOK, Dup2, Running, CountInv
<1>1. /\ o \in Objects
      /\ tables' = [tables EXCEPT ![p] = HandleSet(tables[p], target, o)]
      /\ refs' = [x \in Objects |-> refs[x] + (IF x = o THEN 1 ELSE 0) - (IF x = old THEN 1 ELSE 0)]
      /\ overrun' = (overrun \/ target >= base.count)
  BY DEF Dup2
<1>. HIDE DEF o
<1>. SUFFICES ASSUME ~ overrun', NEW x \in Objects
              PROVE  refs'[x] = CountNext(x) + (IF x \in live' THEN 1 ELSE 0)
  BY <1>0, ExactCounts DEF CountInv
<1>2. ~ overrun /\ target < base.count /\ Good(tables[p])
  <2>1. base.count \in Nat
    BY <1>0, <1>1, SetTable DEF Table
  <2>2. ~ overrun /\ ~ (target >= base.count)
    BY <1>1 DEF base
  <2>. HIDE DEF base
  <2>3. Good(tables[p])
    BY <1>0, <2>2 DEF IInv
  <2>. QED
    BY <1>0, <2>1, <2>2, <2>3
<1>3. /\ \A y \in Objects : old = y <=> target \in HandlesOf(tables[p], y)
      /\ Opened(HandleSet(tables[p], target, o), tables[p], target, o)
  BY <1>0, <1>1, <1>2, SetTable
<1>. HIDE DEF base, old
<1>4. Count(x) \in Nat /\ CountNext(x) =
         IF x = o THEN IF old = x THEN Count(x) ELSE Count(x) + 1
         ELSE IF old = x THEN Count(x) - 1 ELSE Count(x)
  <2>1. tables'[p] = HandleSet(tables[p], target, o) /\ SameButOne(live, tables, tables', p)
    BY <1>0, <1>1 DEF TypeOK, SameButOne
  <2>2. Opened(tables'[p], tables[p], target, o)
    BY <1>3, <2>1
  <2>3. /\ Count(x) \in Nat
        /\ Cardinality(Pairs(live, tables', x)) =
             IF x = o THEN Count(x) + (IF target \in HandlesOf(tables[p], x) THEN 0 ELSE 1)
             ELSE Count(x) - (IF target \in HandlesOf(tables[p], x) THEN 1 ELSE 0)
    BY <1>0, <1>1, <2>1, <2>2, OpenedCounts, Zenon DEF CountInv
  <2>. QED
    BY <1>0, <1>3, <2>3 DEF CountNext
<1>5. refs[x] = Count(x) + (IF x \in live THEN 1 ELSE 0) /\ refs \in [Objects -> Int]
  BY <1>0, <1>2, ExactCounts DEF CountInv, TypeOK
<1>. QED
  BY <1>0, <1>1, <1>4, <1>5

\* SYSCALL_OBJECT_CLOSE
LEMMA CloseCounts ==
    ASSUME IInv, CountInv, NEW p \in Procs, NEW h \in Cells, Close(p, h)
    PROVE  CountInv'
<1>. DEFINE o == HandleGet(tables[p], h)
<1>0. TypeOK /\ tables[p] \in Table /\ p \in live /\ live' = live /\ overrun' = overrun
      /\ IsFiniteSet(live')
  BY DEF IInv, TypeOK, Close, Running, CountInv
<1>1. /\ o \in Objects
      /\ tables' = [tables EXCEPT ![p] = HandleRelease(tables[p], h)]
      /\ refs' = [refs EXCEPT ![o] = refs[o] - 1]
  BY DEF Close
<1>2. h < tables[p].free_end /\ \A y \in Objects : h \in HandlesOf(tables[p], y) <=> y = o
  BY <1>0, <1>1, HandleTableAssumption DEF HandleGet, HandlesOf, Table, Cells
<1>. HIDE DEF o
<1>. SUFFICES ASSUME ~ overrun, NEW x \in Objects
              PROVE  refs'[x] = CountNext(x) + (IF x \in live' THEN 1 ELSE 0)
  BY <1>0, ExactCounts DEF CountInv
<1>3. Closes(HandleRelease(tables[p], h), tables[p], h)
  BY <1>0, <1>2, ReleaseTable DEF IInv
<1>4. Count(x) \in Nat /\ CountNext(x) = IF x = o THEN Count(x) - 1 ELSE Count(x)
  <2>1. tables'[p] = HandleRelease(tables[p], h) /\ SameButOne(live, tables, tables', p)
    BY <1>0, <1>1 DEF TypeOK, SameButOne
  <2>2. Closes(tables'[p], tables[p], h)
    BY <1>3, <2>1
  <2>3. /\ Count(x) \in Nat
        /\ Cardinality(Pairs(live, tables', x)) = Count(x) - (IF h \in HandlesOf(tables[p], x) THEN 1 ELSE 0)
    BY <1>0, <2>1, <2>2, ClosedCounts, Zenon DEF CountInv
  <2>. QED
    BY <1>0, <1>2, <2>3 DEF CountNext
<1>5. refs[x] = Count(x) + (IF x \in live THEN 1 ELSE 0) /\ refs \in [Objects -> Int]
  BY <1>0, ExactCounts DEF CountInv, TypeOK
<1>. QED
  BY <1>0, <1>1, <1>4, <1>5

\* SYSCALL_FORK: the child's handles are new references, and so are the
\* child's thread and the parent's handle to the child.
LEMMA ForkCounts ==
    ASSUME IInv, CountInv, NEW p \in Procs, NEW q \in Procs, Fork(p, q)
    PROVE  CountInv'
<1>. DEFINE t == tables[p]
            child == HandleForkTable(t)
            room == CanAllocate(t, q)
            parent == IF room THEN HandleAllocate(t, q) ELSE t
            k == AllocIndex(t, q)
<1>0. /\ TypeOK /\ t \in Table /\ p \in live /\ q # p /\ q \in Objects /\ refs[q] = 0
      /\ live' = live \cup {q} /\ overrun' = overrun
      /\ tables \in [Procs -> Table] /\ refs \in [Objects -> Int]
  BY HandleTableAssumption DEF IInv, TypeOK, Fork, Running
<1>1. /\ tables' = [tables EXCEPT ![q] = child, ![p] = parent]
      /\ refs' = [x \in Objects |-> IF x = q THEN IF room THEN 2 ELSE 1
                                   ELSE refs[x] + Cardinality(HandlesOf(t, x))]
  BY DEF Fork
<1>2. IsFiniteSet(live')
  BY <1>0, FS_AddElement DEF CountInv
<1>. SUFFICES ASSUME ~ overrun, NEW x \in Objects
              PROVE  refs'[x] = CountNext(x) + (IF x \in live' THEN 1 ELSE 0)
  BY <1>0, <1>2, ExactCounts DEF CountInv
<1>3. /\ q \notin live /\ Count(q) = 0
      /\ \A r \in live : HandlesOf(tables[r], q) = {}
  BY <1>0, UnreferencedUnused
<1>4. HandlesOf(child, x) = HandlesOf(t, x)
  BY <1>0, ForkTable
<1>5. Good(t)
  BY <1>0 DEF IInv
<1>6. room => /\ k \notin HandlesOf(t, x)
              /\ HandlesOf(parent, x) = IF x = q THEN HandlesOf(t, x) \cup {k} ELSE HandlesOf(t, x)
  <2>1. room => k \notin HandlesOf(t, x) /\ Opened(HandleAllocate(t, q), t, k, q)
    BY <1>0, <1>5, AllocateTable
  <2>. QED
    BY <2>1 DEF Opened
<1>. HIDE DEF child, parent, room, k
<1>7. tables'[q] = child /\ tables'[p] = parent /\ \A r \in live \ {p} : tables'[r] = tables[r]
  BY <1>0, <1>1, <1>3 DEF TypeOK
<1>8. refs[x] = Count(x) + (IF x \in live THEN 1 ELSE 0) /\ Count(x) \in Nat
  BY ExactCounts, PairsFinite DEF CountInv, Count
<1>9. Cardinality(HandlesOf(t, x)) \in Nat
  BY HandlesOfFinite
<1>10. CASE x # q
  <2>1. \A r \in live : HandlesOf(tables'[r], x) = HandlesOf(tables[r], x)
    <3>1. HandlesOf(parent, x) = HandlesOf(t, x)
      BY <1>6, <1>10 DEF parent
    <3>. QED
      BY <1>7, <3>1
  <2>2. CountNext(x) = Count(x) + Cardinality(HandlesOf(tables'[q], x))
    BY <1>0, <1>3, <2>1, PairsAdded DEF CountInv, Count, CountNext
  <2>3. refs'[x] = refs[x] + Cardinality(HandlesOf(t, x))
    BY <1>1, <1>10
  <2>4. x \in live' <=> x \in live
    BY <1>0, <1>10
  <2>. QED
    BY <1>4, <1>7, <1>8, <1>9, <2>2, <2>3, <2>4
<1>11. CASE x = q
  <2>1. HandlesOf(t, x) = {} /\ HandlesOf(child, x) = {}
    BY <1>0, <1>3, <1>4, <1>11
  <2>. DEFINE B == Pairs(live', tables', x)
  <2>2. /\ \A r, h : <<r, h>> \in B <=> r \in live' /\ h \in HandlesOf(tables'[r], x)
        /\ \A at \in B : at = <<at[1], at[2]>>
    BY PairsElement
  <2>. HIDE DEF B
  <2>3. \A r, h : <<r, h>> \in B <=> r = p /\ h \in HandlesOf(parent, x)
    BY <1>0, <1>3, <1>7, <1>11, <2>1, <2>2
  <2>4. CASE room
    <3>1. HandlesOf(parent, x) = {k}
      BY <1>6, <1>11, <2>1, <2>4
    <3>2. \A r, h : <<r, h>> \in B <=> <<r, h>> \in {<<p, k>>}
      <4>1. \A r, h : <<r, h>> \in {<<p, k>>} <=> r = p /\ h \in {k}
        OBVIOUS
      <4>. QED
        BY <2>3, <3>1, <4>1
    <3>3. \A at \in {<<p, k>>} : at = <<at[1], at[2]>>
      OBVIOUS
    <3>. DEFINE C == {<<p, k>>}
    <3>4. Cardinality(C) = 1
      BY FS_Singleton
    <3>5. B = C
      <4>. HIDE DEF C
      <4>. QED
        BY <2>2, <3>2, <3>3, PairsEqual DEF C
    <3>6. CountNext(x) = 1
      BY <3>4, <3>5 DEF B, CountNext
    <3>7. refs'[x] = 2 /\ x \in live'
      BY <1>0, <1>1, <1>11, <2>4
    <3>. QED
      BY <3>6, <3>7
  <2>5. CASE ~ room
    <3>1. HandlesOf(parent, x) = {}
      BY <2>1, <2>5 DEF parent
    <3>2. B = {}
      BY <2>2, <2>3, <3>1
    <3>3. Cardinality(B) = 0
      BY <3>2, FS_EmptySet
    <3>. QED
      BY <1>0, <1>1, <1>11, <2>5, <3>3 DEF B, CountNext
  <2>. QED
    BY <2>4, <2>5
<1>. QED
  BY <1>10, <1>11

\* __processShutdown: every handle of the table is released, and the thread's
\* reference to its process.
LEMMA ExitCounts ==
    ASSUME IInv, CountInv, NEW p \in Procs, Exit(p)
    PROVE  CountInv'
<1>0. /\ TypeOK /\ p \in live /\ live' = live \ {p} /\ overrun' = overrun
      /\ tables \in [Procs -> Table] /\ refs \in [Objects -> Int] /\ live \subseteq Procs
      /\ tables' = [tables EXCEPT ![p] = Closed]
      /\ refs' = [o \in Objects |-> refs[o] - Cardinality(HandlesOf(tables[p], o))
                                           - (IF o = p THEN 1 ELSE 0)]
  BY DEF IInv, TypeOK, Exit, Running
<1>1. IsFiniteSet(live')
  BY <1>0, FS_RemoveElement DEF CountInv
<1>. SUFFICES ASSUME ~ overrun, NEW x \in Objects
              PROVE  refs'[x] = CountNext(x) + (IF x \in live' THEN 1 ELSE 0)
  BY <1>0, <1>1, ExactCounts DEF CountInv
<1>2. \A r \in live' : HandlesOf(tables[r], x) = HandlesOf(tables'[r], x)
  BY <1>0
<1>3. live' \cup {p} = live /\ p \notin live'
  BY <1>0
<1>4. /\ Cardinality(Pairs(live' \cup {p}, tables, x))
            = Cardinality(Pairs(live', tables', x)) + Cardinality(HandlesOf(tables[p], x))
      /\ Cardinality(HandlesOf(tables[p], x)) \in Nat
  BY <1>1, <1>2, <1>3, PairsAdded
<1>5. Count(x) = CountNext(x) + Cardinality(HandlesOf(tables[p], x))
  BY <1>3, <1>4 DEF Count, CountNext
<1>6. CountNext(x) \in Nat
  BY <1>1, PairsFinite DEF CountNext
<1>7. refs[x] = Count(x) + (IF x \in live THEN 1 ELSE 0)
  BY ExactCounts DEF CountInv
<1>8. refs'[x] = refs[x] - Cardinality(HandlesOf(tables[p], x)) - (IF x = p THEN 1 ELSE 0)
  BY <1>0
<1>9. IF x = p THEN x \in live /\ x \notin live' ELSE x \in live <=> x \in live'
  BY <1>0
<1>. QED
  BY <1>4, <1>5, <1>6, <1>7, <1>8, <1>9

\* The first process holds the only reference, the one to itself.
LEMMA InitCounts == Init => CountInv
<1>. SUFFICES ASSUME Init PROVE CountInv
  OBVIOUS
<1>1. PICK p \in Procs :
        /\ live = {p}
        /\ tables = [q \in Procs |-> IF q = p THEN HandleTableInit ELSE Closed]
        /\ refs = [o \in Objects |-> IF o = p THEN 1 ELSE 0]
  BY DEF Init
<1>2. IsFiniteSet(live)
  BY <1>1, FS_Singleton
<1>3. ASSUME NEW x \in Objects PROVE Count(x) = 0
  <2>1. HandlesOf(tables[p], x) = {}
    BY <1>1, HandleTableAssumption DEF HandlesOf, HandleTableInit, Cells
  <2>2. Pairs(live, tables, x) = {}
    BY <1>1, <2>1, PairsElement
  <2>. QED
    BY <2>2, FS_EmptySet DEF Count
<1>. QED
  BY <1>1, <1>2, <1>3, ExactCounts DEF CountInv

\* Every system call keeps the counts exact.
LEMMA NextCounts == IInv /\ CountInv /\ [Next]_vars => CountInv'
<1>. SUFFICES ASSUME IInv, CountInv, [Next]_vars PROVE CountInv'
  OBVIOUS
<1>1. ASSUME NEW p \in Procs, NEW o \in Objects, CreateObject(p, o) PROVE CountInv'
  BY <1>1, CreateCounts
<1>2. ASSUME NEW p \in Procs, NEW h \in Cells, Dup(p, h) PROVE CountInv'
  BY <1>2, DupCounts
<1>3. ASSUME NEW p \in Procs, NEW h \in Cells, NEW target \in SetHandles, Dup2(p, h, target)
      PROVE CountInv'
  BY <1>3, Dup2Counts
<1>4. ASSUME NEW p \in Procs, NEW h \in Cells, Close(p, h) PROVE CountInv'
  BY <1>4, CloseCounts
<1>5. ASSUME NEW p \in Procs, NEW q \in Procs, Fork(p, q) PROVE CountInv'
  BY <1>5, ForkCounts
<1>6. ASSUME NEW p \in Procs, Exit(p) PROVE CountInv'
  BY <1>6, ExitCounts
<1>7. CASE UNCHANGED vars
  <2>1. live' = live /\ tables' = tables /\ refs' = refs /\ overrun' = overrun
    BY <1>7 DEF vars
  <2>. QED
    BY <2>1, ExactCounts DEF CountInv, Count, CountNext
<1>. QED
  BY <1>1, <1>2, <1>3, <1>4, <1>5, <1>6, <1>7, Zenon DEF Next

\* Reference counts are exact through every create, dup, dup2, close, fork and
\* exit: objects live exactly as long as a handle or a thread needs them.
THEOREM RefcountCorrect == Spec => []RefcountExact
<1>1. CountInv => RefcountExact
  BY DEF CountInv
<1>. QED
  BY <1>1, InitIInv, NextIInv, InitCounts, NextCounts, PTL DEF Spec

\* The object behind a handle, from the handles that are open for it.
LEMMA OpenGet ==
    ASSUME NEW t \in Table, NEW h \in Cells, NEW x \in Objects
    PROVE  HandleGet(t, h) = x <=> h \in HandlesOf(t, x)
<1>1. t.free_end \in Nat /\ h \in Nat
  BY HandleTableAssumption DEF Table, Cells
<1>. QED
  BY <1>1, HandleTableAssumption DEF HandleGet, HandlesOf

\* An open handle keeps its object through the resizes, trims and copies that
\* other calls cause; only close and dup2 of that very handle change it.
THEOREM HandlesStableCorrect == Spec => HandlesStable
<1>1. ASSUME IInv, IInv', CountInv, Next, ~ overrun', NEW p \in live \cap live', NEW h \in Cells,
             HandleGet(tables[p], h) \in Objects,
             HandleGet(tables[p], h) # HandleGet(tables'[p], h)
      PROVE  Close(p, h) \/ \E h2 \in Cells : Dup2(p, h2, h)
  <2>. DEFINE x == HandleGet(tables[p], h)
  <2>0. /\ p \in Procs /\ tables \in [Procs -> Table] /\ tables[p] \in Table
        /\ tables'[p] \in Table /\ x \in Objects /\ SetHandles \subseteq Nat
    BY <1>1, HandleTableAssumption DEF IInv, TypeOK
  <2>. HIDE DEF x
  <2>1. h \in HandlesOf(tables[p], x) /\ h \notin HandlesOf(tables'[p], x)
    BY <1>1, <2>0, OpenGet DEF x
  <2>2. ASSUME NEW r \in Procs, NEW o \in Objects, CreateObject(r, o) PROVE FALSE
    <3>1. r = p /\ CanAllocate(tables[p], o)
          /\ tables' = [tables EXCEPT ![p] = HandleAllocate(tables[p], o)] /\ ~ overrun
      BY <1>1, <2>0, <2>1, <2>2 DEF CreateObject
    <3>2. /\ AllocIndex(tables[p], o) \notin HandlesOf(tables[p], x)
          /\ Opened(HandleAllocate(tables[p], o), tables[p], AllocIndex(tables[p], o), o)
      BY <1>1, <2>0, <3>1, AllocateTable DEF IInv
    <3>. QED
      BY <2>0, <2>1, <3>1, <3>2 DEF Opened
  <2>3. ASSUME NEW r \in Procs, NEW k \in Cells, Dup(r, k) PROVE FALSE
    <3>. DEFINE o == HandleGet(tables[r], k)
    <3>1. r = p /\ CanAllocate(tables[p], o) /\ o \in Objects
          /\ tables' = [tables EXCEPT ![p] = HandleAllocate(tables[p], o)] /\ ~ overrun
      BY <1>1, <2>0, <2>1, <2>3 DEF Dup
    <3>. HIDE DEF o
    <3>2. /\ AllocIndex(tables[p], o) \notin HandlesOf(tables[p], x)
          /\ Opened(HandleAllocate(tables[p], o), tables[p], AllocIndex(tables[p], o), o)
      BY <1>1, <2>0, <3>1, AllocateTable DEF IInv
    <3>. QED
      BY <2>0, <2>1, <3>1, <3>2 DEF Opened
  <2>4. ASSUME NEW r \in Procs, NEW k \in Cells, NEW target \in SetHandles, Dup2(r, k, target)
        PROVE  \E h2 \in Cells : Dup2(p, h2, h)
    <3>. DEFINE o == HandleGet(tables[r], k)
    <3>1. /\ r = p /\ o \in Objects
          /\ tables' = [tables EXCEPT ![p] = HandleSet(tables[p], target, o)]
          /\ ~ overrun /\ ~ (target >= SetBase(tables[p], target).count)
      BY <1>1, <2>0, <2>1, <2>4 DEF Dup2
    <3>. HIDE DEF o
    <3>2. SetBase(tables[p], target).count \in Nat
      BY <2>0, <3>1, SetTable DEF Table
    <3>3. target \in Nat /\ target < SetBase(tables[p], target).count /\ Good(tables[p])
      BY <1>1, <2>0, <3>1, <3>2 DEF IInv
    <3>4. Opened(HandleSet(tables[p], target, o), tables[p], target, o)
      BY <2>0, <3>1, <3>3, SetTable
    <3>5. target = h
      BY <2>0, <2>1, <3>1, <3>4 DEF Opened
    <3>. QED
      BY <2>4, <3>1, <3>5
  <2>5. ASSUME NEW r \in Procs, NEW k \in Cells, Close(r, k) PROVE Close(p, h)
    <3>1. /\ r = p /\ HandleGet(tables[p], k) \in Objects
          /\ tables' = [tables EXCEPT ![p] = HandleRelease(tables[p], k)] /\ ~ overrun
      BY <1>1, <2>0, <2>1, <2>5 DEF Close
    <3>2. k < tables[p].free_end
      BY <2>0, <3>1, HandleTableAssumption DEF HandleGet, Table, Cells
    <3>3. Closes(HandleRelease(tables[p], k), tables[p], k)
      BY <1>1, <2>0, <3>1, <3>2, ReleaseTable DEF IInv
    <3>4. k = h
      BY <2>0, <2>1, <3>1, <3>3 DEF Closes
    <3>. QED
      BY <2>5, <3>1, <3>4
  <2>6. ASSUME NEW r \in Procs, NEW q \in Procs, Fork(r, q) PROVE FALSE
    <3>1. ~ overrun /\ refs[q] = 0 /\ q \in Objects /\ TypeOK
      BY <1>1, <2>6, HandleTableAssumption DEF Fork, IInv
    <3>2. q # p
      BY <1>1, <3>1, UnreferencedUnused
    <3>. DEFINE parent == IF CanAllocate(tables[r], q) THEN HandleAllocate(tables[r], q) ELSE tables[r]
    <3>3. tables' = [tables EXCEPT ![q] = HandleForkTable(tables[r]), ![r] = parent] /\ r # q
      BY <2>6 DEF Fork
    <3>4. r = p /\ tables'[p] = parent
      <4>. HIDE DEF parent
      <4>. QED
        BY <2>0, <2>1, <3>2, <3>3
    <3>5. CanAllocate(tables[p], q) => Opened(HandleAllocate(tables[p], q), tables[p],
                                             AllocIndex(tables[p], q), q)
                                      /\ AllocIndex(tables[p], q) \notin HandlesOf(tables[p], x)
      BY <1>1, <2>0, <3>1, AllocateTable DEF IInv
    <3>. QED
      BY <2>0, <2>1, <3>4, <3>5 DEF Opened
  <2>7. ASSUME NEW r \in Procs, Exit(r) PROVE FALSE
    <3>1. r # p
      BY <1>1, <2>7 DEF Exit
    <3>. QED
      BY <2>0, <2>1, <2>7, <3>1 DEF Exit
  <2>. QED
    BY <1>1, <2>2, <2>3, <2>4, <2>5, <2>6, <2>7, Zenon DEF Next
<1>2. IInv /\ IInv' /\ CountInv /\ [Next]_vars =>
        [~overrun' => \A p \in live \cap live' : \A h \in Cells :
          HandleGet(tables[p], h) \in Objects
            /\ HandleGet(tables[p], h) # HandleGet(tables'[p], h)
          => Close(p, h) \/ \E h2 \in Cells : Dup2(p, h2, h)]_vars
  BY <1>1, Zenon
<1>. QED
  BY <1>2, InitIInv, NextIInv, InitCounts, NextCounts, PTL DEF Spec, HandlesStable
=============================================================================
