----------------------------- MODULE HandleTable -----------------------------
(***************************************************************************)
(* The per-process handle table (process/handle.c) and the reference       *)
(* counts of the kernel objects the tables point to                        *)
(* (include/process/object.h), driven by the system calls that change      *)
(* them: object creation, dup, dup2, close, fork and process exit.         *)
(*                                                                         *)
(* A table is an array of `count' cells which is grown by doubling and     *)
(* shrunk to a quarter.  The array lives in a heap block that is larger    *)
(* than the array (16 byte header, length rounded up to whole pages), so   *)
(* a cell just behind the array is memory that exists but was never        *)
(* cleared: such cells hold Junk.                                          *)
(***************************************************************************)
EXTENDS Integers, FiniteSets, FiniteSetsExt

CONSTANTS
    Objects,       \* every kernel object, process objects included
    Procs,         \* the process objects (each owns a handle table)
    LowObjects,    \* objects whose getMinHandle() is 0 (pipes, stdout)
    MIN_HANDLES,   \* initial number of cells of a table
    MAX_HANDLES,   \* largest number of cells of a table
    DefaultMin,    \* minimal handle of an object without getMinHandle() (3)
    SetHandles,    \* the target handles user programs pass to dup2
    MaxOpen,       \* bound: open handles over all tables
    None,          \* NULL in a cell
    Junk           \* content of memory behind the cleared part of the array

ASSUME HandleTableAssumption ==
    /\ Procs \subseteq Objects /\ LowObjects \subseteq Objects
    /\ LowObjects \cap Procs = {}
    /\ None \notin Objects /\ Junk \notin Objects /\ None # Junk
    /\ DefaultMin \in Nat /\ MIN_HANDLES \in Nat /\ MAX_HANDLES \in Nat
    /\ DefaultMin < MIN_HANDLES /\ 2 <= MIN_HANDLES
    /\ SetHandles \subseteq Nat
    /\ MaxOpen \in Nat

VARIABLES
    tables,   \* tables[p]: struct handleTable of process p
    refs,     \* refs[o]: obj->refcount, 0 once the object is destroyed
    live,     \* processes that still run a thread (and keep their table)
    overrun,  \* history: some cell at or behind `count' was written
    panic     \* the kernel followed a Junk pointer

vars == <<tables, refs, live, overrun, panic>>

Cells == 0 .. MAX_HANDLES - 1
Cell  == Objects \cup {None, Junk}
Table == [count: Nat, free_begin: Nat, free_end: Nat, handles: [Cells -> Cell]]

Larger(a, b) == IF a >= b THEN a ELSE b

(***************************************************************************)
(* Operations on a single table.                                           *)
(***************************************************************************)

\* handleTableInit
HandleTableInit ==
    [count |-> MIN_HANDLES, free_begin |-> 0, free_end |-> 0,
     handles |-> [i \in Cells |-> IF i < MIN_HANDLES THEN None ELSE Junk]]

\* The sizes `count *= 2' runs through, beginning with c itself (sizes
\* beyond twice the maximum are never asked for).
Doublings(c) == {n \in c .. 2 * MAX_HANDLES : \E k \in 0 .. MAX_HANDLES : n = c * 2^k}

\* Both limits are powers of two in the code (include/process/handle.h).
ASSUME SizesAssumption == MAX_HANDLES \in Doublings(MIN_HANDLES)

\* while (count < wanted) count *= 2; starting from c (c <= MAX_HANDLES)
DoubleUntil(c, wanted) ==
    LET enough == {n \in Doublings(c) : n >= wanted}
    IN  IF enough = {} THEN 2 * MAX_HANDLES ELSE Min(enough)

\* The new array size for an index that does not fit.
GrownCount(c, wanted) ==
    LET n == DoubleUntil(2 * c, wanted)
    IN  IF n > MAX_HANDLES THEN MAX_HANDLES ELSE n

\* heapReAlloc to the new size, then memset of the added cells.
Grow(t, wanted) ==
    LET n == GrownCount(t.count, wanted)
    IN  [t EXCEPT !.count = n,
                  !.handles = [i \in Cells |->
                      IF t.count <= i /\ i < n THEN None ELSE t.handles[i]]]

MinHandle(o) == IF o \in LowObjects THEN 0 ELSE DefaultMin

MutAllocIndex(t, o) == Larger(MinHandle(o), t.free_begin)   \* no search at all

\* The index handleAllocate settles on: the first empty cell from the
\* start index to free_end, or else the index its loop stops at.
AllocIndex(t, o) ==
    LET start == Larger(MinHandle(o), t.free_begin)
        empty == {i \in Cells : start <= i /\ i < t.free_end /\ t.handles[i] = None}
    IN  IF empty # {} THEN Min(empty) ELSE Larger(start, t.free_end)

\* handleAllocate returns -1 only for a table that is full and of maximal size.
CanAllocate(t, o) == AllocIndex(t, o) < t.count \/ t.count < MAX_HANDLES

\* handleAllocate for a table that has room.
HandleAllocate(t, o) ==
    LET i == AllocIndex(t, o)
        g == IF i >= t.count THEN Grow(t, i) ELSE t
    IN  [g EXCEPT !.handles = [@ EXCEPT ![i] = o],
                  !.free_begin = i + 1,
                  !.free_end = Larger(@, i + 1)]

\* The table in which handleSet replaces the cell.
SetBase(t, h) == IF h >= t.count THEN Grow(t, h) ELSE t

\* handleSet for a handle below MAX_HANDLES.
HandleSet(t, h, o) ==
    [SetBase(t, h) EXCEPT
        !.handles = [@ EXCEPT ![h] = o],
        !.free_begin = IF h = @ THEN h + 1 ELSE @,
        !.free_end = Larger(@, h + 1)]

HandleGet(t, h) == IF h >= t.free_end THEN None ELSE t.handles[h]

MutLastUsed(t) ==   \* the loop runs one step too far in an empty table
    LET used == {i \in Cells : i < t.free_end /\ t.handles[i] # None}
    IN  IF used = {} THEN -1 ELSE Max(used) + 1

\* Last used element + 1 once cell h was cleared: the loop that moves
\* free_end down.
LastUsed(t) ==
    LET used == {i \in Cells : i < t.free_end /\ t.handles[i] # None}
    IN  IF used = {} THEN 0 ELSE Max(used) + 1

\* heapReAlloc to a quarter; what was behind the new end is lost.
Shrink(t) ==
    LET n == Larger(t.count \div 4, MIN_HANDLES)
    IN  [t EXCEPT !.count = n,
                  !.handles = [i \in Cells |-> IF i < n THEN t.handles[i] ELSE Junk]]

MutClearCell(t, h) == [t EXCEPT !.handles = [@ EXCEPT ![h] = None]]   \* free_begin is kept

\* The cell is cleared and free_begin lowered to it.
ClearCell(t, h) == [t EXCEPT !.handles = [@ EXCEPT ![h] = None],
                             !.free_begin = IF h < @ THEN h ELSE @]

MutTrim(t) == [t EXCEPT !.free_end = @ - 1]   \* holes below are not skipped

Trim(t) == [t EXCEPT !.free_end = LastUsed(t)]

MutHandleRelease(t, h) ==   \* the last handle is moved into the hole
    LET last == t.free_end - 1
    IN  Trim(ClearCell([t EXCEPT !.handles = [@ EXCEPT ![h] = t.handles[last]]], last))

\* handleRelease of a handle that is set.
HandleRelease(t, h) ==
    LET cleared == ClearCell(t, h)
        trimmed == Trim(cleared)
    IN  IF h # t.free_end - 1 THEN cleared
        ELSE IF MIN_HANDLES < trimmed.free_end /\ trimmed.free_end < t.count \div 4
             THEN Shrink(trimmed)
             ELSE trimmed

\* handleForkTable
HandleForkTable(t) ==
    LET n == DoubleUntil(MIN_HANDLES, t.free_end)
    IN  [count |-> n, free_begin |-> t.free_begin, free_end |-> t.free_end,
         handles |-> [i \in Cells |-> IF i < t.free_end THEN t.handles[i]
                                      ELSE IF i < n THEN None ELSE Junk]]

\* The open handles of table t that refer to o.
HandlesOf(t, o) == {i \in Cells : i < t.free_end /\ t.handles[i] = o}

(***************************************************************************)
(* System calls.  AddRef / Release only ever change refs.                  *)
(***************************************************************************)
Closed == [count |-> 0, free_begin |-> 0, free_end |-> 0,
           handles |-> [i \in Cells |-> None]]

HandleCount(t) == Cardinality({i \in Cells : i < t.free_end /\ t.handles[i] \in Objects})

\* A process can enter the kernel.
Running(p) == p \in live /\ ~panic

OpenHandles == MapThenSumSet(LAMBDA p : HandleCount(tables[p]), Procs)

\* SYSCALL_CREATE_*: create (refcount 1), handleAllocate (+1), objectRelease
\* (-1).  Without room the new object is destroyed again.
CreateObject(p, o) ==
    /\ Running(p) /\ OpenHandles < MaxOpen
    /\ o \notin Procs /\ refs[o] = 0
    /\ IF CanAllocate(tables[p], o)
       THEN /\ tables' = [tables EXCEPT ![p] = HandleAllocate(@, o)]
            /\ refs' = [refs EXCEPT ![o] = 1]
       ELSE UNCHANGED <<tables, refs>>
    /\ UNCHANGED <<live, overrun, panic>>

\* SYSCALL_OBJECT_DUP
Dup(p, h) ==
    LET o == HandleGet(tables[p], h)
    IN  /\ Running(p) /\ OpenHandles < MaxOpen
        /\ o \in Objects
        /\ CanAllocate(tables[p], o)
        /\ tables' = [tables EXCEPT ![p] = HandleAllocate(@, o)]
        /\ refs' = [refs EXCEPT ![o] = @ + 1]
        /\ UNCHANGED <<live, overrun, panic>>

\* SYSCALL_OBJECT_DUP2.  The old content of the cell is released; a Junk
\* cell may happen to be zero, otherwise the kernel follows a wild pointer.
Dup2(p, h, target) ==
    LET o    == HandleGet(tables[p], h)
        base == SetBase(tables[p], target)
        old  == base.handles[target]
    IN  /\ Running(p) /\ OpenHandles < MaxOpen
        /\ o \in Objects
        /\ target < MAX_HANDLES
        /\ tables' = [tables EXCEPT ![p] = HandleSet(@, target, o)]
        /\ refs' = [x \in Objects |-> refs[x] + (IF x = o THEN 1 ELSE 0)
                                              - (IF x = old THEN 1 ELSE 0)]
        /\ overrun' = (overrun \/ target >= base.count)
        /\ panic' \in (IF old = Junk THEN BOOLEAN ELSE {panic})
        /\ UNCHANGED live

\* SYSCALL_OBJECT_CLOSE
Close(p, h) ==
    LET o == HandleGet(tables[p], h)
    IN  /\ Running(p)
        /\ o \in Objects
        /\ tables' = [tables EXCEPT ![p] = HandleRelease(@, h)]
        /\ refs' = [refs EXCEPT ![o] = @ - 1]
        /\ UNCHANGED <<live, overrun, panic>>

\* SYSCALL_FORK: processCreate copies the table (one more reference for each
\* copied handle), the child's first thread holds a reference to the child,
\* then the parent gets a handle to the child if it has room for it.
Fork(p, q) ==
    /\ Running(p) /\ OpenHandles + HandleCount(tables[p]) < MaxOpen
    /\ q \in Procs /\ q # p /\ refs[q] = 0
    /\ LET child  == HandleForkTable(tables[p])
           room   == CanAllocate(tables[p], q)
           parent == IF room THEN HandleAllocate(tables[p], q) ELSE tables[p]
       IN  /\ tables' = [tables EXCEPT ![q] = child, ![p] = parent]
           /\ refs' = [o \in Objects |->
                  IF o = q THEN IF room THEN 2 ELSE 1
                  ELSE refs[o] + Cardinality(HandlesOf(tables[p], o))]
    /\ live' = live \cup {q}
    /\ UNCHANGED <<overrun, panic>>

\* __processShutdown of a process with one thread: the thread gives up its
\* reference to the process and handleTableFree releases every handle.
Exit(p) ==
    /\ Running(p)
    /\ live' = live \ {p}
    /\ tables' = [tables EXCEPT ![p] = Closed]
    /\ refs' = [o \in Objects |-> refs[o] - Cardinality(HandlesOf(tables[p], o))
                                          - (IF o = p THEN 1 ELSE 0)]
    /\ UNCHANGED <<overrun, panic>>

Init ==
    /\ \E p \in Procs :     \* the first process, loaded by kernel_main
        /\ live = {p}
        /\ tables = [q \in Procs |-> IF q = p THEN HandleTableInit ELSE Closed]
        /\ refs = [o \in Objects |-> IF o = p THEN 1 ELSE 0]
    /\ overrun = FALSE
    /\ panic = FALSE

Next ==
    \E p \in Procs :
        \/ \E o \in Objects : CreateObject(p, o)
        \/ \E h \in Cells : Dup(p, h)
        \/ \E h \in Cells, target \in SetHandles : Dup2(p, h, target)
        \/ \E h \in Cells : Close(p, h)
        \/ \E q \in Procs : Fork(p, q)
        \/ Exit(p)

Spec == Init /\ [][Next]_vars

-----------------------------------------------------------------------------
(***************************************************************************)
(* Properties.                                                             *)
(***************************************************************************)

\* Every variable has the shape of the C structure it stands for.
TypeOK ==
    /\ tables \in [Procs -> Table]
    /\ refs \in [Objects -> Int]
    /\ live \subseteq Procs
    /\ overrun \in BOOLEAN
    /\ panic \in BOOLEAN

\* A well-formed table: free_end is "last used element + 1", lies inside the
\* array, and everything from there to the end of the array is cleared.
WellFormed(t) ==
    /\ t.free_end <= t.count
    /\ MIN_HANDLES <= t.count /\ t.count <= MAX_HANDLES
    /\ t.free_end > 0 => t.handles[t.free_end - 1] \in Objects
    /\ \A i \in Cells : i < t.free_end => t.handles[i] # Junk
    /\ \A i \in Cells : t.free_end <= i /\ i < t.count => t.handles[i] = None

\* Growing, trimming, shrinking and forking keep every table well formed, so
\* no lookup bounded by free_end leaves the array (handleGet, handle.c:213),
\* until handleSet has written behind the array.
TablesWellFormed == ~overrun => \A p \in live : WellFormed(tables[p])

\* No cell that an object with the default minimal handle could use is free
\* below free_begin: handleAllocate may start its search there.
FreeBeginSound(t) ==
    /\ t.free_begin <= Larger(DefaultMin, t.free_end)
    /\ \A i \in Cells : DefaultMin <= i /\ i < t.free_begin
            => t.handles[i] \in Objects

\* The index found from the cached free_begin is the lowest empty one, for
\* every object whose minimal handle is the default one (handle.c:108).
LowestDefaultHandle ==
    ~overrun => \A p \in live : \A o \in Objects \ LowObjects :
        \A i \in Cells : DefaultMin <= i /\ i < AllocIndex(tables[p], o)
            => tables[p].handles[i] \in Objects

\* The open handles to object o, each with the process it belongs to.
OpenTo(o) == {at \in live \X Cells : at[2] \in HandlesOf(tables[at[1]], o)}

\* References the kernel owes to object o: one per open handle, and the one
\* a running process holds on itself through its thread.
References(o) == Cardinality(OpenTo(o)) + (IF o \in live THEN 1 ELSE 0)

\* The reference count of every object is exact: it is never destroyed
\* while some table still points to it, nor kept after the last handle is
\* gone (object.h:85-99 with every caller in handle.c).
RefcountExact == ~overrun => \A o \in Objects : refs[o] = References(o)

\* An open handle keeps its object through the resizes other calls cause; it
\* only changes by close or dup2 of that very handle.
HandlesStable ==
    [][~overrun' => \A p \in live \cap live' : \A h \in Cells :
          HandleGet(tables[p], h) \in Objects
            /\ HandleGet(tables[p], h) # HandleGet(tables'[p], h)
          => Close(p, h) \/ \E h2 \in Cells : Dup2(p, h2, h)]_vars

\* handle.c:108: "Allocates the lowest possible handle for a specific kernel
\* object", read for every kind of object.
AllocatesLowest ==
    ~overrun => \A p \in live : \A o \in Objects :
        \A i \in Cells : MinHandle(o) <= i /\ i < AllocIndex(tables[p], o)
            => tables[p].handles[i] \in Objects

\* handle.c:160: handleSet "Releases the previous object which was associated
\* with the handle (if any)", so no reference is ever left without a handle.
SetReleasesPrevious == \A o \in Objects : refs[o] <= References(o)
=============================================================================
