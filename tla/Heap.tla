-------------------------------- MODULE Heap --------------------------------
(***************************************************************************)
(* The kernel heap (memory/allocator.c).  Small blocks share pages: a page *)
(* is a row of blocks, each behind a header with its length, and the free  *)
(* ones are linked into lists by size.  Large blocks have pages of their   *)
(* own.  The heap finds its way by the lengths in the headers alone, and   *)
(* those lie between the data of its callers.                              *)
(*                                                                         *)
(* Memory is counted in granules of HEAP_ALIGN_SIZE (16) bytes, the size   *)
(* of a header; the code rounds every length up to granules before it uses *)
(* it.  The kernel runs with interrupts disabled: a call is one step.      *)
(***************************************************************************)
EXTENDS Integers, Sequences, FiniteSets, SequencesExt, FiniteSetsExt

CONSTANTS
    Pages,       \* bound: pages of kernel memory the heap can have
    PageUnits,   \* PAGE_SIZE in granules
    Buckets,     \* sizes of the lists of free blocks, ascending
    Owners,      \* bound: allocations that exist at the same time
    Lengths      \* lengths callers ask for

MinBlock == 2                           \* sizeof(struct heapEntry) + 16
MaxSmall == Buckets[Len(Buckets)]       \* 1024: the largest small block

ASSUME HeapAssumption ==
    /\ Pages \in Nat \ {0} /\ PageUnits \in Nat \ {0}
    /\ Buckets # <<>> /\ Buckets[1] = MinBlock /\ MaxSmall < PageUnits
    /\ \A i \in 1 .. Len(Buckets) : Buckets[i] \in Nat
    /\ \A i \in 2 .. Len(Buckets) : Buckets[i - 1] < Buckets[i]
    /\ Lengths \subseteq Nat \ {0}

Addr == 0 .. Pages * PageUnits - 1
PageOf(a) == a \div PageUnits
PageStart(a) == PageOf(a) * PageUnits

\* What a granule holds: nothing (its page is not mapped), a value no one may
\* rely on, a header, or part k of the data of an allocation.
NoOwner == "no owner"
Cell(magic, length, reserved, owner) ==
    [magic |-> magic, length |-> length, reserved |-> reserved, owner |-> owner]
Unmapped == Cell("unmapped", 0, FALSE, NoOwner)
Junk == Cell("junk", 0, FALSE, NoOwner)
Header(magic, length, reserved) == Cell(magic, length, reserved, NoOwner)
Data(o, k) == Cell("data", k, FALSE, o)

VARIABLES
    heap,   \* mem: the memory; unused: the lists of free blocks; used: the
            \* blocks linked into smallHeap and largeHeap
    live    \* live[o]: where an allocation is, what was asked for, and how
            \* many granules of it the caller has written

vars == <<heap, live>>

Mapped(h, p) == h.mem[p * PageUnits] # Unmapped

\* Memory a .. a + n - 1 set to v.
Fill(mem, a, n, v) == [x \in Addr |-> IF x \in a .. a + n - 1 THEN v ELSE mem[x]]

-----------------------------------------------------------------------------
(* Pages, from the paging layer (memory/paging.c) *)

MapPages(h, p, n) == [h EXCEPT !.mem = Fill(@, p * PageUnits, n * PageUnits, Junk)]
UnmapPages(h, p, n) == [h EXCEPT !.mem = Fill(@, p * PageUnits, n * PageUnits, Unmapped)]

\* pagingTrySearchArea: the first n consecutive pages that are free, if any.
SearchArea(h, n) ==
    LET runs == {p \in 0 .. Pages - n : \A q \in p .. p + n - 1 : ~Mapped(h, q)}
    IN  {p \in runs : \A q \in runs : p <= q}

\* Copies n pages from page p to page q and unmaps them at p (__pagingMove).
MovePages(h, q, p, n) ==
    [h EXCEPT !.mem = [a \in Addr |->
        IF PageOf(a) \in q .. q + n - 1 THEN h.mem[a - (q - p) * PageUnits]
        ELSE IF PageOf(a) \in p .. p + n - 1 THEN Unmapped ELSE h.mem[a]]]

\* pagingReAllocatePhysMem: shrink; or add the pages that follow, and at the
\* first one that is in use move everything to a place that is large enough.
ReAllocPages(h, p, old, new) ==
    LET free(n) == p + n <= Pages /\ \A q \in p + old .. p + n - 1 : ~Mapped(h, q)
        grown == Max({n \in old .. new : free(n)})
        here == MapPages(h, p + old, grown - old)
    IN  IF new <= old
        THEN {[page |-> p, heap |-> UnmapPages(h, p + new, old - new)]}
        ELSE IF grown = new THEN {[page |-> p, heap |-> here]}
        ELSE {[page |-> q, heap |-> MapPages(MovePages(here, q, p, grown),
                                             q + grown, new - grown)] :
                  q \in SearchArea(here, new)}

-----------------------------------------------------------------------------
(* Small blocks *)

\* ll_remove of a block that is in one of the lists
Unlink(h, a) ==
    [h EXCEPT !.unused = [i \in DOMAIN @ |-> Remove(@[i], a)], !.used = @ \ {a}]

\* __smallFindUnusedHeapEntry: the list the block is taken from.
MutFindUnused(h, n) ==   \* a list of blocks that may be too small
    {i \in DOMAIN Buckets : Buckets[i] + 1 >= n /\ h.unused[i] # <<>>}
FindUnused(h, n) == {i \in DOMAIN Buckets : Buckets[i] >= n /\ h.unused[i] # <<>>}

\* __smallQueueUnusedHeap: give the page back, or put the block in front of the
\* list for its size.
QueueUnused(h, a, n) ==
    LET bucket == Max({i \in DOMAIN Buckets : Buckets[i] <= n})
        mem == [Fill(h.mem, a, n, Junk) EXCEPT ![a] = Header("small", n, FALSE)]
    IN  IF a = PageStart(a) /\ n = PageUnits THEN UnmapPages(h, PageOf(a), 1)
        ELSE [h EXCEPT !.mem = mem, !.unused[bucket] = <<a>> \o @]

\* __smallGetPreviousHeap: the block that ends at a or later, from the start of
\* the page; a itself when it is the first block.
PreviousHeap(h, a) ==
    LET from[b \in Addr] ==
            IF b >= a \/ b + h.mem[b].length >= a THEN b ELSE from[b + h.mem[b].length]
    IN  from[PageStart(a)]

\* __smallGetNextHeap: the block behind the one at a, if it is in the page.
NextHeap(a, n) == IF a + n < PageStart(a) + PageUnits THEN {a + n} ELSE {}

MutInternalFree(h, a, n) ==   \* only merges with the block in front
    LET prev == PreviousHeap(h, a)
    IN  IF ~h.mem[prev].reserved THEN QueueUnused(Unlink(h, prev), prev, a + n - prev)
        ELSE QueueUnused(h, a, n)

\* __smallInternalFree: merge with the free blocks on both sides.
InternalFree(h, a, n) ==
    LET prev == PreviousHeap(h, a)
        start == IF h.mem[prev].reserved THEN a ELSE prev
        behind == {b \in NextHeap(a, n) : ~h.mem[b].reserved}
        end == IF behind = {} THEN a + n
               ELSE LET b == CHOOSE b \in behind : TRUE IN b + h.mem[b].length
        merged == (IF h.mem[prev].reserved THEN {} ELSE {prev}) \cup behind
    IN  QueueUnused(FoldSet(LAMBDA b, g : Unlink(g, b), h, merged), start, end - start)

\* The tail of __smallAlloc and __smallReAlloc: the block at a, which has total
\* granules, keeps n of them, or all when the rest is too small to be a block.
GiveBack(h, a, n, total) ==
    LET keep == IF total < n + MinBlock THEN total ELSE n
        g == [h EXCEPT !.mem[a] = Header("small", keep, TRUE), !.used = @ \cup {a}]
    IN  IF keep < total THEN InternalFree(g, a + keep, total - keep) ELSE g

\* __smallAlloc: the first block of the first list whose blocks are large
\* enough, or a new page.
SmallAlloc(h, n) ==
    LET found == FindUnused(h, n + 1)
        a == h.unused[Min(found)][1]
        total == h.mem[a].length
    IN  IF found # {}
        THEN {[addr |-> a, heap |-> GiveBack([Unlink(h, a) EXCEPT
                  !.mem = Fill(@, a, total, Junk)], a, n + 1, total)]}
        ELSE {[addr |-> p * PageUnits,
               heap |-> GiveBack(MapPages(h, p, 1), p * PageUnits, n + 1, PageUnits)] :
                  p \in SearchArea(h, 1)}

\* __smallFree
SmallFree(h, a) == InternalFree(Unlink(h, a), a, h.mem[a].length)

\* __smallReAlloc: the block stays where it is, and grows into the free block
\* behind it; {} where the code returns NULL.
SmallReAlloc(h, a, n) ==
    LET size == h.mem[a].length
        behind == {b \in NextHeap(a, size) :
                      ~h.mem[b].reserved /\ n + 1 <= b + h.mem[b].length - a}
        grown(b) == [Unlink(h, b) EXCEPT !.mem[b] = Junk]
    IN  IF n > MaxSmall - 1 THEN {}
        ELSE IF n + 1 <= size THEN {[addr |-> a, heap |-> GiveBack(h, a, n + 1, size)]}
        ELSE {[addr |-> a,
               heap |-> GiveBack(grown(b), a, n + 1, b + h.mem[b].length - a)] : b \in behind}

-----------------------------------------------------------------------------
(* Large blocks *)

PagesFor(n) == (n + 1 + PageUnits - 1) \div PageUnits

\* __largeAlloc
LargeAlloc(h, n) ==
    LET m == PagesFor(n)
    IN  {[addr |-> p * PageUnits,
          heap |-> [MapPages(h, p, m) EXCEPT
              !.mem[p * PageUnits] = Header("large", m * PageUnits, TRUE),
              !.used = @ \cup {p * PageUnits}]] : p \in SearchArea(h, m)}

\* __largeFree
LargeFree(h, a) == UnmapPages(Unlink(h, a), PageOf(a), h.mem[a].length \div PageUnits)

\* __largeReAlloc; {} where the code returns NULL.
LargeReAlloc(h, a, n) ==
    LET m == PagesFor(n)
        moved == ReAllocPages(Unlink(h, a), PageOf(a), h.mem[a].length \div PageUnits, m)
    IN  IF n <= MaxSmall - 1 THEN {}
        ELSE IF m * PageUnits = h.mem[a].length THEN {[addr |-> a, heap |-> h]}
        ELSE {[addr |-> r.page * PageUnits,
               heap |-> [r.heap EXCEPT
                   !.mem[r.page * PageUnits] = Header("large", m * PageUnits, TRUE),
                   !.used = @ \cup {r.page * PageUnits}]] : r \in moved}

-----------------------------------------------------------------------------
(* The heap's operations *)

\* heapAlloc: the results it can have, none when the kernel is out of memory.
HeapAlloc(h, n) == IF n <= MaxSmall - 1 THEN SmallAlloc(h, n) ELSE LargeAlloc(h, n)

\* heapFree of the block whose header is at a
HeapFree(h, a) == IF h.mem[a].magic = "small" THEN SmallFree(h, a) ELSE LargeFree(h, a)

\* heapSize
HeapSize(h, a) == h.mem[a].length - 1

Copy(mem, to, from, n) ==
    [x \in Addr |-> IF x \in to .. to + n - 1 THEN mem[x - to + from] ELSE mem[x]]

\* The memcpy of heapReAlloc: what is there of the old block, at most n.
Copied(h, b, a, n) ==
    [h EXCEPT !.mem = Copy(@, b + 1, a + 1, Min({n, HeapSize(h, a)}))]

\* heapReAlloc: in place or by moving pages, otherwise allocate, copy and free.
HeapReAlloc(h, a, n) ==
    LET small == h.mem[a].magic = "small"
        quick == IF small THEN SmallReAlloc(h, a, n) ELSE LargeReAlloc(h, a, n)
    IN  IF quick # {} \/ (~small /\ n > MaxSmall - 1) THEN quick
        ELSE {[addr |-> r.addr, heap |-> HeapFree(Copied(r.heap, r.addr, a, n), a)] :
                  r \in HeapAlloc(h, n)}

\* A caller writes the first n granules of its block.
Written(h, o, a, n) ==
    [h EXCEPT !.mem = [x \in Addr |->
        IF x \in a + 1 .. a + n THEN Data(o, x - a) ELSE @[x]]]

-----------------------------------------------------------------------------
Init ==
    /\ heap = [mem |-> [a \in Addr |-> Unmapped],
               unused |-> [i \in DOMAIN Buckets |-> <<>>], used |-> {}]
    /\ live = <<>>

Allocation(a, n, w) == [addr |-> a, asked |-> n, written |-> w]

\* Kernel code allocates a block and fills what it asked for.
Alloc(o, n) ==
    /\ o \notin DOMAIN live
    /\ \E r \in HeapAlloc(heap, n) :
          /\ heap' = Written(r.heap, o, r.addr, n)
          /\ live' = [x \in DOMAIN live \cup {o} |->
                         IF x = o THEN Allocation(r.addr, n, n) ELSE live[x]]

\* Kernel code fills the memory a ReAlloc has added.
Write(o) ==
    /\ o \in DOMAIN live /\ live[o].written < live[o].asked
    /\ heap' = Written(heap, o, live[o].addr, live[o].asked)
    /\ live' = [live EXCEPT ![o].written = live[o].asked]

\* The new granules are not written before the caller gets to it.
ReAlloc(o, n) ==
    /\ o \in DOMAIN live
    /\ \E r \in HeapReAlloc(heap, live[o].addr, n) :
          /\ heap' = r.heap
          /\ live' = [live EXCEPT ![o] = Allocation(r.addr, n, Min({n, @.written}))]

Free(o) ==
    /\ o \in DOMAIN live
    /\ heap' = HeapFree(heap, live[o].addr)
    /\ live' = [x \in DOMAIN live \ {o} |-> live[x]]

Next ==
    \/ \E o \in Owners, n \in Lengths : Alloc(o, n)
    \/ \E o \in Owners : Write(o)
    \/ \E o \in Owners, n \in Lengths : ReAlloc(o, n)
    \/ \E o \in Owners : Free(o)

Spec == Init /\ [][Next]_vars

-----------------------------------------------------------------------------
(* Properties *)

\* Types of the heap's memory, its lists and the allocations; the lengths in
\* headers are those heapVerify accepts.
TypeOK ==
    /\ heap.mem \in [Addr -> [magic : {"unmapped", "junk", "small", "large", "data"},
                              length : 0 .. Pages * PageUnits, reserved : BOOLEAN,
                              owner : Owners \cup {NoOwner}]]
    /\ \A a \in Addr :
          /\ heap.mem[a].magic = "small" => heap.mem[a].length \in MinBlock .. PageUnits
          /\ heap.mem[a].magic = "large" => heap.mem[a].length % PageUnits = 0
    /\ \A i \in DOMAIN Buckets : Range(heap.unused[i]) \subseteq Addr
    /\ heap.used \subseteq Addr
    /\ DOMAIN live \subseteq Owners
    /\ \A o \in DOMAIN live :
          live[o] \in [addr : Addr, asked : Lengths, written : 0 .. Pages * PageUnits]

\* The blocks of page p, from the first one by their lengths.
RowFrom(p) ==
    LET row[a \in 0 .. Pages * PageUnits] ==
            IF a >= (p + 1) * PageUnits \/ heap.mem[a].length = 0 THEN {}
            ELSE {a} \cup row[a + heap.mem[a].length]
    IN  row[p * PageUnits]

SmallPages == {p \in 0 .. Pages - 1 : heap.mem[p * PageUnits].magic = "small"}
SmallBlocks == UNION {RowFrom(p) : p \in SmallPages}
FreeBlocks == {a \in SmallBlocks : ~heap.mem[a].reserved}

\* After any sequence of calls the blocks of a page cover it exactly, from one
\* header to the next, so that freeing finds the neighbours it merges with: the
\* assertions of __smallGetPreviousHeap and __smallGetNextHeap.
RowsTile ==
    \A p \in SmallPages :
        /\ \A a \in RowFrom(p) :
              heap.mem[a].magic = "small" /\ heap.mem[a].length >= MinBlock
        /\ FoldSet(LAMBDA a, n : n + heap.mem[a].length, 0, RowFrom(p)) = PageUnits

\* No two free blocks are neighbours and no page that is wholly free is kept:
\* memory does not stay in pieces that are too small to be used again.
Coalesced ==
    \A a \in FreeBlocks :
        /\ heap.mem[a].length < PageUnits
        /\ \A b \in NextHeap(a, heap.mem[a].length) : heap.mem[b].reserved

\* Every free block is in one list, once, and the list is the one for its size.
UnusedExact ==
    \A i \in DOMAIN Buckets :
        /\ IsInjective(heap.unused[i])
        /\ Range(heap.unused[i]) =
              {a \in FreeBlocks : Max({j \in DOMAIN Buckets :
                                          Buckets[j] <= heap.mem[a].length}) = i}

\* What callers wrote stays in their blocks, over all that other callers do and
\* over moving the block, and every block has the length that was asked for.
DataIntact ==
    \A o \in DOMAIN live :
        /\ HeapSize(heap, live[o].addr) >= live[o].asked
        /\ \A k \in 1 .. live[o].written : heap.mem[live[o].addr + k] = Data(o, k)

\* The heap holds no memory but the blocks of its callers and the free blocks
\* between them: when everything is freed all pages are given back.
NoLeak ==
    /\ heap.used = {live[o].addr : o \in DOMAIN live}
    /\ {a \in SmallBlocks : heap.mem[a].reserved}
          = {a \in heap.used : heap.mem[a].magic = "small"}
    /\ \A p \in 0 .. Pages - 1 : Mapped(heap, p) =>
          \E a \in heap.used : PageOf(a) <= p /\ p * PageUnits < a + heap.mem[a].length

\* The structure of the heap, as heapVerify checks a part of it, and nothing in
\* it that is neither a caller's nor free: it survives every sequence of calls.
HeapSound == TypeOK /\ RowsTile /\ Coalesced /\ UnusedExact /\ NoLeak
====
