----------------------------- MODULE BootMemory -----------------------------
(***************************************************************************)
(* Memory at start up (memory/physmem.c, memory/paging.c, main.c): the     *)
(* bitmap of physical pages is filled from the memory map of the boot      *)
(* loader, what the kernel needs is protected and entered into the boot    *)
(* map, and pagingInit maps the boot map where it is.                      *)
(*                                                                         *)
(* Addresses count units of PAGE_SIZE / PageSize bytes.                    *)
(***************************************************************************)
EXTENDS Integers, Sequences, FiniteSets, FiniteSetsExt, Intervals

CONSTANTS
    WordBits,     \* 32: pages in a word of physMemMap
    Words,        \* words of physMemMap
    LowWords,     \* 8: words with the pages below 1 MB
    KernelPage,   \* KERNEL_PAGE_ADDR >> PAGE_BITS: where the page tables appear
    PageSize,     \* units in a page
    MapEntries,   \* the memory map: addr, len and type of its entries
    Protected,    \* the memory the kernel protects: addr and len
    MaxEntries,   \* bound: entries of the memory map
    MaxProtected  \* bound: protected areas

Types == 1 .. 5         \* MULTIBOOT_MEMORY_AVAILABLE .. MULTIBOOT_MEMORY_BADRAM
AVAILABLE == 1
PAGE_COUNT == Words * WordBits
Page == 0 .. PAGE_COUNT - 1

BootAssumption ==
    /\ WordBits \in Nat \ {0} /\ Words \in Nat \ {0} /\ LowWords \in 0 .. Words
    /\ KernelPage \in Nat
    /\ PageSize \in Nat \ {0} /\ MaxEntries \in Nat /\ MaxProtected \in Nat
    /\ MapEntries \subseteq [addr : Nat, len : Nat, type : Types]
    /\ Protected \subseteq [addr : Nat, len : Nat]

VARIABLES
    phase,       \* "map", "protect", "paging" or "run"
    physMemMap,  \* physMemMap[w]: the bits that are set in word w
    bootMap,     \* pagingBootMap
    mapped,      \* pages pagingInit has mapped at their own address
    tables,      \* pages pagingInit has allocated
    seen,        \* history: entries of the memory map so far
    kept         \* history: protected areas so far

vars == <<phase, physMemMap, bootMap, mapped, tables, seen, kept>>

\* The pages whose bit is clear in a bitmap.
FreePages(map) == {i \in Page : i % WordBits \notin map[i \div WordBits]}

\* |= mask and &= ~mask
Masked(word, mask, reserved) == IF reserved THEN word \cup mask ELSE word \ mask

MutSetMemoryBits(map, start, length, reserved) ==   \* the bits of the last word are lost
    LET first == start \div WordBits
        offset == start % WordBits
        head == IF offset = 0 THEN 0 ELSE Min({length, WordBits - offset})
        full == (length - head) \div WordBits
        next == IF offset = 0 THEN first ELSE first + 1
    IN  [w \in DOMAIN map |->
            CASE w = first /\ offset # 0 ->
                    Masked(map[w], offset .. offset + head - 1, reserved)
              [] w \in next .. next + full - 1 -> IF reserved THEN 0 .. WordBits - 1 ELSE {}
              [] OTHER -> map[w]]

\* physMemSetMemoryBits: the bits up to a word boundary, whole words, the rest.
SetMemoryBits(map, start, length, reserved) ==
    LET first == start \div WordBits
        offset == start % WordBits
        head == IF offset = 0 THEN 0 ELSE Min({length, WordBits - offset})
        full == (length - head) \div WordBits
        rest == (length - head) % WordBits
        next == IF offset = 0 THEN first ELSE first + 1
    IN  [w \in DOMAIN map |->
            CASE w = first /\ offset # 0 ->
                    Masked(map[w], offset .. offset + head - 1, reserved)
              [] w \in next .. next + full - 1 -> IF reserved THEN 0 .. WordBits - 1 ELSE {}
              [] w = next + full /\ rest > 0 -> Masked(map[w], 0 .. rest - 1, reserved)
              [] OTHER -> map[w]]

\* addr >> PAGE_BITS, (addr + PAGE_MASK) >> PAGE_BITS, and the limit of the end
PageDown(addr) == addr \div PageSize
PageUp(addr) == (addr + PageSize - 1) \div PageSize
Clamped(stop) == IF stop >= PAGE_COUNT THEN PAGE_COUNT - 1 ELSE stop

-----------------------------------------------------------------------------
\* physMemClearMemoryBits(PHYSMEM_RESERVED)
Init ==
    /\ phase = "map"
    /\ physMemMap = [w \in 0 .. Words - 1 |-> 0 .. WordBits - 1]
    /\ bootMap = <<>> /\ mapped = {} /\ tables = {} /\ seen = {} /\ kept = {}

\* if (!(memMap->type & MULTIBOOT_MEMORY_AVAILABLE)) continue;
IsAvailable(e) == e.type % 2 = AVAILABLE

\* The first page of an entry that physMemInit frees and the first it leaves.
EntryStart(e) == PageUp(e.addr)
EntryStop(e) == PageDown(e.addr + e.len)

\* physMemInit: one entry of the memory map.
MapEntry(e) ==
    /\ phase = "map" /\ Cardinality(seen) < MaxEntries /\ e \notin seen
    /\ seen' = seen \cup {e}
    /\ physMemMap' =
          IF IsAvailable(e) /\ EntryStop(e) > EntryStart(e) /\ EntryStart(e) < PAGE_COUNT
          THEN SetMemoryBits(physMemMap, EntryStart(e),
                             Clamped(EntryStop(e)) - EntryStart(e), FALSE)
          ELSE physMemMap
    /\ UNCHANGED <<phase, bootMap, mapped, tables, kept>>

MapDone ==
    /\ phase = "map"
    /\ phase' = "protect"
    /\ UNCHANGED <<physMemMap, bootMap, mapped, tables, seen, kept>>

ProtectStop(a) == Clamped(PageUp(a.addr + a.len))

\* physMemProtectBootEntry
ProtectBootEntry(a) ==
    /\ phase = "protect" /\ Cardinality(kept) < MaxProtected /\ a \notin kept
    /\ kept' = kept \cup {a}
    /\ LET start == PageDown(a.addr)
           stop == ProtectStop(a)
       IN  /\ start <= stop
           /\ bootMap' = Inserted(bootMap, start, stop)
           /\ physMemMap' = SetMemoryBits(physMemMap, start, stop - start, TRUE)
    /\ UNCHANGED <<phase, mapped, tables, seen>>

\* physMemAllocPage(false): the lowest free page above 1 MB, if there is one.
AllocPage(map) ==
    LET free == {i \in FreePages(map) : i >= LowWords * WordBits}
    IN  {i \in free : \A j \in free : i <= j}

SetUsed(map, i) == [map EXCEPT ![i \div WordBits] = @ \cup {i % WordBits}]

\* __pagingBootMapCheck: does an entry overlap start .. stop - 1?
BootMapCheck(start, stop) ==
    \E i \in DOMAIN bootMap :
        /\ \A j \in 1 .. i : stop > bootMap[j].start
        /\ bootMap[i].stop > start

\* pagingInit: page 0 and the window of the page tables must not be in the boot
\* map; a page for the directory.
PagingInit ==
    /\ phase = "protect" /\ ~BootMapCheck(0, 1) /\ ~BootMapCheck(KernelPage, PAGE_COUNT - 1)
    /\ \E i \in AllocPage(physMemMap) :
          /\ tables' = {i}
          /\ physMemMap' = SetUsed(physMemMap, i)
    /\ phase' = "paging"
    /\ UNCHANGED <<bootMap, mapped, seen, kept>>

\* pagingInit: the next page of the boot map is mapped, and a page for the page
\* table may be needed (__getPagingEntry).
MapBootPage ==
    /\ phase = "paging"
    /\ LET left == Covered(bootMap) \ mapped
       IN  /\ left # {}
           /\ mapped' = mapped \cup {Min(left)}
    /\ \/ UNCHANGED <<physMemMap, tables>>
       \/ \E i \in AllocPage(physMemMap) :
             /\ tables' = tables \cup {i}
             /\ physMemMap' = SetUsed(physMemMap, i)
    /\ UNCHANGED <<phase, bootMap, seen, kept>>

PagingDone ==
    /\ phase = "paging" /\ Covered(bootMap) \subseteq mapped
    /\ phase' = "run"
    /\ UNCHANGED <<physMemMap, bootMap, mapped, tables, seen, kept>>

Next ==
    \/ \E e \in MapEntries : MapEntry(e)
    \/ MapDone
    \/ \E a \in Protected : ProtectBootEntry(a)
    \/ PagingInit \/ MapBootPage \/ PagingDone

Spec == Init /\ [][Next]_vars

-----------------------------------------------------------------------------
(* Properties *)

\* Types of the bitmap, the boot map and the pages of pagingInit.
TypeOK ==
    /\ phase \in {"map", "protect", "paging", "run"}
    /\ physMemMap \in [0 .. Words - 1 -> SUBSET (0 .. WordBits - 1)]
    /\ \A i \in DOMAIN bootMap : bootMap[i].start \in Page /\ bootMap[i].stop \in Page
    /\ mapped \subseteq Page /\ tables \subseteq Page

Units(a) == a.addr .. a.addr + a.len - 1
UnitsOf(i) == i * PageSize .. (i + 1) * PageSize - 1

\* Page i begins before the end of an area and ends behind its start.
Touches(i, a) == i * PageSize < a.addr + a.len /\ a.addr < (i + 1) * PageSize

\* The bitmap is what the memory map and the protected areas say, page by page:
\* a page is free when an entry the code accepts has all of it (the last page of
\* the address space excepted), nothing protected has a part of it and pagingInit
\* has not taken it.  Checks the masks of physMemSetMemoryBits and the rounding.
BitsExact ==
    FreePages(physMemMap) =
        {i \in 0 .. PAGE_COUNT - 2 :
            /\ \E e \in seen : IsAvailable(e) /\ UnitsOf(i) \subseteq Units(e)
            /\ \A a \in kept : ~Touches(i, a)} \ tables

\* The boot map has the pages of all protected areas and no others, in order and
\* combined, whatever order they are entered in.
BootMapExact ==
    /\ Normal(bootMap)
    /\ Covered(bootMap) = {i \in 0 .. PAGE_COUNT - 2 : \E a \in kept : Touches(i, a)}

\* The pages pagingInit takes for its directory and tables are none of those
\* whose content the kernel still needs and maps at their own address.
TablesApart == tables \cap Covered(bootMap) = {}

\* Only memory of type AVAILABLE is free, as the comment of physMemInit says.
OnlyAvailableFree ==
    \A i \in FreePages(physMemMap) :
        \E e \in seen : e.type = AVAILABLE /\ UnitsOf(i) \subseteq Units(e)

\* Bitmap and boot map describe the same protected pages, and the first page
\* tables lie in none of them.
BootSound == TypeOK /\ BitsExact /\ BootMapExact /\ TablesApart
====
