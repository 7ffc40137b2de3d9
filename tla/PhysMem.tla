------------------------------ MODULE PhysMem ------------------------------
(***************************************************************************)
(* Physical pages at run time (memory/physmem.c): a bitmap of used pages,  *)
(* and extra information, a reference count among it, that only pages with *)
(* more than one reference or with a mark have.  The information is in     *)
(* tables for ChunkPages pages each, which are pages themselves, allocated *)
(* when they are first needed and marked: that may need the next table.    *)
(***************************************************************************)
EXTENDS Integers, FiniteSetsExt

CONSTANTS
    Pages,       \* number of physical pages
    Reserved,    \* pages in use when paging has been enabled
    ChunkPages,  \* PHYSMEMEXTRA_COUNT: pages of a table of extra information
    MaxRef       \* 2^7 - 1: largest value of the bit field ref

Page == 0 .. Pages - 1
Chunk == 0 .. (Pages - 1) \div ChunkPages
ChunkOf(i) == i \div ChunkPages
NoPage == Pages

ASSUME PhysMemAssumption ==
    /\ Pages \in Nat \ {0} /\ ChunkPages \in Nat \ {0} /\ MaxRef \in Nat \ {0}
    /\ Reserved \subseteq Page

VARIABLES
    used,    \* pages whose bit in physMemMap is set
    table,   \* table[c]: the page physMemExtra[c] is in, or NoPage
    info,    \* info[i]: the extra information of a page (value 0: NoInfo)
    halted,  \* SYSTEM_FAILURE or a failed assertion
    holds    \* history: references the rest of the kernel holds to a page

physVars == <<used, table, info, halted, holds>>

NoInfo == [present |-> FALSE, ref |-> 0, unpageable |-> FALSE]
FirstInfo == [present |-> TRUE, ref |-> 1, unpageable |-> FALSE]

\* The lowest free page, if there is one (physMemAllocPage).
Lowest(set) == {i \in Page \ set : \A j \in Page \ set : i <= j}

\* info[i] once it is needed: the state of a page with one reference.
Known(i) == IF info[i].present THEN info[i] ELSE FirstInfo

\* __getPhysMemExtraInfo(index, true) for a page of chunk c takes free pages, own,
\* lowest first.  The first becomes the table of c, and as a new table is itself
\* a page that has to be marked, the next becomes the table of its chunk.
TableFor(c, own, i) ==
    LET lower == {j \in own : j < i}
    IN  IF lower = {} THEN c ELSE ChunkOf(Max(lower))

\* own ends when every chunk that is needed has its table, an old or a new one.
Tables(c) ==
    {own \in SUBSET (Page \ used) :
        /\ \A i \in own : \A j \in Page \ used : j < i => j \in own
        /\ \A i, j \in own :
              /\ table[TableFor(c, own, i)] = NoPage
              /\ TableFor(c, own, i) = TableFor(c, own, j) => i = j
        /\ \A d \in {c} \cup {ChunkOf(i) : i \in own} :
              table[d] # NoPage \/ \E i \in own : TableFor(c, own, i) = d}

\* physMemExtra with the new tables
WithTables(c, own) ==
    [d \in Chunk |-> IF \E i \in own : TableFor(c, own, i) = d
                     THEN CHOOSE i \in own : TableFor(c, own, i) = d ELSE table[d]]

\* info with the new tables marked by physMemMarkUnpageable
Marked(own) ==
    [i \in Page |-> IF i \in own THEN [Known(i) EXCEPT !.unpageable = TRUE] ELSE info[i]]

-----------------------------------------------------------------------------
\* Paging has been enabled, the pages in use have no extra information yet.
PhysInit ==
    /\ used = Reserved
    /\ table = [c \in Chunk |-> NoPage]
    /\ info = [i \in Page |-> NoInfo]
    /\ halted = FALSE
    /\ holds = [i \in Page |-> IF i \in Reserved THEN 1 ELSE 0]

Fail == halted' = TRUE /\ UNCHANGED <<used, table, info, holds>>

\* physMemAllocPage
AllocPage ==
    /\ ~halted
    /\ IF Lowest(used) = {} THEN Fail
       ELSE \E i \in Lowest(used) :
               /\ used' = used \cup {i}
               /\ holds' = [holds EXCEPT ![i] = 1]
               /\ UNCHANGED <<table, info, halted>>

\* A page the caller has a reference to, and that is not a table of ours.
Held(i) == holds[i] > 0 /\ \A c \in Chunk : table[c] # i

Limit(i) == Known(i).ref + 1 > MaxRef

\* physMemAddRefPage: it fails when no page is left for a table.
AddRefPage(i) ==
    /\ ~halted /\ Held(i)
    /\ LET c == ChunkOf(i)
       IN  IF Tables(c) = {} \/ Limit(i) THEN Fail
           ELSE \E own \in Tables(c) :
                   /\ used' = used \cup own /\ table' = WithTables(c, own)
                   /\ info' = [Marked(own) EXCEPT ![i] = [Known(i) EXCEPT !.ref = @ + 1]]
                   /\ holds' = [j \in Page |-> IF j = i THEN holds[j] + 1
                                               ELSE IF j \in own THEN 1 ELSE holds[j]]
                   /\ UNCHANGED halted

\* physMemMarkUnpageable
MarkUnpageable(i) ==
    /\ ~halted /\ Held(i)
    /\ LET c == ChunkOf(i)
       IN  IF Tables(c) = {} THEN Fail
           ELSE \E own \in Tables(c) :
                   /\ used' = used \cup own /\ table' = WithTables(c, own)
                   /\ info' = [Marked(own) EXCEPT ![i] = [Known(i) EXCEPT !.unpageable = TRUE]]
                   /\ holds' = [j \in Page |-> IF j \in own THEN 1 ELSE holds[j]]
                   /\ UNCHANGED halted

MutReleased(i) ==   \* the extra information is not reset
    IF info[i].present THEN [info[i] EXCEPT !.ref = @ - 1] ELSE info[i]

\* The information after a reference is given back, value 0 when it was the last.
Released(i) ==
    IF info[i].present /\ info[i].ref > 1 THEN [info[i] EXCEPT !.ref = @ - 1] ELSE NoInfo

MutStaysUsed(i) == FALSE   \* freed while others have references
StaysUsed(i) == info[i].present /\ info[i].ref > 1

\* physMemReleasePage
ReleasePage(i) ==
    /\ ~halted /\ Held(i)
    /\ info' = [info EXCEPT ![i] = Released(i)]
    /\ used' = IF StaysUsed(i) THEN used ELSE used \ {i}
    /\ holds' = [holds EXCEPT ![i] = @ - 1]
    /\ UNCHANGED <<table, halted>>

PhysNext ==
    \/ AllocPage
    \/ \E i \in Page : AddRefPage(i) \/ MarkUnpageable(i) \/ ReleasePage(i)

PhysSpec == PhysInit /\ [][PhysNext]_physVars

-----------------------------------------------------------------------------
(* Properties *)

\* Types of the bitmap and of the extra information.
PhysTypeOK ==
    /\ used \subseteq Page
    /\ table \in [Chunk -> Page \cup {NoPage}]
    /\ info \in [Page -> [present : BOOLEAN, ref : 0 .. MaxRef, unpageable : BOOLEAN]]
    /\ halted \in BOOLEAN
    /\ holds \in [Page -> 0 .. MaxRef]

\* The number of references the bitmap and the extra information stand for.
Count(i) == IF i \notin used THEN 0 ELSE IF info[i].present THEN info[i].ref ELSE 1

\* physMemIsLastRef
IsLastRef(i) == ~info[i].present \/ info[i].ref = 1

\* The count of every page is the number of references that are held, whether it
\* is in the bitmap or in the table: no page is freed under a holder or lost,
\* and copy on write is told of the last reference.
CountsExact ==
    /\ \A i \in Page : Count(i) = holds[i]
    /\ \A i \in used : IsLastRef(i) <=> holds[i] = 1

\* A free page carries no information that its next owner would inherit, and a
\* page with information lies in a chunk that has its table.
NoStaleInfo ==
    \A i \in Page : info[i] # NoInfo => i \in used /\ table[ChunkOf(i)] # NoPage

\* Tables are pages of their own, one for each chunk, in use and unpageable for
\* as long as the system runs.
TablesSafe ==
    \A c \in Chunk : table[c] # NoPage =>
        /\ table[c] \in used /\ info[table[c]].unpageable
        /\ \A d \in Chunk \ {c} : table[d] # table[c]

Abstract == INSTANCE PageCount WITH count <- [i \in Page |-> Count(i)], down <- halted

\* physmem.c implements a count of references for every page.
ImplementsPageCount == Abstract!Spec

\* The bitmap, the counters and the pages in which the counters lie agree with
\* the references that are held.
CountersSound == PhysTypeOK /\ CountsExact /\ NoStaleInfo /\ TablesSafe
====
