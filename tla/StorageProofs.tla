---------------------------- MODULE StorageProofs ----------------------------
(***************************************************************************)
(* Proofs about what the kernel keeps in memory.                           *)
(*                                                                         *)
(* Pages: the reference counts of physical pages are exact, and physmem.c  *)
(* implements PageCount, for any number of pages, any size of the tables   *)
(* and any limit of the counter.                                           *)
(*                                                                         *)
(* Files: the buffer of a file holds the file, and the file is a plain     *)
(* sequence of bytes to those who read and write it, for any number of     *)
(* them, any bytes and any bounds that keep positions away from the end of *)
(* the numbers.                                                            *)
(***************************************************************************)
EXTENDS PhysMem, FileContent, SequenceTheorems, TLAPS

-----------------------------------------------------------------------------
(* The references of a page.                                               *)

Info == [present : BOOLEAN, ref : 0 .. MaxRef, unpageable : BOOLEAN]

LEMMA FirstInfos == NoInfo \in Info /\ FirstInfo \in Info
BY PhysMemAssumption DEF NoInfo, FirstInfo, Info

\* What the two updates of a page's information change and keep.
LEMMA InfoUpdates ==
    ASSUME NEW r \in Info
    PROVE  /\ [r EXCEPT !.unpageable = TRUE] \in Info
           /\ [r EXCEPT !.unpageable = TRUE].ref = r.ref
           /\ [r EXCEPT !.unpageable = TRUE].present = r.present
           /\ [r EXCEPT !.unpageable = TRUE].unpageable
           /\ r.ref + 1 <= MaxRef => [r EXCEPT !.ref = @ + 1] \in Info
           /\ [r EXCEPT !.ref = @ + 1].ref = r.ref + 1
           /\ [r EXCEPT !.ref = @ + 1].present = r.present
           /\ [r EXCEPT !.ref = @ + 1].unpageable = r.unpageable
<1>1. MaxRef \in Nat
  BY PhysMemAssumption
<1>2. [r EXCEPT !.unpageable = TRUE] \in Info
  BY DEF Info
<1>3. r.ref + 1 <= MaxRef => [r EXCEPT !.ref = @ + 1] \in Info
  BY <1>1 DEF Info
<1>4. /\ [r EXCEPT !.unpageable = TRUE].ref = r.ref
      /\ [r EXCEPT !.unpageable = TRUE].present = r.present
      /\ [r EXCEPT !.unpageable = TRUE].unpageable
  BY DEF Info
<1>5. /\ [r EXCEPT !.ref = @ + 1].ref = r.ref + 1
      /\ [r EXCEPT !.ref = @ + 1].present = r.present
      /\ [r EXCEPT !.ref = @ + 1].unpageable = r.unpageable
  BY DEF Info
<1>. QED
  BY <1>2, <1>3, <1>4, <1>5, Zenon

\* Every page lies in a chunk.
LEMMA ChunkOfPage == \A i \in Page : ChunkOf(i) \in Chunk
<1>. SUFFICES ASSUME NEW i \in Page PROVE ChunkOf(i) \in Chunk
  OBVIOUS
<1>1. i \in Nat /\ i <= Pages - 1 /\ Pages \in Nat /\ ChunkPages \in Nat /\ ChunkPages > 0
  BY PhysMemAssumption DEF Page
<1>2. \A a, b, n \in Nat : n > 0 /\ a <= b => a \div n <= b \div n
  OBVIOUS
<1>. QED
  BY <1>1, <1>2 DEF ChunkOf, Chunk

-----------------------------------------------------------------------------
(* New tables (__getPhysMemExtraInfo).                                     *)

\* New tables are free pages, and every page that is needed gets its table.
LEMMA TablesFree ==
    ASSUME NEW c, NEW own \in Tables(c)
    PROVE  /\ own \subseteq Page /\ own \cap used = {}
           /\ \A d \in {c} \cup {ChunkOf(i) : i \in own} :
                 table[d] # NoPage \/ \E i \in own : TableFor(c, own, i) = d
           /\ \A i \in own : table[TableFor(c, own, i)] = NoPage
BY Zenon DEF Tables

\* Where WithTables has an entry, it is that of before or a new page, which then
\* serves the chunk of the entry and no other.
LEMMA WithTablesEntry ==
    ASSUME NEW c, NEW own, NEW d \in Chunk
    PROVE  \/ /\ WithTables(c, own)[d] = table[d]
              /\ \A i \in own : TableFor(c, own, i) # d
           \/ /\ WithTables(c, own)[d] \in own
              /\ TableFor(c, own, WithTables(c, own)[d]) = d
<1>1. CASE \E i \in own : TableFor(c, own, i) = d
  <2>1. WithTables(c, own)[d] = CHOOSE i \in own : TableFor(c, own, i) = d
    BY <1>1 DEF WithTables
  <2>. QED
    BY <1>1, <2>1, Zenon
<1>2. CASE ~ \E i \in own : TableFor(c, own, i) = d
  BY <1>2 DEF WithTables
<1>. QED
  BY <1>1, <1>2

\* The tables after new ones were added: a map with an entry for the chunk that
\* asked and for the chunks of the new tables, which keeps the old entries.
LEMMA TablesAdded ==
    ASSUME PhysTypeOK, TablesSafe, NEW c \in Chunk, NEW own \in Tables(c)
    PROVE  /\ WithTables(c, own) \in [Chunk -> Page \cup {NoPage}]
           /\ WithTables(c, own)[c] # NoPage
           /\ \A i \in own : WithTables(c, own)[ChunkOf(i)] # NoPage
           /\ \A d \in Chunk : table[d] # NoPage => WithTables(c, own)[d] = table[d]
           /\ \A d \in Chunk : \/ WithTables(c, own)[d] = table[d]
                               \/ WithTables(c, own)[d] \in own
           /\ \A d, e \in Chunk :
                 WithTables(c, own)[d] = WithTables(c, own)[e]
                 /\ WithTables(c, own)[d] # NoPage => d = e
<1>. DEFINE T == WithTables(c, own)
<1>1. /\ own \subseteq Page /\ own \cap used = {}
      /\ \A d \in {c} \cup {ChunkOf(i) : i \in own} :
            table[d] # NoPage \/ \E i \in own : TableFor(c, own, i) = d
      /\ \A i \in own : table[TableFor(c, own, i)] = NoPage
  BY TablesFree
<1>2. NoPage \notin Page
  BY PhysMemAssumption DEF NoPage, Page
<1>3. \A d \in Chunk : \/ T[d] = table[d] /\ \A i \in own : TableFor(c, own, i) # d
                       \/ T[d] \in own /\ TableFor(c, own, T[d]) = d
  BY WithTablesEntry
<1>4. \A d \in Chunk : table[d] \in Page \cup {NoPage}
  BY DEF PhysTypeOK
<1>5. T = [d \in Chunk |-> T[d]]
  BY DEF WithTables
<1>6. \A d \in Chunk : table[d] # NoPage => T[d] = table[d]
  BY <1>1, <1>3, Zenon
<1>7. \A d \in {c} \cup {ChunkOf(i) : i \in own} : d \in Chunk => T[d] # NoPage
  BY <1>1, <1>2, <1>3, <1>6, Zenon
<1>8. \A i \in own : ChunkOf(i) \in Chunk
  BY <1>1, ChunkOfPage
<1>9. ASSUME NEW d \in Chunk, NEW e \in Chunk, T[d] = T[e], T[d] # NoPage
      PROVE  d = e
  <2>1. T[d] = table[d] \/ (T[d] \in own /\ TableFor(c, own, T[d]) = d)
    BY <1>3
  <2>2. T[e] = table[e] \/ (T[e] \in own /\ TableFor(c, own, T[e]) = e)
    BY <1>3
  <2>3. table[d] # NoPage => table[d] \in used
    BY DEF TablesSafe
  <2>4. table[e] # NoPage => table[e] \in used
    BY DEF TablesSafe
  <2>5. table[d] = table[e] /\ table[d] # NoPage => d = e
    BY DEF TablesSafe
  <2>. QED
    BY <1>1, <1>9, <2>1, <2>2, <2>3, <2>4, <2>5
<1>10. \A d \in Chunk : T[d] \in Page \cup {NoPage}
  BY <1>1, <1>3, <1>4
<1>11. T \in [Chunk -> Page \cup {NoPage}]
  BY <1>5, <1>10, Zenon
<1>12. T[c] # NoPage
  BY <1>7
<1>13. \A i \in own : T[ChunkOf(i)] # NoPage
  BY <1>7, <1>8
<1>. HIDE DEF T
<1>. QED
  BY <1>3, <1>6, <1>9, <1>11, <1>12, <1>13 DEF T

-----------------------------------------------------------------------------
(* The counters.                                                           *)

\* What a free page and a page in use have as information.
LEMMA InfoOf ==
    ASSUME CountersSound, NEW i \in Page
    PROVE  /\ info[i] \in Info /\ holds[i] \in 0 .. MaxRef
           /\ i \notin used => info[i] = NoInfo /\ holds[i] = 0
           /\ i \in used /\ info[i].present => info[i].ref = holds[i]
           /\ i \in used /\ ~info[i].present => holds[i] = 1
           /\ Known(i) \in Info /\ Known(i).present
           /\ i \in used => Known(i).ref = holds[i]
           /\ i \notin used => Known(i) = FirstInfo
BY PhysMemAssumption
DEF CountersSound, PhysTypeOK, CountsExact, NoStaleInfo, Count, Known, FirstInfo, NoInfo, Info

\* A page that is counted is in use.
LEMMA HeldUsed ==
    ASSUME CountersSound, NEW i \in Page, Held(i)
    PROVE  i \in used /\ holds[i] > 0 /\ \A c \in Chunk : table[c] # i
BY InfoOf DEF Held

\* Adding tables own and giving page i the information new and n more
\* references keeps the counters sound: AddRefPage and MarkUnpageable.
LEMMA Adding ==
    ASSUME CountersSound, NEW i \in Page, Held(i), NEW own \in Tables(ChunkOf(i)),
           NEW new \in Info, NEW n \in {0, 1},
           new.present, new.ref = holds[i] + n, new.unpageable \/ new.unpageable = Known(i).unpageable,
           used' = used \cup own, table' = WithTables(ChunkOf(i), own),
           info' = [Marked(own) EXCEPT ![i] = new],
           holds' = [j \in Page |-> IF j = i THEN holds[j] + n
                                    ELSE IF j \in own THEN 1 ELSE holds[j]],
           halted' = halted
    PROVE  CountersSound'
<1>. DEFINE c == ChunkOf(i)
<1>1. c \in Chunk
  BY ChunkOfPage
<1>2. own \subseteq Page /\ own \cap used = {}
  BY TablesFree
<1>3. i \in used /\ holds[i] > 0 /\ i \notin own
  BY <1>2, HeldUsed
<1>. HIDE DEF c
<1>4. /\ table' \in [Chunk -> Page \cup {NoPage}]
      /\ table'[c] # NoPage
      /\ \A j \in own : table'[ChunkOf(j)] # NoPage
      /\ \A d \in Chunk : table[d] # NoPage => table'[d] = table[d]
      /\ \A d \in Chunk : table'[d] = table[d] \/ table'[d] \in own
      /\ \A d, e \in Chunk : table'[d] = table'[e] /\ table'[d] # NoPage => d = e
  <2>1. /\ WithTables(c, own) \in [Chunk -> Page \cup {NoPage}]
        /\ WithTables(c, own)[c] # NoPage
        /\ \A j \in own : WithTables(c, own)[ChunkOf(j)] # NoPage
        /\ \A d \in Chunk : table[d] # NoPage => WithTables(c, own)[d] = table[d]
        /\ \A d \in Chunk : \/ WithTables(c, own)[d] = table[d]
                            \/ WithTables(c, own)[d] \in own
        /\ \A d, e \in Chunk :
              WithTables(c, own)[d] = WithTables(c, own)[e]
              /\ WithTables(c, own)[d] # NoPage => d = e
    BY <1>1, TablesAdded DEF CountersSound, c
  <2>. QED
    BY <2>1, Zenon DEF c
<1>5. info' = [j \in Page |-> IF j = i THEN new
                              ELSE IF j \in own THEN [Known(j) EXCEPT !.unpageable = TRUE]
                              ELSE info[j]]
  BY <1>3 DEF Marked
<1>6. \A j \in own : info'[j] \in Info /\ info'[j].present /\ info'[j].ref = 1
                     /\ info'[j].unpageable
  <2>. SUFFICES ASSUME NEW j \in own
                PROVE  info'[j] \in Info /\ info'[j].present /\ info'[j].ref = 1
                       /\ info'[j].unpageable
    OBVIOUS
  <2>1. Known(j) = FirstInfo
    BY <1>2, InfoOf
  <2>2. info'[j] = [FirstInfo EXCEPT !.unpageable = TRUE]
    BY <1>2, <1>3, <1>5, <2>1
  <2>3. FirstInfo.present /\ FirstInfo.ref = 1
    BY DEF FirstInfo
  <2>4. /\ [FirstInfo EXCEPT !.unpageable = TRUE] \in Info
        /\ [FirstInfo EXCEPT !.unpageable = TRUE].ref = FirstInfo.ref
        /\ [FirstInfo EXCEPT !.unpageable = TRUE].present = FirstInfo.present
        /\ [FirstInfo EXCEPT !.unpageable = TRUE].unpageable
    BY FirstInfos, InfoUpdates, Zenon
  <2>. QED
    BY <2>2, <2>3, <2>4, Zenon
<1>7. \A j \in Page : j \notin own /\ j # i => info'[j] = info[j] /\ holds'[j] = holds[j]
  BY <1>5
<1>8. info'[i] = new /\ holds'[i] = holds[i] + n
  BY <1>5
<1>9. \A j \in own : holds'[j] = 1
  BY <1>2, <1>3
<1>10. MaxRef \in Nat /\ MaxRef > 0
  BY PhysMemAssumption
<1>11. \A j \in Page : info'[j] \in Info /\ holds'[j] \in 0 .. MaxRef
  <2>. SUFFICES ASSUME NEW j \in Page
                PROVE  info'[j] \in Info /\ holds'[j] \in 0 .. MaxRef
    OBVIOUS
  <2>1. CASE j = i
    BY <1>8, <1>10, <2>1, InfoOf DEF Info
  <2>2. CASE j \in own
    BY <1>6, <1>9, <1>10, <2>2
  <2>3. CASE j # i /\ j \notin own
    BY <1>7, <2>3, InfoOf
  <2>. QED
    BY <2>1, <2>2, <2>3
<1>12. PhysTypeOK'
  <2>1. info' \in [Page -> Info]
    BY <1>5, <1>11
  <2>2. holds' \in [Page -> 0 .. MaxRef]
    BY <1>11
  <2>. QED
    BY <1>2, <1>4, <2>1, <2>2 DEF PhysTypeOK, CountersSound, Info
<1>13. CountsExact'
  <2>. SUFFICES ASSUME NEW j \in Page
                PROVE  /\ Count(j)' = holds'[j]
                       /\ j \in used' => (IsLastRef(j)' <=> holds'[j] = 1)
    BY <1>2 DEF CountsExact, CountersSound, PhysTypeOK
  <2>1. CASE j = i
    BY <1>3, <1>8, <2>1, InfoOf DEF Count, IsLastRef
  <2>2. CASE j \in own
    BY <1>6, <1>9, <2>2 DEF Count, IsLastRef
  <2>3. CASE j # i /\ j \notin own
    BY <1>7, <2>3 DEF CountersSound, CountsExact, Count, IsLastRef
  <2>. QED
    BY <2>1, <2>2, <2>3
<1>14. NoStaleInfo'
  <2>. SUFFICES ASSUME NEW j \in Page, info'[j] # NoInfo
                PROVE  j \in used' /\ table'[ChunkOf(j)] # NoPage
    BY DEF NoStaleInfo
  <2>1. CASE j = i
    BY <1>3, <1>4, <2>1 DEF c
  <2>2. CASE j \in own
    BY <1>4, <2>2
  <2>3. CASE j # i /\ j \notin own
    <3>1. j \in used /\ table[ChunkOf(j)] # NoPage
      BY <1>7, <2>3 DEF CountersSound, NoStaleInfo
    <3>2. ChunkOf(j) \in Chunk
      BY ChunkOfPage
    <3>. QED
      BY <1>4, <3>1, <3>2
  <2>. QED
    BY <2>1, <2>2, <2>3
<1>15. TablesSafe'
  <2>. SUFFICES ASSUME NEW d \in Chunk, table'[d] # NoPage
                PROVE  /\ table'[d] \in used' /\ info'[table'[d]].unpageable
                       /\ \A e \in Chunk \ {d} : table'[e] # table'[d]
    BY DEF TablesSafe
  <2>1. \A e \in Chunk \ {d} : table'[e] # table'[d]
    BY <1>4
  <2>2. CASE table'[d] \in own
    BY <1>6, <2>1, <2>2
  <2>3. CASE table'[d] = table[d]
    <3>1. table[d] \in used /\ info[table[d]].unpageable
      BY <2>3 DEF CountersSound, TablesSafe
    <3>2. table[d] # i /\ table[d] \in Page /\ table[d] \notin own
      BY <1>2, <3>1, HeldUsed DEF CountersSound, PhysTypeOK
    <3>. QED
      BY <1>7, <2>1, <2>3, <3>1, <3>2
  <2>. QED
    BY <1>4, <2>2, <2>3
<1>. QED
  BY <1>12, <1>13, <1>14, <1>15 DEF CountersSound

\* The information physMemAddRefPage and physMemMarkUnpageable write.
LEMMA NewInfo ==
    ASSUME CountersSound, NEW i \in Page, Held(i)
    PROVE  /\ ~Limit(i) =>
                LET new == [Known(i) EXCEPT !.ref = @ + 1]
                IN  new \in Info /\ new.present /\ new.ref = holds[i] + 1
                    /\ new.unpageable = Known(i).unpageable
           /\ LET new == [Known(i) EXCEPT !.unpageable = TRUE]
              IN  new \in Info /\ new.present /\ new.ref = holds[i] /\ new.unpageable
<1>1. Known(i) \in Info /\ Known(i).present /\ Known(i).ref = holds[i] /\ MaxRef \in Nat
  BY InfoOf, HeldUsed, PhysMemAssumption
<1>2. ~Limit(i) => Known(i).ref + 1 <= MaxRef
  BY <1>1 DEF Limit, Info
<1>. QED
  BY <1>1, <1>2, InfoUpdates, Zenon

LEMMA AddRefCounters ==
    ASSUME CountersSound, NEW i \in Page, AddRefPage(i)
    PROVE  CountersSound'
<1>1. Held(i)
  BY DEF AddRefPage
<1>2. CASE Fail
  BY <1>2 DEF Fail, CountersSound, PhysTypeOK, CountsExact, NoStaleInfo, TablesSafe, Count, IsLastRef
<1>3. ASSUME NEW own \in Tables(ChunkOf(i)), ~Limit(i),
             used' = used \cup own, table' = WithTables(ChunkOf(i), own),
             info' = [Marked(own) EXCEPT ![i] = [Known(i) EXCEPT !.ref = @ + 1]],
             holds' = [j \in Page |-> IF j = i THEN holds[j] + 1
                                      ELSE IF j \in own THEN 1 ELSE holds[j]],
             halted' = halted
      PROVE  CountersSound'
  <2>. DEFINE new == [Known(i) EXCEPT !.ref = @ + 1]
  <2>1. new \in Info /\ new.present /\ new.ref = holds[i] + 1
        /\ new.unpageable = Known(i).unpageable
    BY <1>1, <1>3, NewInfo
  <2>2. info' = [Marked(own) EXCEPT ![i] = new]
    BY <1>3
  <2>. HIDE DEF new
  <2>. QED
    BY <1>1, <1>3, <2>1, <2>2, Adding
<1>. QED
  BY <1>2, <1>3, Zenon DEF AddRefPage

LEMMA MarkCounters ==
    ASSUME CountersSound, NEW i \in Page, MarkUnpageable(i)
    PROVE  CountersSound'
<1>1. Held(i)
  BY DEF MarkUnpageable
<1>2. CASE Fail
  BY <1>2 DEF Fail, CountersSound, PhysTypeOK, CountsExact, NoStaleInfo, TablesSafe, Count, IsLastRef
<1>3. ASSUME NEW own \in Tables(ChunkOf(i)),
             used' = used \cup own, table' = WithTables(ChunkOf(i), own),
             info' = [Marked(own) EXCEPT ![i] = [Known(i) EXCEPT !.unpageable = TRUE]],
             holds' = [j \in Page |-> IF j \in own THEN 1 ELSE holds[j]],
             halted' = halted
      PROVE  CountersSound'
  <2>. DEFINE new == [Known(i) EXCEPT !.unpageable = TRUE]
  <2>1. new \in Info /\ new.present /\ new.ref = holds[i] + 0 /\ new.unpageable
    <3>1. new \in Info /\ new.present /\ new.ref = holds[i] /\ new.unpageable
      BY <1>1, NewInfo, Zenon
    <3>2. holds[i] + 0 = holds[i]
      BY InfoOf
    <3>. QED
      BY <3>1, <3>2, Zenon
  <2>2. info' = [Marked(own) EXCEPT ![i] = new]
    BY <1>3
  <2>3. holds' = [j \in Page |-> IF j = i THEN holds[j] + 0
                                 ELSE IF j \in own THEN 1 ELSE holds[j]]
    BY <1>1, <1>3, HeldUsed, TablesFree, InfoOf
  <2>. HIDE DEF new
  <2>. QED
    BY <1>1, <1>3, <2>1, <2>2, <2>3, Adding
<1>. QED
  BY <1>2, <1>3, Zenon DEF MarkUnpageable

LEMMA AllocCounters ==
    ASSUME CountersSound, AllocPage
    PROVE  CountersSound'
<1>1. CASE Fail
  BY <1>1 DEF Fail, CountersSound, PhysTypeOK, CountsExact, NoStaleInfo, TablesSafe, Count, IsLastRef
<1>2. ASSUME NEW i \in Lowest(used), used' = used \cup {i}, holds' = [holds EXCEPT ![i] = 1],
             table' = table, info' = info, halted' = halted
      PROVE  CountersSound'
  <2>1. i \in Page /\ i \notin used
    BY <1>2 DEF Lowest
  <2>2. info[i] = NoInfo
    BY <2>1, InfoOf
  <2>3. PhysTypeOK'
    BY <1>2, <2>1, PhysMemAssumption DEF CountersSound, PhysTypeOK
  <2>4. CountsExact'
    BY <1>2, <2>1, <2>2 DEF CountersSound, PhysTypeOK, CountsExact, Count, IsLastRef, NoInfo
  <2>5. NoStaleInfo' /\ TablesSafe'
    BY <1>2 DEF CountersSound, NoStaleInfo, TablesSafe
  <2>. QED
    BY <2>3, <2>4, <2>5 DEF CountersSound
<1>. QED
  BY <1>1, <1>2, Zenon DEF AllocPage

LEMMA ReleaseCounters ==
    ASSUME CountersSound, NEW i \in Page, ReleasePage(i)
    PROVE  CountersSound'
<1>1. i \in used /\ holds[i] > 0 /\ \A c \in Chunk : table[c] # i
  BY HeldUsed DEF ReleasePage
<1>2. /\ info' = [info EXCEPT ![i] = Released(i)]
      /\ used' = IF StaysUsed(i) THEN used ELSE used \ {i}
      /\ holds' = [holds EXCEPT ![i] = @ - 1]
      /\ table' = table /\ halted' = halted
  BY DEF ReleasePage
<1>3. /\ info[i] \in Info /\ holds[i] \in 0 .. MaxRef /\ MaxRef \in Nat
      /\ info[i].present => info[i].ref = holds[i]
      /\ ~info[i].present => holds[i] = 1
  BY <1>1, InfoOf, PhysMemAssumption
<1>4. \/ /\ StaysUsed(i) /\ holds[i] > 1 /\ Released(i) \in Info
         /\ Released(i).present /\ Released(i).ref = holds[i] - 1
      \/ ~StaysUsed(i) /\ holds[i] = 1 /\ Released(i) = NoInfo /\ NoInfo \in Info
  BY <1>1, <1>3 DEF StaysUsed, Released, Info, NoInfo
<1>5. info \in [Page -> Info] /\ holds \in [Page -> 0 .. MaxRef]
  BY DEF CountersSound, PhysTypeOK, Info
<1>6. /\ info'[i] = Released(i) /\ holds'[i] = holds[i] - 1
      /\ \A j \in Page \ {i} : info'[j] = info[j] /\ holds'[j] = holds[j]
                               /\ (j \in used' <=> j \in used)
      /\ i \in used' <=> StaysUsed(i)
  BY <1>1, <1>2, <1>5
<1>7. PhysTypeOK'
  <2>1. info' \in [Page -> Info]
    BY <1>2, <1>4, <1>5
  <2>2. holds' \in [Page -> 0 .. MaxRef]
    BY <1>1, <1>2, <1>3, <1>5
  <2>. QED
    BY <1>2, <2>1, <2>2 DEF CountersSound, PhysTypeOK, Info
<1>8. CountsExact'
  <2>. SUFFICES ASSUME NEW j \in Page
                PROVE  /\ Count(j)' = holds'[j]
                       /\ j \in used' => (IsLastRef(j)' <=> holds'[j] = 1)
    BY <1>7 DEF CountsExact, PhysTypeOK
  <2>1. CASE j = i
    BY <1>1, <1>3, <1>4, <1>6, <2>1 DEF Count, IsLastRef
  <2>2. CASE j # i
    BY <1>6, <2>2 DEF CountersSound, CountsExact, Count, IsLastRef
  <2>. QED
    BY <2>1, <2>2
<1>9. NoStaleInfo'
  <2>. SUFFICES ASSUME NEW j \in Page, info'[j] # NoInfo
                PROVE  j \in used' /\ table[ChunkOf(j)] # NoPage
    BY <1>2 DEF NoStaleInfo
  <2>1. CASE j = i
    <3>1. StaysUsed(i)
      BY <1>4, <1>6, <2>1
    <3>2. info[i] # NoInfo
      BY <3>1 DEF StaysUsed, NoInfo
    <3>. QED
      BY <1>6, <2>1, <3>1, <3>2 DEF CountersSound, NoStaleInfo
  <2>2. CASE j # i
    BY <1>6, <2>2 DEF CountersSound, NoStaleInfo
  <2>. QED
    BY <2>1, <2>2
<1>10. TablesSafe'
  <2>. SUFFICES ASSUME NEW d \in Chunk, table[d] # NoPage
                PROVE  /\ table[d] \in used' /\ info'[table[d]].unpageable
                       /\ \A e \in Chunk \ {d} : table[e] # table[d]
    BY <1>2 DEF TablesSafe
  <2>1. /\ table[d] \in used /\ info[table[d]].unpageable
        /\ \A e \in Chunk \ {d} : table[e] # table[d]
    BY DEF CountersSound, TablesSafe
  <2>2. table[d] \in Page \ {i}
    BY <1>1, <2>1 DEF CountersSound, PhysTypeOK
  <2>. QED
    BY <1>6, <2>1, <2>2
<1>. QED
  BY <1>7, <1>8, <1>9, <1>10 DEF CountersSound

LEMMA InitCounters == PhysInit => CountersSound
<1>. SUFFICES ASSUME PhysInit PROVE CountersSound
  OBVIOUS
<1>1. PhysTypeOK
  <2>1. info \in [Page -> Info]
    BY FirstInfos DEF PhysInit
  <2>2. table \in [Chunk -> Page \cup {NoPage}]
    BY DEF PhysInit
  <2>3. holds \in [Page -> 0 .. MaxRef]
    BY PhysMemAssumption DEF PhysInit
  <2>. QED
    BY <2>1, <2>2, <2>3, PhysMemAssumption, Zenon DEF PhysInit, PhysTypeOK, Info
<1>2. CountsExact
  BY PhysMemAssumption DEF PhysInit, CountsExact, Count, IsLastRef, NoInfo
<1>3. NoStaleInfo /\ TablesSafe
  BY DEF PhysInit, NoStaleInfo, TablesSafe
<1>. QED
  BY <1>1, <1>2, <1>3 DEF CountersSound

LEMMA StepCounters == CountersSound /\ [PhysNext]_physVars => CountersSound'
<1>1. CountersSound /\ UNCHANGED physVars => CountersSound'
  BY DEF physVars, CountersSound, PhysTypeOK, CountsExact, NoStaleInfo, TablesSafe, Count, IsLastRef
<1>2. CountersSound /\ PhysNext => CountersSound'
  BY AllocCounters, AddRefCounters, MarkCounters, ReleaseCounters, Zenon DEF PhysNext
<1>. QED
  BY <1>1, <1>2

\* The bitmap, the counters and the pages in which the counters lie agree with
\* the references that are held, whatever pages are allocated, shared, marked
\* and released, in any order: the invariant is inductive as it stands.
THEOREM CountersCorrect == PhysSpec => []CountersSound
BY InitCounters, StepCounters, PTL DEF PhysSpec

-----------------------------------------------------------------------------
(* physmem.c implements PageCount.                                         *)

\* The count of the refinement mapping is the number of references held.
LEMMA CountIsHolds ==
    ASSUME CountersSound
    PROVE  /\ [i \in Page |-> Count(i)] = holds
           /\ \A i \in Page : holds[i] \in 0 .. MaxRef /\ (holds[i] > 0 => i \in used)
           /\ \A i \in Page : i \notin used => holds[i] = 0
<1>1. holds \in [Page -> 0 .. MaxRef]
  BY DEF CountersSound, PhysTypeOK
<1>2. \A i \in Page : Count(i) = holds[i]
  BY DEF CountersSound, CountsExact
<1>. QED
  BY <1>1, <1>2 DEF Count

LEMMA InitCount == PhysInit => Abstract!Init
<1>. SUFFICES ASSUME PhysInit PROVE Abstract!Init
  OBVIOUS
<1>1. CountersSound
  BY InitCounters
<1>2. holds \in [Page -> {0, 1}] /\ halted = FALSE
  BY DEF PhysInit
<1>. QED
  BY <1>1, <1>2, CountIsHolds DEF Abstract!Init

LEMMA StepCount ==
    ASSUME CountersSound, PhysNext
    PROVE  Abstract!Next
<1>. DEFINE cnt == [i \in Page |-> Count(i)]
<1>1. cnt = holds /\ cnt' = holds'
  <2>1. CountersSound'
    BY StepCounters
  <2>2. [i \in Page |-> Count(i)]' = holds'
    <3>1. holds' \in [Page -> 0 .. MaxRef]
      BY <2>1 DEF CountersSound, PhysTypeOK
    <3>2. \A i \in Page : Count(i)' = holds'[i]
      BY <2>1 DEF CountersSound, CountsExact
    <3>. QED
      BY <3>1, <3>2
  <2>. QED
    BY <2>2, CountIsHolds
<1>. HIDE DEF cnt
<1>2. ASSUME ~halted, Fail PROVE Abstract!Fail
  BY <1>1, <1>2 DEF Fail, Abstract!Fail, cnt
<1>3. CASE AllocPage
  <2>1. ASSUME NEW i \in Lowest(used), holds' = [holds EXCEPT ![i] = 1], halted' = halted,
               ~halted
        PROVE  \E j \in Page : Abstract!Alloc(j)
    <3>1. i \in Page /\ holds[i] = 0
      BY <2>1, CountIsHolds DEF Lowest
    <3>. QED
      BY <1>1, <2>1, <3>1 DEF Abstract!Alloc, cnt
  <2>. QED
    BY <1>2, <1>3, <2>1, Zenon DEF AllocPage, Abstract!Next
<1>4. ASSUME NEW i \in Page, NEW n \in {0, 1}, NEW own \in Tables(ChunkOf(i)),
             ~halted, Held(i), holds[i] + n <= MaxRef, halted' = halted,
             holds' = [j \in Page |-> IF j = i THEN holds[j] + n
                                      ELSE IF j \in own THEN 1 ELSE holds[j]]
      PROVE  Abstract!Next
  <2>1. own \in SUBSET Abstract!FreePage
    <3>1. \A j \in own : j \in Page /\ j \notin used
      BY <1>4, TablesFree
    <3>2. \A j \in own : j \in Page /\ cnt[j] = 0
      BY <1>1, <3>1, CountIsHolds
    <3>. QED
      BY <3>2 DEF Abstract!FreePage, cnt
  <2>2. Abstract!Refer(i, n, own)
    BY <1>1, <1>4 DEF Abstract!Refer, Held, cnt
  <2>. QED
    BY <1>4, <2>1, <2>2 DEF Abstract!Next
<1>5. ASSUME NEW i \in Page, AddRefPage(i) PROVE Abstract!Next
  <2>1. ~Limit(i) => holds[i] + 1 <= MaxRef
    BY <1>5, HeldUsed, InfoOf, PhysMemAssumption DEF Limit, AddRefPage
  <2>. QED
    BY <1>2, <1>4, <1>5, <2>1 DEF AddRefPage, Abstract!Next
<1>6. ASSUME NEW i \in Page, MarkUnpageable(i) PROVE Abstract!Next
  <2>1. ASSUME NEW own \in Tables(ChunkOf(i)),
               holds' = [j \in Page |-> IF j \in own THEN 1 ELSE holds[j]]
        PROVE  holds' = [j \in Page |-> IF j = i THEN holds[j] + 0
                                        ELSE IF j \in own THEN 1 ELSE holds[j]]
    BY <1>6, <2>1, HeldUsed, TablesFree, InfoOf DEF MarkUnpageable
  <2>2. holds[i] + 0 <= MaxRef
    BY CountIsHolds, PhysMemAssumption
  <2>. QED
    BY <1>2, <1>4, <1>6, <2>1, <2>2 DEF MarkUnpageable, Abstract!Next
<1>7. ASSUME NEW i \in Page, ReleasePage(i) PROVE Abstract!Next
  <2>1. Abstract!Release(i)
    BY <1>1, <1>7 DEF ReleasePage, Held, Abstract!Release, cnt
  <2>. QED
    BY <2>1 DEF Abstract!Next
<1>. QED
  BY <1>3, <1>5, <1>6, <1>7 DEF PhysNext

\* physmem.c implements a count of references for every page: what is in the
\* bitmap and in the tables changes only as an allocation, a reference, a
\* release or the failure of the system changes the count, and taking pages for
\* the tables themselves disturbs no other page.
THEOREM CountRefines == PhysSpec => ImplementsPageCount
<1>1. CountersSound /\ UNCHANGED physVars => UNCHANGED <<[i \in Page |-> Count(i)], halted>>
  BY DEF physVars, Count
<1>2. CountersSound /\ [PhysNext]_physVars
      => [Abstract!Next]_<<[i \in Page |-> Count(i)], halted>>
  BY <1>1, StepCount
<1>3. PhysInit => Abstract!Init
  BY InitCount
<1>. QED
  BY <1>2, <1>3, CountersCorrect, PTL DEF PhysSpec, ImplementsPageCount, Abstract!Spec

-----------------------------------------------------------------------------
(* The content of a file.                                                  *)

\* No position plus length reaches 2^32: neither where programs seek, nor at the
\* end of a file that was written or comes from the archive.
NoWrap ==
    /\ MaxPos + MaxLen < Mod /\ MaxSize + MaxLen < Mod
    /\ \A s \in Static : Len(s) + MaxLen < Mod

\* Positions and the size leave room for a read or a write.
InReach ==
    /\ size \in Nat /\ size + MaxLen < Mod
    /\ pos \in [Opened -> Nat] /\ \A h \in Opened : pos[h] + MaxLen < Mod

\* Every byte of the buffer was written: no fresh heap memory shows.
AllWritten == buffer \in Seq(Byte)

\* The inductive invariant: with BufferHolds alone a read could return fresh
\* heap memory, and a write whose end wraps would leave the buffer.
FileInv ==
    /\ BufferHolds /\ AllWritten /\ InReach /\ NoOverrun
    /\ isHeap \in BOOLEAN /\ overrun \in BOOLEAN /\ answer \in Seq(Byte)

-----------------------------------------------------------------------------
(* Buffers.                                                                *)

\* A number below the modulus.
LEMMA SmallMod ==
    ASSUME NEW m \in Nat, NEW n \in Nat, n < m
    PROVE  n % m = n
OBVIOUS

\* A function on 1 .. n is a sequence of length n.
LEMMA FunctionSeq ==
    ASSUME NEW S, NEW n \in Nat, NEW f \in [1 .. n -> S]
    PROVE  f \in Seq(S) /\ Len(f) = n
<1>1. f \in Seq(S)
  OBVIOUS
<1>2. Len(f) \in Nat /\ DOMAIN f = 1 .. Len(f) /\ DOMAIN f = 1 .. n
  BY <1>1, LenProperties
<1>. QED
  BY <1>1, <1>2

\* What is in the file: the first size bytes of the buffer.
LEMMA PrefixSeq ==
    ASSUME NEW S, NEW s \in Seq(S), NEW n \in 0 .. Len(s)
    PROVE  /\ SubSeq(s, 1, n) \in Seq(S) /\ Len(SubSeq(s, 1, n)) = n
           /\ \A i \in 1 .. n : SubSeq(s, 1, n)[i] = s[i] /\ s[i] \in S
<1>1. Len(s) \in Nat /\ \A i \in 1 .. n : s[i] \in S
  BY LenProperties, ElementOfSeq
<1>2. /\ SubSeq(s, 1, n) \in Seq(S)
      /\ Len(SubSeq(s, 1, n)) = IF 1 <= n THEN n - 1 + 1 ELSE 0
      /\ \A i \in 1 .. n - 1 + 1 : SubSeq(s, 1, n)[i] = s[1 + i - 1]
  BY <1>1, SubSeqProperties
<1>. QED
  BY <1>1, <1>2

\* heapReAlloc keeps what fits.
LEMMA ReAllocSeq ==
    ASSUME NEW s \in Seq(Byte), NEW n \in Nat
    PROVE  /\ ReAlloc(s, n) \in Seq(Byte \cup {Junk}) /\ Len(ReAlloc(s, n)) = n
           /\ \A i \in 1 .. n : i <= Len(s) => ReAlloc(s, n)[i] = s[i]
           /\ n <= Len(s) => ReAlloc(s, n) \in Seq(Byte)
<1>1. Len(s) \in Nat /\ \A i \in 1 .. Len(s) : s[i] \in Byte
  BY LenProperties, ElementOfSeq
<1>2. ReAlloc(s, n) \in [1 .. n -> Byte \cup {Junk}]
  BY <1>1 DEF ReAlloc
<1>3. n <= Len(s) => ReAlloc(s, n) \in [1 .. n -> Byte]
  BY <1>1 DEF ReAlloc
<1>4. \A i \in 1 .. n : i <= Len(s) => ReAlloc(s, n)[i] = s[i]
  BY DEF ReAlloc
<1>. QED
  BY <1>2, <1>3, <1>4, FunctionSeq

\* Bytes that are written: at least one, as the code returns otherwise.
LEMMA StringSeq ==
    ASSUME NEW bytes \in Strings
    PROVE  bytes \in Seq(Byte) /\ Len(bytes) \in 0 .. MaxLen
<1>1. PICK n \in 0 .. MaxLen : bytes \in [1 .. n -> Byte]
  BY DEF Strings
<1>2. n \in Nat
  BY FileContentAssumption
<1>. QED
  BY <1>1, <1>2, FunctionSeq

\* The parts of the invariant in the form the actions use.
LEMMA InvFacts ==
    ASSUME FileInv
    PROVE  /\ Mod \in Nat /\ MaxLen \in Nat /\ MaxPos \in Nat /\ MaxSize \in Nat /\ Zero \in Byte
           /\ buffer \in Seq(Byte) /\ Len(buffer) \in Nat
           /\ \A i \in 1 .. Len(buffer) : buffer[i] \in Byte
           /\ size \in Nat /\ size + MaxLen < Mod /\ size <= Len(buffer)
           /\ isHeap => Len(buffer) = size
           /\ pos \in [Opened -> Nat]
           /\ \A h \in Opened : pos[h] \in Nat /\ pos[h] + MaxLen < Mod
<1>1. buffer \in Seq(Byte) /\ Len(buffer) \in Nat /\ \A i \in 1 .. Len(buffer) : buffer[i] \in Byte
  BY LenProperties, ElementOfSeq DEF FileInv, AllWritten
<1>2. pos \in [Opened -> Nat] /\ \A h \in Opened : pos[h] \in Nat /\ pos[h] + MaxLen < Mod
  BY DEF FileInv, InReach
<1>3. /\ size \in Nat /\ size + MaxLen < Mod /\ size <= Len(buffer)
      /\ isHeap => Len(buffer) = size
  BY DEF FileInv, BufferHolds, InReach
<1>4. Mod \in Nat /\ MaxLen \in Nat /\ MaxPos \in Nat /\ MaxSize \in Nat /\ Zero \in Byte
  BY FileContentAssumption
<1>. QED
  BY <1>1, <1>2, <1>3, <1>4

LEMMA InvContent ==
    ASSUME FileInv
    PROVE  ContentSound
<1>1. buffer \in Seq(Byte \cup {Junk})
  <2>1. buffer \in [1 .. Len(buffer) -> Byte \cup {Junk}] /\ Len(buffer) \in Nat
    BY InvFacts, LenProperties
  <2>. QED
    BY <2>1, FunctionSeq
<1>2. \A h \in Opened : pos[h] \in 0 .. Mod - 1
  <2>. TAKE h \in Opened
  <2>1. pos[h] \in Nat /\ pos[h] + MaxLen < Mod /\ MaxLen \in Nat /\ Mod \in Nat
    BY InvFacts
  <2>. QED
    BY <2>1
<1>3. pos \in [Opened -> 0 .. Mod - 1]
  BY <1>2, InvFacts
<1>4. size \in 0 .. Mod - 1
  BY InvFacts
<1>5. TypeOK
  BY <1>1, <1>3, <1>4 DEF TypeOK, FileInv
<1>. QED
  BY <1>5 DEF FileInv, ContentSound

\* The buffer that a write at position p of a file of n bytes grows to: the
\* file, zeros up to p, and room that is written next.
LEMMA GrownSeq ==
    ASSUME FileInv, NEW h \in Opened, NEW n \in 1 .. MaxLen, Grows(h, n)
    PROVE  /\ DOMAIN Grown(h, n) = 1 .. pos[h] + n /\ Len(Grown(h, n)) = pos[h] + n
           /\ \A i \in 1 .. pos[h] : Grown(h, n)[i] = IF i <= size THEN buffer[i] ELSE Zero
<1>. DEFINE old == IF isHeap THEN buffer ELSE SubSeq(buffer, 1, size)
            end == pos[h] + n
            fresh == ReAlloc(old, end)
<1>1. /\ size \in Nat /\ pos[h] \in Nat /\ end \in Nat /\ end < Mod
      /\ buffer \in Seq(Byte) /\ size \in 0 .. Len(buffer) /\ Mod \in Nat
      /\ isHeap => Len(buffer) = size
  BY InvFacts
<1>2. end % Mod = end
  BY <1>1, SmallMod
<1>3. end > size
  BY <1>2 DEF Grows
<1>4. old \in Seq(Byte) /\ Len(old) = size /\ \A i \in 1 .. size : old[i] = buffer[i]
  BY <1>1, PrefixSeq
<1>. HIDE DEF old
<1>5. /\ fresh \in Seq(Byte \cup {Junk}) /\ Len(fresh) = end
      /\ \A i \in 1 .. end : i <= Len(old) => fresh[i] = old[i]
  BY <1>1, <1>4, ReAllocSeq
<1>6. DOMAIN fresh = 1 .. end
  BY <1>5, LenProperties
<1>7. Grown(h, n) = IF pos[h] > size THEN Cleared(fresh, size, pos[h]) ELSE fresh
  BY <1>2 DEF Grown, old
<1>. HIDE DEF fresh
<1>8. CASE pos[h] > size
  <2>1. Grown(h, n) = [i \in 1 .. end |-> IF i > size /\ i <= pos[h] THEN Zero ELSE fresh[i]]
    BY <1>6, <1>7, <1>8 DEF Cleared
  <2>2. \A i \in 1 .. end : fresh[i] \in Byte \cup {Junk}
    BY <1>5, ElementOfSeq
  <2>3. Grown(h, n) \in [1 .. end -> Byte \cup {Junk}]
    BY <2>1, <2>2, FileContentAssumption
  <2>4. Len(Grown(h, n)) = end
    BY <1>1, <2>3, FunctionSeq
  <2>. QED
    BY <1>1, <1>4, <1>5, <2>1, <2>4
<1>9. CASE ~(pos[h] > size)
  BY <1>1, <1>4, <1>5, <1>6, <1>7, <1>9
<1>. QED
  BY <1>8, <1>9

\* Copying bytes over a part of a buffer.
LEMMA OverwriteSeq ==
    ASSUME NEW buf, NEW at \in Nat, NEW len \in Nat, NEW bytes \in Seq(Byte),
           DOMAIN buf = 1 .. len, at + Len(bytes) <= len,
           \A i \in 1 .. len : (i <= at \/ i > at + Len(bytes)) => buf[i] \in Byte
    PROVE  /\ Overwrite(buf, at, bytes) \in Seq(Byte) /\ Len(Overwrite(buf, at, bytes)) = len
           /\ \A i \in 1 .. len : Overwrite(buf, at, bytes)[i]
                 = IF i > at /\ i <= at + Len(bytes) THEN bytes[i - at] ELSE buf[i]
<1>1. Len(bytes) \in Nat /\ \A i \in 1 .. Len(bytes) : bytes[i] \in Byte
  BY LenProperties, ElementOfSeq
<1>2. Overwrite(buf, at, bytes) = [i \in 1 .. len |->
         IF i > at /\ i <= at + Len(bytes) THEN bytes[i - at] ELSE buf[i]]
  BY DEF Overwrite
<1>3. \A i \in 1 .. len :
         (IF i > at /\ i <= at + Len(bytes) THEN bytes[i - at] ELSE buf[i]) \in Byte
  BY <1>1
<1>4. Overwrite(buf, at, bytes) \in [1 .. len -> Byte]
  BY <1>2, <1>3
<1>. QED
  BY <1>2, <1>4, FunctionSeq

-----------------------------------------------------------------------------
(* The invariant.                                                          *)

\* A write: the buffer after it, the size and the position.
LEMMA WriteEffect ==
    ASSUME FileInv, NEW h \in Opened, NEW bytes \in Strings, Write(h, bytes)
    PROVE  LET n == Len(bytes)
               end == pos[h] + n
           IN  /\ n \in 1 .. MaxLen /\ end \in Nat /\ end <= MaxSize
               /\ buffer' \in Seq(Byte) /\ size' \in Nat
               /\ size' = IF end > size THEN end ELSE size
               /\ Len(buffer') = IF end > size THEN end ELSE Len(buffer)
               /\ isHeap' = (isHeap \/ end > size)
               /\ pos' = [pos EXCEPT ![h] = end]
               /\ overrun' = overrun /\ answer' = answer
               /\ \A i \in 1 .. Len(buffer') : buffer'[i] =
                     IF i > pos[h] /\ i <= end THEN bytes[i - pos[h]]
                     ELSE IF i <= size \/ end <= size THEN buffer[i] ELSE Zero
<1>. DEFINE n == Len(bytes)
            end == pos[h] + n
            buf == IF Grows(h, n) THEN Grown(h, n) ELSE buffer
            len == IF end > size THEN end ELSE Len(buffer)
<1>1. bytes \in Seq(Byte) /\ n \in 0 .. MaxLen
  BY StringSeq
<1>0. n > 0
  BY DEF Write
<1>2. (pos[h] + n) % Mod <= MaxSize
  BY DEF Write
<1>3. /\ size \in Nat /\ pos[h] \in Nat /\ MaxLen \in Nat /\ Mod \in Nat
      /\ buffer \in Seq(Byte) /\ Len(buffer) \in Nat /\ size \in 0 .. Len(buffer)
      /\ pos[h] + MaxLen < Mod /\ Zero \in Byte
      /\ \A i \in 1 .. Len(buffer) : buffer[i] \in Byte
  BY InvFacts
<1>4. n \in 1 .. MaxLen /\ end \in Nat /\ end < Mod /\ len \in Nat
  <2>. HIDE DEF n
  <2>1. n \in 1 .. MaxLen /\ end \in Nat /\ end < Mod
    BY <1>0, <1>1, <1>3
  <2>. QED
    BY <1>3, <2>1
<1>5. (pos[h] + n) % Mod = end
  <2>. HIDE DEF n
  <2>. QED
    BY <1>3, <1>4, SmallMod
<1>6. Grows(h, n) <=> end > size
  BY <1>5 DEF Grows
<1>7. /\ buffer' = Overwrite(buf, pos[h], bytes)
      /\ isHeap' = (isHeap \/ Grows(h, n))
      /\ size' = IF Grows(h, n) THEN end ELSE size
      /\ pos' = [pos EXCEPT ![h] = end]
      /\ overrun' = (overrun \/ pos[h] + n > Len(buf))
      /\ answer' = answer
  BY <1>5 DEF Write
<1>8. /\ DOMAIN buf = 1 .. len /\ Len(buf) = len /\ end <= len
      /\ \A i \in 1 .. len : (i <= pos[h] \/ i > end) =>
            buf[i] = IF i <= size \/ end <= size THEN buffer[i] ELSE Zero
  <2>1. CASE end > size
    <3>1. /\ DOMAIN Grown(h, n) = 1 .. end /\ Len(Grown(h, n)) = end
          /\ \A i \in 1 .. pos[h] : Grown(h, n)[i] = IF i <= size THEN buffer[i] ELSE Zero
      BY <1>4, <1>6, <2>1, GrownSeq
    <3>2. buf = Grown(h, n) /\ len = end
      BY <1>6, <2>1
    <3>. HIDE DEF buf, len
    <3>. QED
      BY <1>3, <1>4, <2>1, <3>1, <3>2
  <2>2. CASE ~(end > size)
    <3>1. buf = buffer /\ len = Len(buffer)
      BY <1>6, <2>2
    <3>2. DOMAIN buffer = 1 .. Len(buffer)
      BY <1>3, LenProperties
    <3>. HIDE DEF buf, len
    <3>. QED
      BY <1>3, <1>4, <2>2, <3>1, <3>2
  <2>. QED
    BY <2>1, <2>2
<1>9. len >= size /\ (end <= size => len = Len(buffer)) /\ (end > size => len = end)
  BY <1>3, <1>4
<1>. HIDE DEF buf, len
<1>10. ASSUME NEW i \in 1 .. len, i <= pos[h] \/ i > end
       PROVE  buf[i] \in Byte
  <2>1. buf[i] = IF i <= size \/ end <= size THEN buffer[i] ELSE Zero
    BY <1>8, <1>10, Zenon
  <2>2. CASE i <= size \/ end <= size
    <3>1. i \in 1 .. Len(buffer)
      BY <1>3, <1>4, <1>9, <2>2
    <3>. QED
      BY <1>3, <2>1, <2>2, <3>1, ElementOfSeq
  <2>3. CASE ~(i <= size \/ end <= size)
    BY <1>3, <2>1, <2>3
  <2>. QED
    BY <2>2, <2>3
<1>11. /\ buffer' \in Seq(Byte) /\ Len(buffer') = len
       /\ \A i \in 1 .. len : buffer'[i]
             = IF i > pos[h] /\ i <= end THEN bytes[i - pos[h]] ELSE buf[i]
  <2>1. pos[h] + Len(bytes) <= len
    BY <1>8
  <2>2. \A i \in 1 .. len : (i <= pos[h] \/ i > pos[h] + Len(bytes)) => buf[i] \in Byte
    BY <1>10
  <2>3. /\ Overwrite(buf, pos[h], bytes) \in Seq(Byte)
        /\ Len(Overwrite(buf, pos[h], bytes)) = len
        /\ \A i \in 1 .. len : Overwrite(buf, pos[h], bytes)[i]
              = IF i > pos[h] /\ i <= pos[h] + Len(bytes) THEN bytes[i - pos[h]] ELSE buf[i]
    <3>1. pos[h] \in Nat /\ len \in Nat /\ DOMAIN buf = 1 .. len
      BY <1>3, <1>4, <1>8
    <3>. QED
      BY <1>1, <2>1, <2>2, <3>1, OverwriteSeq, ZenonT(40)
  <2>. QED
    BY <1>7, <2>3
<1>12. \A i \in 1 .. len : buffer'[i] =
          IF i > pos[h] /\ i <= end THEN bytes[i - pos[h]]
          ELSE IF i <= size \/ end <= size THEN buffer[i] ELSE Zero
  <2>. TAKE i \in 1 .. len
  <2>1. buffer'[i] = IF i > pos[h] /\ i <= end THEN bytes[i - pos[h]] ELSE buf[i]
    BY <1>11
  <2>2. (i <= pos[h] \/ i > end) =>
           buf[i] = IF i <= size \/ end <= size THEN buffer[i] ELSE Zero
    BY <1>8
  <2>3. i \in Nat /\ pos[h] \in Nat /\ end \in Nat
    BY <1>3, <1>4, <1>8
  <2>4. CASE i > pos[h] /\ i <= end
    BY <2>1, <2>4
  <2>5. CASE ~(i > pos[h] /\ i <= end)
    <3>1. i <= pos[h] \/ i > end
      BY <2>3, <2>5
    <3>. QED
      BY <2>1, <2>2, <2>5, <3>1, Zenon
  <2>. QED
    BY <2>4, <2>5
<1>13. overrun' = overrun
  BY <1>4, <1>7, <1>8 DEF FileInv
<1>14. size' = (IF end > size THEN end ELSE size) /\ isHeap' = (isHeap \/ end > size)
  BY <1>6, <1>7
<1>15. Len(buffer') = IF end > size THEN end ELSE Len(buffer)
  BY <1>11 DEF len
<1>16. end <= MaxSize
  BY <1>2, <1>5
<1>. QED
  BY <1>3, <1>4, <1>7, <1>11, <1>12, <1>13, <1>14, <1>15, <1>16

\* Bytes that a read of n at position p returns.
ReadLen(h, n) == IF pos[h] >= size THEN 0 ELSE Available(h, n)

\* A read: the answer, which the buffer holds, and the position.
LEMMA ReadEffect ==
    ASSUME FileInv, NEW h \in Opened, NEW n \in 0 .. MaxLen, Read(h, n)
    PROVE  LET k == ReadLen(h, n)
           IN  /\ k \in Nat /\ k <= n
               /\ k = 0 \/ pos[h] + k <= size
               /\ answer' \in Seq(Byte) /\ Len(answer') = k
               /\ \A i \in 1 .. k : answer'[i] = buffer[pos[h] + i]
               /\ pos' = [pos EXCEPT ![h] = @ + k]
               /\ UNCHANGED <<buffer, isHeap, size, overrun>>
<1>. DEFINE k == ReadLen(h, n)
<1>1. /\ size \in Nat /\ pos[h] \in Nat /\ MaxLen \in Nat
      /\ buffer \in Seq(Byte) /\ Len(buffer) \in Nat /\ size <= Len(buffer)
      /\ \A i \in 1 .. Len(buffer) : buffer[i] \in Byte
  BY InvFacts
<1>2. k \in Nat /\ k <= n /\ (k = 0 \/ pos[h] + k <= size)
  BY <1>1 DEF ReadLen, Available
<1>3. /\ answer' = [i \in 1 .. k |-> buffer[pos[h] + i]]
      /\ pos' = [pos EXCEPT ![h] = @ + k]
      /\ UNCHANGED <<buffer, isHeap, size, overrun>>
  BY DEF Read, ReadLen
<1>. HIDE DEF k
<1>4. \A i \in 1 .. k : buffer[pos[h] + i] \in Byte
  BY <1>1, <1>2
<1>5. answer' \in [1 .. k -> Byte]
  BY <1>3, <1>4
<1>6. answer' \in Seq(Byte) /\ Len(answer') = k
  BY <1>2, <1>5, FunctionSeq
<1>7. \A i \in 1 .. k : answer'[i] = buffer[pos[h] + i]
  BY <1>3
<1>. QED
  BY <1>2, <1>3, <1>6, <1>7 DEF k

LEMMA InitInv ==
    ASSUME NoWrap, Init
    PROVE  FileInv
<1>1. MaxLen \in Nat /\ Mod \in Nat /\ MaxSize \in Nat /\ MaxPos \in Nat
  BY FileContentAssumption
<1>2. \/ buffer = <<>>
      \/ buffer \in Static
  BY DEF Init
<1>3. buffer \in Seq(Byte) /\ Len(buffer) \in Nat /\ Len(buffer) + MaxLen < Mod
  <2>1. CASE buffer = <<>>
    <3>1. <<>> \in Seq(Byte) /\ Len(<<>>) = 0
      BY EmptySeq
    <3>. QED
      BY <1>1, <2>1, <3>1 DEF NoWrap
  <2>2. CASE buffer \in Static
    <3>1. buffer \in Seq(Byte)
      BY <2>2, FileContentAssumption
    <3>. QED
      BY <2>2, <3>1, LenProperties DEF NoWrap
  <2>. QED
    BY <1>2, <2>1, <2>2
<1>4. size = Len(buffer) /\ isHeap \in BOOLEAN /\ ~overrun /\ overrun \in BOOLEAN
  BY DEF Init
<1>5. answer \in Seq(Byte)
  BY EmptySeq DEF Init
<1>6. pos \in [Opened -> Nat] /\ \A h \in Opened : pos[h] + MaxLen < Mod
  BY <1>1 DEF Init, NoWrap
<1>7. BufferHolds /\ AllWritten /\ InReach
  BY <1>3, <1>4, <1>6 DEF BufferHolds, AllWritten, InReach
<1>. QED
  BY <1>4, <1>5, <1>7, Zenon DEF FileInv, NoOverrun

LEMMA WriteInv ==
    ASSUME NoWrap, FileInv, NEW h \in Opened, NEW bytes \in Strings, Write(h, bytes)
    PROVE  FileInv'
<1>. DEFINE n == Len(bytes)
            end == pos[h] + n
<1>1. /\ n \in 1 .. MaxLen /\ end \in Nat /\ end <= MaxSize
      /\ buffer' \in Seq(Byte) /\ size' \in Nat
      /\ size' = IF end > size THEN end ELSE size
      /\ Len(buffer') = IF end > size THEN end ELSE Len(buffer)
      /\ isHeap' = (isHeap \/ end > size)
      /\ pos' = [pos EXCEPT ![h] = end]
      /\ overrun' = overrun /\ answer' = answer
  BY WriteEffect
<1>. HIDE DEF n, end
<1>2. end + MaxLen < Mod
  BY <1>1, InvFacts DEF NoWrap
<1>3. InReach'
  BY <1>1, <1>2, InvFacts DEF InReach
<1>4. BufferHolds'
  <2>1. CASE end > size
    BY <1>1, <2>1 DEF BufferHolds
  <2>2. CASE ~(end > size)
    <3>1. isHeap' => isHeap
      BY <1>1, <2>2, Zenon
    <3>2. size' = size /\ Len(buffer') = Len(buffer)
      BY <1>1, <2>2
    <3>. QED
      BY <3>1, <3>2, InvFacts DEF BufferHolds
  <2>. QED
    BY <2>1, <2>2
<1>5. overrun' \in BOOLEAN /\ answer' \in Seq(Byte) /\ ~overrun' /\ isHeap' \in BOOLEAN
  BY <1>1 DEF FileInv, NoOverrun
<1>. QED
  BY <1>1, <1>3, <1>4, <1>5 DEF FileInv, AllWritten, NoOverrun

LEMMA ReadInv ==
    ASSUME FileInv, NEW h \in Opened, NEW n \in 0 .. MaxLen, Read(h, n)
    PROVE  FileInv'
<1>. DEFINE k == ReadLen(h, n)
<1>1. /\ k \in Nat /\ k <= n
      /\ k = 0 \/ pos[h] + k <= size
      /\ answer' \in Seq(Byte)
      /\ pos' = [pos EXCEPT ![h] = @ + k]
      /\ UNCHANGED <<buffer, isHeap, size, overrun>>
  BY ReadEffect
<1>. HIDE DEF k
<1>2. InReach'
  BY <1>1, InvFacts DEF InReach
<1>. QED
  BY <1>1, <1>2 DEF FileInv, AllWritten, NoOverrun, BufferHolds

\* A truncated file: the buffer still holds what is left of it.
LEMMA TruncateEffect ==
    ASSUME FileInv, NEW h \in Opened, Truncate(h)
    PROVE  /\ buffer' \in Seq(Byte) /\ size' = pos[h] /\ pos[h] < size
           /\ size' <= Len(buffer') /\ (isHeap => Len(buffer') = size')
           /\ \A i \in 1 .. size' : buffer'[i] = buffer[i]
           /\ UNCHANGED <<isHeap, pos, answer, overrun>>
<1>1. /\ pos[h] < size /\ size' = pos[h]
      /\ buffer' = IF isHeap THEN ReAlloc(buffer, pos[h]) ELSE buffer
      /\ UNCHANGED <<isHeap, pos, answer, overrun>>
  BY DEF Truncate
<1>2. /\ pos[h] \in Nat /\ size \in Nat /\ size <= Len(buffer) /\ Len(buffer) \in Nat
      /\ buffer \in Seq(Byte)
  BY InvFacts
<1>3. /\ Len(ReAlloc(buffer, pos[h])) = pos[h]
      /\ \A i \in 1 .. pos[h] : i <= Len(buffer) => ReAlloc(buffer, pos[h])[i] = buffer[i]
      /\ pos[h] <= Len(buffer) => ReAlloc(buffer, pos[h]) \in Seq(Byte)
  BY <1>2, ReAllocSeq
<1>. QED
  BY <1>1, <1>2, <1>3

LEMMA TruncateInv ==
    ASSUME FileInv, NEW h \in Opened, Truncate(h)
    PROVE  FileInv'
<1>1. /\ buffer' \in Seq(Byte) /\ size' = pos[h] /\ pos[h] < size
      /\ size' <= Len(buffer') /\ (isHeap => Len(buffer') = size')
      /\ UNCHANGED <<isHeap, pos, answer, overrun>>
  BY TruncateEffect
<1>2. InReach'
  BY <1>1, InvFacts DEF InReach
<1>. QED
  BY <1>1, <1>2 DEF FileInv, AllWritten, NoOverrun, BufferHolds

LEMMA SignalInv ==
    ASSUME NoWrap, FileInv, NEW h \in Opened, NEW n \in 0 .. MaxPos, Signal(h, n)
    PROVE  FileInv'
<1>1. pos' = [pos EXCEPT ![h] = n] /\ UNCHANGED <<buffer, isHeap, size, answer, overrun>>
  BY DEF Signal
<1>2. InReach'
  BY <1>1, InvFacts DEF InReach, NoWrap
<1>. QED
  BY <1>1, <1>2 DEF FileInv, AllWritten, NoOverrun, BufferHolds

LEMMA StepInv ==
    ASSUME NoWrap, FileInv, [Next]_vars
    PROVE  FileInv'
<1>1. CASE UNCHANGED vars
  BY <1>1 DEF vars, FileInv, AllWritten, NoOverrun, BufferHolds, InReach
<1>2. ASSUME NEW h \in Opened, Open(h) PROVE FileInv'
  <2>1. 0 \in 0 .. MaxPos
    BY FileContentAssumption
  <2>. QED
    BY <1>2, <2>1, SignalInv DEF Open
<1>3. CASE Next
  BY <1>2, <1>3, WriteInv, ReadInv, TruncateInv, SignalInv, Zenon DEF Next
<1>. QED
  BY <1>1, <1>3

\* As long as no position wraps, the buffer holds the file and no write leaves
\* it, however those who opened the file write, seek and truncate in turn.
THEOREM ContentCorrect ==
    ASSUME NoWrap
    PROVE  Spec => []ContentSound
<1>1. Init => FileInv
  BY InitInv
<1>2. FileInv /\ [Next]_vars => FileInv'
  BY StepInv
<1>3. FileInv => ContentSound
  BY InvContent
<1>. QED
  BY <1>1, <1>2, <1>3, PTL DEF Spec

-----------------------------------------------------------------------------
(* The file is a plain sequence of bytes.                                  *)

Content == SubSeq(buffer, 1, size)

LEMMA ContentFacts ==
    ASSUME FileInv
    PROVE  /\ Content \in Seq(Byte) /\ Len(Content) = size
           /\ \A i \in 1 .. size : Content[i] = buffer[i] /\ buffer[i] \in Byte
<1>1. buffer \in Seq(Byte) /\ size \in 0 .. Len(buffer)
  BY InvFacts
<1>. QED
  BY <1>1, PrefixSeq DEF Content

LEMMA ContentFactsNext ==
    ASSUME FileInv'
    PROVE  /\ Content' \in Seq(Byte) /\ Len(Content') = size'
           /\ \A i \in 1 .. size' : Content'[i] = buffer'[i]
<1>1. buffer' \in Seq(Byte) /\ size' \in Nat /\ size' <= Len(buffer')
  BY DEF FileInv, BufferHolds, AllWritten, InReach
<1>2. Len(buffer') \in Nat
  BY <1>1, LenProperties
<1>3. size' \in 0 .. Len(buffer')
  BY <1>1, <1>2
<1>4. /\ SubSeq(buffer', 1, size') \in Seq(Byte) /\ Len(SubSeq(buffer', 1, size')) = size'
      /\ \A i \in 1 .. size' : /\ SubSeq(buffer', 1, size')[i] = buffer'[i]
                              /\ buffer'[i] \in Byte
  BY <1>1, <1>3, PrefixSeq
<1>5. Content' = SubSeq(buffer', 1, size')
  BY DEF Content
<1>. QED
  BY <1>4, <1>5, Zenon

\* What the content is after a write, as the abstract file states it.
Written(at, bytes) ==
    [i \in 1 .. (at + Len(bytes)) |->
        IF i > at THEN bytes[i - at] ELSE IF i <= Len(Content) THEN Content[i] ELSE Zero]

LEMMA WriteContent ==
    ASSUME NoWrap, FileInv, NEW h \in Opened, NEW bytes \in Strings, Write(h, bytes)
    PROVE  LET new == Written(pos[h], bytes)
           IN  /\ bytes # <<>> /\ Len(new) = pos[h] + Len(bytes)
               /\ Content' = new \o SubSeq(Content, Len(new) + 1, Len(Content))
<1>. DEFINE n == Len(bytes)
            end == pos[h] + n
            new == Written(pos[h], bytes)
            rest == SubSeq(Content, end + 1, size)
<1>1. /\ n \in 1 .. MaxLen /\ end \in Nat
      /\ size' = IF end > size THEN end ELSE size
      /\ Len(buffer') = IF end > size THEN end ELSE Len(buffer)
      /\ \A i \in 1 .. Len(buffer') : buffer'[i] =
            IF i > pos[h] /\ i <= end THEN bytes[i - pos[h]]
            ELSE IF i <= size \/ end <= size THEN buffer[i] ELSE Zero
  BY WriteEffect
<1>2. /\ size \in Nat /\ pos[h] \in Nat /\ size <= Len(buffer) /\ Len(buffer) \in Nat
      /\ MaxLen \in Nat /\ Zero \in Byte
  BY InvFacts
<1>3. bytes \in Seq(Byte) /\ \A i \in 1 .. n : bytes[i] \in Byte
  BY StringSeq, ElementOfSeq
<1>4. /\ Content \in Seq(Byte) /\ Len(Content) = size
      /\ \A i \in 1 .. size : Content[i] = buffer[i] /\ Content[i] \in Byte
  BY ContentFacts
<1>5. /\ Content' \in Seq(Byte) /\ Len(Content') = size'
      /\ \A i \in 1 .. size' : Content'[i] = buffer'[i]
  BY WriteInv, ContentFactsNext
<1>6. new = [i \in 1 .. end |-> IF i > pos[h] THEN bytes[i - pos[h]]
                                ELSE IF i <= size THEN Content[i] ELSE Zero]
  BY <1>4 DEF Written
<1>7. bytes # <<>>
  BY <1>1
<1>. HIDE DEF n, end, new, Content
<1>8. \A i \in 1 .. end : (IF i > pos[h] THEN bytes[i - pos[h]]
                           ELSE IF i <= size THEN Content[i] ELSE Zero) \in Byte
  BY <1>1, <1>2, <1>3, <1>4 DEF end
<1>9. new \in Seq(Byte) /\ Len(new) = end
  <2>1. new \in [1 .. end -> Byte]
    BY <1>6, <1>8
  <2>. QED
    BY <1>1, <2>1, FunctionSeq
<1>10. /\ rest \in Seq(Byte)
       /\ Len(rest) = IF end + 1 <= size THEN size - (end + 1) + 1 ELSE 0
       /\ \A i \in 1 .. size - (end + 1) + 1 : rest[i] = Content[end + 1 + i - 1]
  <2>1. \A i \in end + 1 .. size : Content[i] \in Byte
    BY <1>1, <1>2, <1>4
  <2>. QED
    BY <1>1, <1>2, <2>1, SubSeqProperties
<1>. HIDE DEF rest
<1>11. /\ new \o rest \in Seq(Byte)
       /\ Len(new \o rest) = Len(new) + Len(rest)
       /\ \A i \in 1 .. Len(new) + Len(rest) :
             (new \o rest)[i] = IF i <= Len(new) THEN new[i] ELSE rest[i - Len(new)]
  BY <1>9, <1>10, ConcatProperties
<1>12. Len(new) + Len(rest) = size'
  <2>1. /\ Len(new) = end /\ end \in Nat /\ size \in Nat
        /\ Len(rest) = IF end + 1 <= size THEN size - (end + 1) + 1 ELSE 0
        /\ size' = IF end > size THEN end ELSE size
    BY <1>1, <1>2, <1>9, <1>10
  <2>. QED
    BY <2>1
<1>13. ASSUME NEW i \in 1 .. size' PROVE Content'[i] = (new \o rest)[i]
  <2>1. i \in 1 .. Len(buffer') /\ i \in Nat /\ i >= 1
    BY <1>1, <1>2
  <2>2. Content'[i] = IF i > pos[h] /\ i <= end THEN bytes[i - pos[h]]
                      ELSE IF i <= size \/ end <= size THEN buffer[i] ELSE Zero
    BY <1>1, <1>5, <2>1
  <2>3. (new \o rest)[i] = IF i <= end THEN new[i] ELSE rest[i - end]
    BY <1>9, <1>11, <1>12
  <2>4. CASE i <= end
    <3>1. new[i] = IF i > pos[h] THEN bytes[i - pos[h]]
                   ELSE IF i <= size THEN Content[i] ELSE Zero
      BY <1>1, <1>6, <2>1, <2>4
    <3>2. i <= size => Content[i] = buffer[i]
      BY <1>2, <1>4, <2>1
    <3>. QED
      BY <1>1, <1>2, <2>1, <2>2, <2>3, <2>4, <3>1, <3>2
  <2>5. CASE i > end
    <3>1. end < size /\ i <= size
      BY <1>1, <1>2, <2>5
    <3>2. rest[i - end] = Content[i]
      <4>1. i - end \in 1 .. size - (end + 1) + 1 /\ end + 1 + (i - end) - 1 = i
        BY <1>1, <1>2, <2>1, <2>5, <3>1
      <4>2. rest[i - end] = Content[end + 1 + (i - end) - 1]
        BY <1>10, <4>1
      <4>. QED
        BY <4>1, <4>2
    <3>3. Content[i] = buffer[i]
      BY <1>2, <1>4, <2>1, <3>1
    <3>4. Content'[i] = buffer[i]
      BY <1>1, <1>2, <2>1, <2>2, <2>5, <3>1
    <3>5. (new \o rest)[i] = rest[i - end]
      BY <1>1, <2>1, <2>3, <2>5
    <3>. QED
      BY <3>2, <3>3, <3>4, <3>5
  <2>6. i <= end \/ i > end
    <3>1. end \in Nat
      BY <1>1
    <3>. QED
      BY <2>1, <3>1
  <2>. QED
    BY <2>4, <2>5, <2>6, Zenon
<1>14. Content' = new \o rest
  BY <1>5, <1>11, <1>12, <1>13, SeqEqual
<1>. QED
  BY <1>4, <1>7, <1>9, <1>14 DEF new, rest, end, n

LEMMA ReadContent ==
    ASSUME FileInv, NEW h \in Opened, NEW n \in 0 .. MaxLen, Read(h, n)
    PROVE  answer' = SubSeq(Content, pos[h] + 1,
                            IF pos[h] + n < Len(Content) THEN pos[h] + n ELSE Len(Content))
<1>. DEFINE k == ReadLen(h, n)
            to == IF pos[h] + n < size THEN pos[h] + n ELSE size
            part == SubSeq(Content, pos[h] + 1, to)
<1>1. /\ k \in Nat /\ answer' \in Seq(Byte) /\ Len(answer') = k
      /\ \A i \in 1 .. k : answer'[i] = buffer[pos[h] + i]
  BY ReadEffect
<1>2. size \in Nat /\ pos[h] \in Nat /\ MaxLen \in Nat
  BY InvFacts
<1>3. /\ Content \in Seq(Byte) /\ Len(Content) = size
      /\ \A i \in 1 .. size : Content[i] = buffer[i] /\ Content[i] \in Byte
  BY ContentFacts
<1>4. to \in Nat /\ to <= size /\ k = IF pos[h] + 1 <= to THEN to - (pos[h] + 1) + 1 ELSE 0
  BY <1>2 DEF ReadLen, Available
<1>. HIDE DEF k, to, Content
<1>5. /\ part \in Seq(Byte)
      /\ Len(part) = IF pos[h] + 1 <= to THEN to - (pos[h] + 1) + 1 ELSE 0
      /\ \A i \in 1 .. to - (pos[h] + 1) + 1 : part[i] = Content[pos[h] + 1 + i - 1]
  <2>1. \A i \in pos[h] + 1 .. to : Content[i] \in Byte
    BY <1>2, <1>3, <1>4
  <2>. QED
    BY <1>2, <1>4, <2>1, SubSeqProperties
<1>. HIDE DEF part
<1>6. \A i \in 1 .. Len(answer') : answer'[i] = part[i]
  <2>. SUFFICES ASSUME NEW i \in 1 .. k PROVE answer'[i] = part[i]
    BY <1>1
  <2>1. i \in 1 .. to - (pos[h] + 1) + 1 /\ pos[h] + i \in 1 .. size
    BY <1>1, <1>2, <1>4
  <2>2. part[i] = Content[pos[h] + 1 + i - 1] /\ pos[h] + 1 + i - 1 = pos[h] + i
    BY <1>2, <1>5, <2>1
  <2>. QED
    BY <1>1, <1>3, <2>1, <2>2
<1>7. answer' = part
  BY <1>1, <1>4, <1>5, <1>6, SeqEqual
<1>. QED
  BY <1>3, <1>7 DEF part, to

LEMMA TruncateContent ==
    ASSUME FileInv, NEW h \in Opened, Truncate(h)
    PROVE  pos[h] < Len(Content) /\ Content' = SubSeq(Content, 1, pos[h])
<1>1. /\ size' = pos[h] /\ pos[h] < size
      /\ \A i \in 1 .. size' : buffer'[i] = buffer[i]
  BY TruncateEffect
<1>2. size \in Nat /\ pos[h] \in Nat
  BY InvFacts
<1>3. /\ Content \in Seq(Byte) /\ Len(Content) = size
      /\ \A i \in 1 .. size : Content[i] = buffer[i]
  BY ContentFacts
<1>4. /\ Content' \in Seq(Byte) /\ Len(Content') = size'
      /\ \A i \in 1 .. size' : Content'[i] = buffer'[i]
  BY TruncateInv, ContentFactsNext
<1>. HIDE DEF Content
<1>5. /\ SubSeq(Content, 1, pos[h]) \in Seq(Byte) /\ Len(SubSeq(Content, 1, pos[h])) = pos[h]
      /\ \A i \in 1 .. pos[h] : SubSeq(Content, 1, pos[h])[i] = Content[i]
  BY <1>1, <1>2, <1>3, PrefixSeq
<1>6. \A i \in 1 .. Len(Content') : Content'[i] = SubSeq(Content, 1, pos[h])[i]
  <2>. TAKE i \in 1 .. Len(Content')
  <2>1. i \in 1 .. pos[h] /\ i \in 1 .. size' /\ i \in 1 .. size
    BY <1>1, <1>2, <1>4
  <2>2. Content'[i] = buffer'[i] /\ buffer'[i] = buffer[i] /\ buffer[i] = Content[i]
    BY <1>1, <1>3, <1>4, <2>1, Zenon
  <2>. QED
    BY <1>5, <2>1, <2>2, Zenon
<1>. QED
  BY <1>1, <1>3, <1>4, <1>5, <1>6, SeqEqual

LEMMA StepFile ==
    ASSUME NoWrap, FileInv, [Next]_vars
    PROVE  [Plain!Next]_(Plain!vars)
<1>1. CASE UNCHANGED vars
  BY <1>1 DEF vars, Plain!vars
<1>2. ASSUME NEW h \in Opened, NEW bytes \in Strings, Write(h, bytes)
      PROVE  Plain!Write(h, bytes)
  <2>1. /\ bytes # <<>> /\ Len(Written(pos[h], bytes)) = pos[h] + Len(bytes)
        /\ Content' = Written(pos[h], bytes)
              \o SubSeq(Content, Len(Written(pos[h], bytes)) + 1, Len(Content))
    BY <1>2, WriteContent
  <2>2. pos' = [pos EXCEPT ![h] = pos[h] + Len(bytes)] /\ answer' = answer
    BY <1>2, WriteEffect
  <2>. QED
    BY <2>1, <2>2 DEF Plain!Write, Written, Content
<1>3. ASSUME NEW h \in Opened, NEW n \in 0 .. MaxLen, Read(h, n)
      PROVE  Plain!Read(h, n)
  <2>1. answer' = SubSeq(Content, pos[h] + 1,
                         IF pos[h] + n < Len(Content) THEN pos[h] + n ELSE Len(Content))
    BY <1>3, ReadContent
  <2>2. /\ pos' = [pos EXCEPT ![h] = @ + Len(answer')]
        /\ buffer' = buffer /\ size' = size
    BY <1>3, ReadEffect
  <2>. QED
    BY <2>1, <2>2 DEF Plain!Read, Content
<1>4. ASSUME NEW h \in Opened, Truncate(h)
      PROVE  Plain!Truncate(h)
  BY <1>4, TruncateContent, TruncateEffect DEF Plain!Truncate, Content
<1>5. ASSUME NEW h \in Opened, NEW n, Signal(h, n)
      PROVE  Plain!Seek(h, n)
  BY <1>5 DEF Signal, Plain!Seek
<1>6. CASE Next
  <2>1. Plain!Strings = Strings
    BY DEF Plain!Strings, Strings
  <2>2. \A h \in Opened : Open(h) => Plain!Reopen(h)
    BY <1>5 DEF Open, Plain!Reopen
  <2>. QED
    BY <1>2, <1>3, <1>4, <1>5, <1>6, <2>1, <2>2, Zenon DEF Next, Plain!Next
<1>. QED
  BY <1>1, <1>6

LEMMA InitFile ==
    ASSUME NoWrap, Init
    PROVE  Plain!Init
<1>1. Content \in Seq(Byte)
  BY InitInv, ContentFacts
<1>. QED
  BY <1>1 DEF Init, Plain!Init, Content

\* As long as no position wraps, reads return what was written, with zeros in
\* the gaps, whoever wrote it and whether the buffer was the archive's, was
\* copied, grew or was truncated in between.
THEOREM FileRefines ==
    ASSUME NoWrap
    PROVE  Spec => ImplementsPlainFile
<1>1. Init => FileInv /\ Plain!Init
  BY InitInv, InitFile
<1>2. FileInv /\ [Next]_vars => FileInv' /\ [Plain!Next]_(Plain!vars)
  BY StepInv, StepFile
<1>. QED
  BY <1>1, <1>2, PTL DEF Spec, ImplementsPlainFile, Plain!Spec
====
