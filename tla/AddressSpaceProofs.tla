------------------------- MODULE AddressSpaceProofs -------------------------
(***************************************************************************)
(* Reference counts, copy on write and the separation of address spaces,   *)
(* for any number of processes, pages, threads and contents.               *)
(*                                                                         *)
(* The invariant is about the machine Mem of page tables, counts and       *)
(* contents: Good says that every entry has a frame of its own address and *)
(* is not writable and marked for duplication at once, that counts are     *)
(* exact, and that shared frames are read only.  Supply bounds the frames  *)
(* the kernel keeps, so that a copy always finds one (FrameLeft, by        *)
(* counting).  Each operation on a machine has a lemma saying that it is   *)
(* good again and what every process sees in it; actions combine them.     *)
(***************************************************************************)
EXTENDS AddressSpace, CommonTheorems, FiniteSetTheorems, SequenceTheorems, TLAPS

-----------------------------------------------------------------------------
(* Frames, entries and updates of functions.                               *)

\* There are finitely many address spaces, and the kernel's frame is one.
LEMMA Spaces ==
    /\ IsFiniteSet(Space) /\ Cardinality(Space) \in Nat \ {0}
    /\ OldSpace \in Space /\ Proc \subseteq Space
<1>1. IsFiniteSet(Proc)
  BY AddressSpaceAssumption
<1>2. IsFiniteSet({OldSpace}) 
  BY FS_Singleton
<1>3. IsFiniteSet(Space)
  BY <1>1, <1>2, FS_Union DEF Space
<1>4. OldSpace \in Space /\ Proc \subseteq Space
  BY DEF Space
<1>5. Cardinality(Space) \in Nat
  BY <1>3, FS_CardinalityType
<1>6. Cardinality(Space) # 0
  BY <1>3, <1>4, FS_EmptySet
<1>. QED
  BY <1>3, <1>4, <1>5, <1>6

\* Pages and frames; the page of the kernel is none of a program.
LEMMA Frames ==
    /\ KPage \in Page /\ KPage \notin Virt /\ Virt \subseteq Page /\ Virt \subseteq Nat \ {0}
    /\ KernelFrame \in Frame /\ KernelFrame[1] = KPage
    /\ \A f \in Frame : f[1] \in Page
<1>1. Pages \in Nat /\ MaxKept \in Nat
  BY AddressSpaceAssumption
<1>2. Cardinality(Space) + MaxKept \in Nat \ {0}
  BY <1>1, Spaces
<1>3. KPage \in Page /\ KPage \notin Virt /\ Virt \subseteq Page /\ Virt \subseteq Nat \ {0}
  BY <1>1 DEF KPage, Page, Virt
<1>4. KernelFrame \in Frame
  BY <1>2, <1>3 DEF KernelFrame, Frame
<1>. QED
  BY <1>3, <1>4 DEF KernelFrame, Frame

\* The entry of a new page is writable and names its frame.
LEMMA NewEntryFacts ==
    ASSUME NEW f \in Frame
    PROVE  /\ NewEntry(f) \in Entry /\ NewEntry(f) # Absent /\ NewEntry(f).frame = f
           /\ NewEntry(f).rw /\ ~NewEntry(f).cow
<1>1. NewEntry(f) \in Entry
  BY DEF NewEntry, Entry
<1>. QED
  BY <1>1, AddressSpaceAssumption DEF NewEntry

\* An unlocked entry is writable and keeps its frame.
LEMMA UnlockedFacts ==
    ASSUME NEW e \in Entry
    PROVE  /\ Unlocked(e) \in Entry /\ Unlocked(e) # Absent /\ Unlocked(e).frame = e.frame
           /\ Unlocked(e).rw /\ ~Unlocked(e).cow
<1>1. Unlocked(e) \in Entry
  BY DEF Unlocked, Entry
<1>2. Unlocked(e).frame = e.frame /\ Unlocked(e).rw /\ ~Unlocked(e).cow
  BY DEF Unlocked, Entry
<1>. QED
  BY <1>1, <1>2, AddressSpaceAssumption

\* A forked entry is read only and keeps its frame.
LEMMA ForkedFacts ==
    ASSUME NEW e \in Entry, ~ (e.rw /\ e.cow)
    PROVE  /\ Forked(e) \in Entry /\ Forked(e) # Absent /\ Forked(e).frame = e.frame
           /\ ~Forked(e).rw /\ Forked(e).user = e.user
<1>1. CASE e.rw
  <2>1. Forked(e) = [e EXCEPT !.rw = FALSE, !.cow = TRUE]
    BY <1>1, AddressSpaceAssumption DEF Forked
  <2>2. Forked(e) \in Entry
    BY <2>1 DEF Entry
  <2>3. Forked(e).frame = e.frame /\ ~Forked(e).rw /\ Forked(e).user = e.user
    BY <2>1 DEF Entry
  <2>. QED
    BY <2>2, <2>3, AddressSpaceAssumption
<1>2. CASE ~e.rw
  BY <1>2, AddressSpaceAssumption DEF Forked
<1>. QED
  BY <1>1, <1>2

-----------------------------------------------------------------------------
(* Machines: page tables with the counts and contents of frames.           *)

Sharers(m, f) == {q \in Space : Shows(m, q, f)}

\* extra[f]: references to f that the kernel holds for itself.
MachineType(m) ==
    /\ m.tab \in [Space -> [Page -> Entry \cup {Absent}]]
    /\ m.count \in [Frame -> Nat]
    /\ m.data \in [Frame -> Value]

\* The entry that a process can have at v.
EntryOK(e, v) ==
    e # Absent => /\ e.frame[1] = v
                  /\ ~ (e.rw /\ e.cow)
                  /\ v = KPage => e.frame = KernelFrame /\ ~e.user

EntriesOK(m) == \A q \in Space, v \in Page : EntryOK(m.tab[q][v], v)

Counted(m, extra) ==
    \A f \in Frame : m.count[f] = Cardinality(Sharers(m, f)) + extra[f]

Unshared(m) ==
    \A f \in Frame \ {KernelFrame} : \A p, q \in Space :
        p # q /\ Shows(m, p, f) /\ Shows(m, q, f) => ~m.tab[p][f[1]].rw

Good(m, extra) == MachineType(m) /\ EntriesOK(m) /\ Counted(m, extra) /\ Unshared(m)

\* What q sees at v.
View(m, q, v) == IF m.tab[q][v] = Absent THEN Absent ELSE m.data[m.tab[q][v].frame]

Holds(m, p, f) == IF Shows(m, p, f) THEN 1 ELSE 0

\* The kernel's own references leave enough frames for all address spaces.
Supply(extra) ==
    /\ extra \in [Frame -> Nat]
    /\ \A v \in Virt : LET own == {f \in Frame : f[1] = v /\ extra[f] > 0}
                       IN  IsFiniteSet(own) /\ Cardinality(own) <= MaxKept

\* A frame has finitely many sharers.
LEMMA SharersType ==
    ASSUME NEW m, NEW f
    PROVE  IsFiniteSet(Sharers(m, f)) /\ Cardinality(Sharers(m, f)) \in Nat
<1>1. IsFiniteSet(Sharers(m, f))
  BY Spaces, FS_Subset DEF Sharers
<1>. QED
  BY <1>1, FS_CardinalityType

\* When one table changes, the number of sharers of a frame follows it.
LEMMA OneTable ==
    ASSUME NEW m, NEW n, NEW p \in Space, NEW f \in Frame,
           \A q \in Space \ {p} : n.tab[q] = m.tab[q]
    PROVE  Cardinality(Sharers(n, f)) + Holds(m, p, f) = Cardinality(Sharers(m, f)) + Holds(n, p, f)
<1>. DEFINE B == {q \in Space \ {p} : Shows(m, q, f)}
<1>1. IsFiniteSet(B) /\ p \notin B
  <2>1. B \subseteq Space
    OBVIOUS
  <2>. QED
    BY <2>1, Spaces, FS_Subset
<1>2. Cardinality(B) \in Nat /\ Cardinality(B \cup {p}) = Cardinality(B) + 1
  BY <1>1, FS_AddElement, FS_CardinalityType
<1>3. Sharers(m, f) = IF Shows(m, p, f) THEN B \cup {p} ELSE B
  BY DEF Sharers
<1>4. \A q \in Space \ {p} : Shows(n, q, f) <=> Shows(m, q, f)
  BY DEF Shows
<1>5. Sharers(n, f) = IF Shows(n, p, f) THEN B \cup {p} ELSE B
  BY <1>4 DEF Sharers
<1>. HIDE DEF B
<1>. QED
  BY <1>2, <1>3, <1>5 DEF Holds

\* An operation on the table of p alone.
LEMMA StepGood ==
    ASSUME NEW m, NEW n, NEW extra, NEW p \in Space, Good(m, extra), extra \in [Frame -> Nat],
           MachineType(n),
           \A q \in Space \ {p} : n.tab[q] = m.tab[q],
           \A v \in Page : EntryOK(n.tab[p][v], v),
           \A f \in Frame : n.count[f] + Holds(m, p, f) = m.count[f] + Holds(n, p, f),
           \A f \in Frame \ {KernelFrame} : \A q \in Space \ {p} :
              Shows(n, p, f) /\ Shows(m, q, f) => ~n.tab[p][f[1]].rw /\ ~m.tab[q][f[1]].rw
    PROVE  Good(n, extra)
<1>1. EntriesOK(n)
  BY DEF Good, EntriesOK
<1>2. Counted(n, extra)
  <2>1. SUFFICES ASSUME NEW f \in Frame
                 PROVE  n.count[f] = Cardinality(Sharers(n, f)) + extra[f]
    BY DEF Counted
  <2>2. Cardinality(Sharers(n, f)) + Holds(m, p, f) = Cardinality(Sharers(m, f)) + Holds(n, p, f)
    BY OneTable
  <2>3. m.count[f] = Cardinality(Sharers(m, f)) + extra[f]
    BY DEF Good, Counted
  <2>4. Holds(m, p, f) \in Nat /\ Holds(n, p, f) \in Nat
    BY DEF Holds
  <2>5. Cardinality(Sharers(m, f)) \in Nat /\ Cardinality(Sharers(n, f)) \in Nat
    BY SharersType
  <2>6. n.count[f] \in Nat /\ m.count[f] \in Nat /\ extra[f] \in Nat
    BY DEF Good, MachineType
  <2>7. n.count[f] + Holds(m, p, f) = m.count[f] + Holds(n, p, f)
    OBVIOUS
  <2>. HIDE DEF Holds
  <2>. QED
    BY <2>2, <2>3, <2>4, <2>5, <2>6, <2>7
<1>3. Unshared(n)
  <2>1. SUFFICES ASSUME NEW f \in Frame \ {KernelFrame}, NEW a \in Space, NEW b \in Space,
                        a # b, Shows(n, a, f), Shows(n, b, f)
                 PROVE  ~n.tab[a][f[1]].rw
    BY DEF Unshared
  <2>2. \A q \in Space \ {p} : Shows(n, q, f) => Shows(m, q, f) /\ n.tab[q] = m.tab[q]
    BY DEF Shows
  <2>3. CASE a = p
    BY <2>1, <2>2, <2>3
  <2>4. CASE b = p
    BY <2>1, <2>2, <2>4
  <2>5. CASE a # p /\ b # p
    BY <2>1, <2>2, <2>5 DEF Good, Unshared
  <2>. QED
    BY <2>3, <2>4, <2>5
<1>. QED
  BY <1>1, <1>2, <1>3 DEF Good

\* What the count of a frame says about who shows it.
LEMMA CountFacts ==
    ASSUME NEW m, NEW extra, Good(m, extra), extra \in [Frame -> Nat], NEW f \in Frame
    PROVE  /\ m.count[f] \in Nat
           /\ m.count[f] = 0 => extra[f] = 0 /\ \A q \in Space : ~Shows(m, q, f)
           /\ \A p, q \in Space : Shows(m, p, f) /\ Shows(m, q, f) /\ p # q => m.count[f] >= 2
           /\ m.count[f] > 0 => extra[f] > 0 \/ \E q \in Space : Shows(m, q, f)
           /\ \A p \in Space : Shows(m, p, f) /\ m.count[f] # 1
                               => extra[f] > 0 \/ \E q \in Space \ {p} : Shows(m, q, f)
<1>1. m.count[f] = Cardinality(Sharers(m, f)) + extra[f] /\ extra[f] \in Nat
  BY DEF Good, Counted
<1>2. IsFiniteSet(Sharers(m, f)) /\ Cardinality(Sharers(m, f)) \in Nat
  BY SharersType
<1>3. Cardinality(Sharers(m, f)) = 0 <=> Sharers(m, f) = {}
  BY <1>2, FS_EmptySet
<1>4. Sharers(m, f) = {} <=> \A q \in Space : ~Shows(m, q, f)
  BY DEF Sharers
<1>5. ASSUME NEW p \in Space, NEW q \in Space, Shows(m, p, f), Shows(m, q, f), p # q
      PROVE  Cardinality(Sharers(m, f)) >= 2
  <2>1. IsFiniteSet({p}) /\ Cardinality({p}) = 1
    BY FS_Singleton
  <2>2. Cardinality({p} \cup {q}) = 2
    <3>1. q \notin {p}
      BY <1>5
    <3>2. Cardinality({p} \cup {q}) = Cardinality({p}) + 1
      BY <2>1, <3>1, FS_AddElement
    <3>. QED
      BY <2>1, <3>2
  <2>3. {p} \cup {q} \subseteq Sharers(m, f)
    BY <1>5 DEF Sharers
  <2>4. Cardinality({p} \cup {q}) <= Cardinality(Sharers(m, f))
    BY <1>2, <2>3, FS_Subset
  <2>. QED
    BY <1>2, <2>2, <2>4
<1>6. ASSUME NEW p \in Space, Shows(m, p, f), \A q \in Space \ {p} : ~Shows(m, q, f)
      PROVE  Cardinality(Sharers(m, f)) = 1
  <2>1. Sharers(m, f) = {p}
    BY <1>6 DEF Sharers
  <2>. QED
    BY <2>1, FS_Singleton
<1>7. m.count[f] \in Nat /\ (m.count[f] = 0 => extra[f] = 0 /\ \A q \in Space : ~Shows(m, q, f))
  <2>1. m.count[f] \in Nat /\ (m.count[f] = 0 => extra[f] = 0 /\ Cardinality(Sharers(m, f)) = 0)
    BY <1>1, <1>2
  <2>. QED
    BY <1>3, <1>4, <2>1
<1>8. m.count[f] > 0 => extra[f] > 0 \/ \E q \in Space : Shows(m, q, f)
  <2>1. m.count[f] > 0 => extra[f] > 0 \/ Cardinality(Sharers(m, f)) # 0
    BY <1>1, <1>2
  <2>. QED
    BY <1>3, <1>4, <2>1
<1>9. \A p, q \in Space : Shows(m, p, f) /\ Shows(m, q, f) /\ p # q => m.count[f] >= 2
  BY <1>1, <1>2, <1>5
<1>10. \A p \in Space : Shows(m, p, f) /\ m.count[f] # 1
                        => extra[f] > 0 \/ \E q \in Space \ {p} : Shows(m, q, f)
  BY <1>1, <1>6
<1>. QED
  BY <1>7, <1>8, <1>9, <1>10

\* There is an unused frame for v whenever p has none there that is its own.
LEMMA FrameLeft ==
    ASSUME NEW m, NEW extra, Good(m, extra), Supply(extra), NEW p \in Space, NEW v \in Virt,
           \A f \in Frame : Shows(m, p, f) /\ f[1] = v => m.count[f] # 1
    PROVE  NewFrame(m, v) \in Frame /\ NewFrame(m, v)[1] = v /\ m.count[NewFrame(m, v)] = 0
<1>. DEFINE N == Cardinality(Space) + MaxKept
            own == {f \in Frame : f[1] = v /\ extra[f] > 0}
            others == Space \ {p}
            g == [q \in others |-> m.tab[q][v].frame]
            A == {g[q] : q \in others}
            h == [k \in 1 .. N |-> <<v, k>>]
<1>1. N \in Nat /\ MaxKept \in Nat /\ Cardinality(Space) \in Nat \ {0}
  BY Spaces, AddressSpaceAssumption
<1>2. IsFiniteSet(own) /\ Cardinality(own) <= MaxKept /\ Cardinality(own) \in Nat
  BY FS_CardinalityType DEF Supply
<1>3. IsFiniteSet(others) /\ Cardinality(others) = Cardinality(Space) - 1
  BY Spaces, FS_RemoveElement
<1>4. g \in Surjection(others, A)
  BY DEF Surjection
<1>5. IsFiniteSet(A) /\ Cardinality(A) <= Cardinality(others) /\ Cardinality(A) \in Nat
  <2>1. IsFiniteSet(A) /\ Cardinality(A) <= Cardinality(others)
    BY <1>3, <1>4, FS_Surjection
  <2>. QED
    BY <2>1, FS_CardinalityType
<1>6. IsFiniteSet(A \cup own) /\ Cardinality(A \cup own) <= Cardinality(A) + Cardinality(own)
  <2>1. IsFiniteSet(A \cup own)
        /\ Cardinality(A \cup own) = Cardinality(A) + Cardinality(own) - Cardinality(A \cap own)
    BY <1>2, <1>5, FS_Union
  <2>2. Cardinality(A \cap own) \in Nat
    BY <1>5, FS_Intersection, FS_CardinalityType
  <2>. HIDE DEF A, own
  <2>. QED
    BY <1>2, <1>5, <2>1, <2>2
<1>7. Cardinality(A \cup own) \in Nat /\ Cardinality(A \cup own) < N
  <2>1. Cardinality(A \cup own) \in Nat
    BY <1>6, FS_CardinalityType
  <2>. HIDE DEF A, own, others
  <2>. QED
    BY <1>1, <1>2, <1>3, <1>5, <1>6, <2>1
<1>8. \A k \in 1 .. N : <<v, k>> \in Frame
  BY Frames DEF Frame
<1>9. Unused(m, v) # {}
  <2>1. SUFFICES ASSUME Unused(m, v) = {} PROVE FALSE
    OBVIOUS
  <2>2. ASSUME NEW k \in 1 .. N PROVE <<v, k>> \in A \cup own
    <3>1. <<v, k>> \in Frame /\ <<v, k>>[1] = v
      BY <1>8
    <3>2. m.count[<<v, k>>] # 0
      BY <2>1, <3>1 DEF Unused
    <3>3. extra \in [Frame -> Nat]
      BY DEF Supply
    <3>4. extra[<<v, k>>] > 0 \/ \E q \in others : Shows(m, q, <<v, k>>)
      <4>1. m.count[<<v, k>>] \in Nat
        BY <3>1, <3>3, CountFacts
      <4>2. m.count[<<v, k>>] > 0
        BY <3>2, <4>1
      <4>3. extra[<<v, k>>] > 0 \/ \E q \in Space : Shows(m, q, <<v, k>>)
        BY <3>1, <3>3, <4>2, CountFacts
      <4>4. Shows(m, p, <<v, k>>)
            => extra[<<v, k>>] > 0 \/ \E q \in Space \ {p} : Shows(m, q, <<v, k>>)
        BY <3>1, <3>3, CountFacts
      <4>. QED
        BY <4>3, <4>4
    <3>5. ASSUME NEW q \in others, Shows(m, q, <<v, k>>) PROVE <<v, k>> \in A
      BY <3>5 DEF Shows
    <3>. QED
      BY <3>1, <3>4, <3>5
  <2>3. h \in Injection(1 .. N, A \cup own)
    <3>1. h \in [1 .. N -> A \cup own]
      BY <2>2
    <3>2. \A k, l \in 1 .. N : h[k] = h[l] => k = l
      OBVIOUS
    <3>. QED
      BY <3>1, <3>2 DEF Injection, IsInjective
  <2>4. Cardinality(1 .. N) <= Cardinality(A \cup own)
    BY <1>6, <2>3, FS_Injection
  <2>5. Cardinality(1 .. N) = N
    <3>. HIDE DEF N
    <3>0. N \in Int /\ 1 \in Int
      BY <1>1
    <3>1. Cardinality(1 .. N) = IF 1 > N THEN 0 ELSE N - 1 + 1
      BY <3>0, FS_Interval
    <3>. QED
      BY <1>1, <3>1
  <2>. HIDE DEF A, own, N
  <2>. QED
    BY <1>1, <1>7, <2>4, <2>5
<1>10. NewFrame(m, v) \in Unused(m, v)
  BY <1>9 DEF NewFrame
<1>. QED
  BY <1>10 DEF Unused

\* The address spaces of all others and what they show stay as they were.
Apart(m, n, p) ==
    \A q \in Space \ {p} : n.tab[q] = m.tab[q] /\ \A v \in Page : View(n, q, v) = View(m, q, v)

\* An entry of a good machine, and its frame.
LEMMA EntryFacts ==
    ASSUME NEW m, NEW extra, Good(m, extra), NEW q \in Space, NEW v \in Page, m.tab[q][v] # Absent
    PROVE  /\ m.tab[q][v] \in Entry /\ m.tab[q][v].frame \in Frame /\ m.tab[q][v].frame[1] = v
           /\ Shows(m, q, m.tab[q][v].frame)
           /\ ~ (m.tab[q][v].rw /\ m.tab[q][v].cow)
           /\ v = KPage => m.tab[q][v].frame = KernelFrame /\ ~m.tab[q][v].user
<1>1. m.tab[q][v] \in Entry /\ m.tab[q][v].frame \in Frame
  BY DEF Good, MachineType, Entry
<1>2. EntryOK(m.tab[q][v], v)
  BY DEF Good, EntriesOK
<1>. QED
  BY <1>1, <1>2 DEF EntryOK, Shows

\* A frame that others show keeps its content if only frames change that p
\* alone shows or that nobody shows.
LEMMA ApartFromData ==
    ASSUME NEW m, NEW n, NEW extra, NEW p \in Space, Good(m, extra),
           \A q \in Space \ {p} : n.tab[q] = m.tab[q],
           \A f \in Frame : \A q \in Space \ {p} : Shows(m, q, f) => n.data[f] = m.data[f]
    PROVE  Apart(m, n, p)
<1>1. ASSUME NEW q \in Space \ {p}, NEW v \in Page PROVE View(n, q, v) = View(m, q, v)
  <2>1. n.tab[q] = m.tab[q]
    OBVIOUS
  <2>2. CASE m.tab[q][v] = Absent
    BY <2>1, <2>2 DEF View
  <2>3. CASE m.tab[q][v] # Absent
    <3>1. m.tab[q][v].frame \in Frame /\ Shows(m, q, m.tab[q][v].frame)
      BY <2>3, EntryFacts
    <3>. QED
      BY <2>1, <2>3, <3>1 DEF View
  <2>. QED
    BY <2>2, <2>3
<1>. QED
  BY <1>1 DEF Apart

\* MapNew, field by field.
IsMapNew(m, p, s, content, n) ==
    /\ MachineType(n)
    /\ \A q \in Space \ {p} : n.tab[q] = m.tab[q]
    /\ \A v \in Page : n.tab[p][v] = IF v \in s THEN NewEntry(NewFrame(m, v)) ELSE m.tab[p][v]
    /\ \A f \in Frame : n.count[f] = IF f[1] \in s /\ f = NewFrame(m, f[1]) THEN 1 ELSE m.count[f]
    /\ \A f \in Frame : n.data[f] = IF f[1] \in s /\ f = NewFrame(m, f[1]) THEN content[f[1]]
                                    ELSE m.data[f]

\* MapNew does what IsMapNew says.
LEMMA MapNewFields ==
    ASSUME NEW m, NEW p \in Space, NEW s \in SUBSET Virt, NEW content, MachineType(m),
           \A v \in s : content[v] \in Value,
           \A v \in s : NewFrame(m, v) \in Frame /\ NewFrame(m, v)[1] = v,
           NEW n, n = MapNew(m, p, s, content)
    PROVE  IsMapNew(m, p, s, content, n)
<1>. DEFINE new == {NewFrame(m, v) : v \in s}
            entries == [v \in s |-> NewEntry(NewFrame(m, v))]
            ones == [f \in new |-> 1]
            contents == [f \in new |-> content[f[1]]]
<1>1. s \in SUBSET Page /\ new \in SUBSET Frame
  BY Frames
<1>2. \A f \in Frame : f \in new <=> f[1] \in s /\ f = NewFrame(m, f[1])
  OBVIOUS
<1>3. m.tab[p] \in [Page -> Entry \cup {Absent}]
  BY DEF MachineType
<1>4. Over(entries, m.tab[p]) = [v \in Page |-> IF v \in s THEN entries[v] ELSE m.tab[p][v]]
  <2>1. DOMAIN entries = s
    OBVIOUS
  <2>. HIDE DEF entries
  <2>2. DOMAIN m.tab[p] = Page
    BY <1>3
  <2>. QED
    BY <2>1, <2>2 DEF Over
<1>5. Over(ones, m.count) = [f \in Frame |-> IF f \in new THEN ones[f] ELSE m.count[f]]
  <2>1. DOMAIN ones = new
    OBVIOUS
  <2>2. DOMAIN m.count = Frame
    BY DEF MachineType
  <2>. HIDE DEF ones, new
  <2>. QED
    BY <2>1, <2>2 DEF Over
<1>6. Over(contents, m.data) = [f \in Frame |-> IF f \in new THEN contents[f] ELSE m.data[f]]
  <2>1. DOMAIN contents = new
    OBVIOUS
  <2>2. DOMAIN m.data = Frame
    BY DEF MachineType
  <2>. HIDE DEF contents, new
  <2>. QED
    BY <2>1, <2>2 DEF Over
<1>7. /\ n.tab = [m.tab EXCEPT ![p] = Over(entries, m.tab[p])]
      /\ n.count = Over(ones, m.count) /\ n.data = Over(contents, m.data)
  BY DEF MapNew
<1>8. \A v \in s : entries[v] = NewEntry(NewFrame(m, v)) /\ entries[v] \in Entry
  BY NewEntryFacts
<1>9. \A f \in new : ones[f] = 1 /\ contents[f] = content[f[1]] /\ contents[f] \in Value
  OBVIOUS
<1>. HIDE DEF entries, ones, contents, new
<1>10. n.tab[p] = [v \in Page |-> IF v \in s THEN entries[v] ELSE m.tab[p][v]]
       /\ \A q \in Space \ {p} : n.tab[q] = m.tab[q]
  BY <1>4, <1>7 DEF MachineType
<1>11. n.tab[p] \in [Page -> Entry \cup {Absent}]
  BY <1>3, <1>8, <1>10
<1>12. n.tab \in [Space -> [Page -> Entry \cup {Absent}]]
  BY <1>7, <1>10, <1>11 DEF MachineType
<1>13. n.count \in [Frame -> Nat]
  BY <1>5, <1>7, <1>9 DEF MachineType
<1>14. n.data \in [Frame -> Value]
  BY <1>6, <1>7, <1>9 DEF MachineType
<1>15. \A f \in Frame : n.count[f] = IF f \in new THEN 1 ELSE m.count[f]
  BY <1>5, <1>7, <1>9
<1>16. \A f \in Frame : n.data[f] = IF f \in new THEN content[f[1]] ELSE m.data[f]
  BY <1>6, <1>7, <1>9
<1>17. \A v \in Page : n.tab[p][v] = IF v \in s THEN NewEntry(NewFrame(m, v)) ELSE m.tab[p][v]
  BY <1>8, <1>10
<1>. QED
  BY <1>2, <1>10, <1>12, <1>13, <1>14, <1>15, <1>16, <1>17 DEF MachineType, IsMapNew

\* New pages where p had none.
Grown(m, n, p, s, content, extra) ==
    /\ Good(n, extra) /\ Apart(m, n, p)
    /\ \A v \in Page : View(n, p, v) = IF v \in s THEN content[v] ELSE View(m, p, v)
    /\ \A v \in Page \ s : n.tab[p][v] = m.tab[p][v]
    /\ \A v \in s : n.tab[p][v] # Absent

\* MapNew keeps a machine good and shows p the content at the new pages.
LEMMA MapNewGood ==
    ASSUME NEW m, NEW extra, Good(m, extra), Supply(extra),
           NEW p \in Space, NEW s \in SUBSET Virt, \A v \in s : m.tab[p][v] = Absent,
           NEW content, \A v \in s : content[v] \in Value,
           NEW n, n = MapNew(m, p, s, content)
    PROVE  Grown(m, n, p, s, content, extra)
<1>1. \A v \in s : NewFrame(m, v) \in Frame /\ NewFrame(m, v)[1] = v /\ m.count[NewFrame(m, v)] = 0
  <2>1. SUFFICES ASSUME NEW v \in s
                 PROVE  NewFrame(m, v) \in Frame /\ NewFrame(m, v)[1] = v /\ m.count[NewFrame(m, v)] = 0
    OBVIOUS
  <2>2. \A f \in Frame : Shows(m, p, f) /\ f[1] = v => m.count[f] # 1
    BY DEF Shows
  <2>. QED
    BY <2>2, FrameLeft
<1>2. extra \in [Frame -> Nat] /\ MachineType(m)
  BY DEF Supply, Good
<1>3. /\ MachineType(n)
      /\ \A q \in Space \ {p} : n.tab[q] = m.tab[q]
      /\ \A v \in Page : n.tab[p][v] = IF v \in s THEN NewEntry(NewFrame(m, v)) ELSE m.tab[p][v]
      /\ \A f \in Frame : n.count[f] = IF f[1] \in s /\ f = NewFrame(m, f[1]) THEN 1 ELSE m.count[f]
      /\ \A f \in Frame : n.data[f] = IF f[1] \in s /\ f = NewFrame(m, f[1]) THEN content[f[1]]
                                      ELSE m.data[f]
  <2>1. \A v \in s : NewFrame(m, v) \in Frame /\ NewFrame(m, v)[1] = v
    BY <1>1
  <2>2. IsMapNew(m, p, s, content, n)
    BY <1>2, <2>1, MapNewFields
  <2>. QED
    BY <2>2 DEF IsMapNew
<1>4. \A v \in s : v \in Virt /\ v \in Page /\ v # KPage
  BY Frames
<1>5. \A v \in s : /\ n.tab[p][v] = NewEntry(NewFrame(m, v)) /\ n.tab[p][v] # Absent
                   /\ n.tab[p][v].frame = NewFrame(m, v)
                   /\ ~n.tab[p][v].cow
  BY <1>1, <1>3, <1>4, NewEntryFacts
<1>6. \A v \in Page \ s : n.tab[p][v] = m.tab[p][v]
  BY <1>3
<1>7. \A v \in Page : EntryOK(n.tab[p][v], v)
  BY <1>1, <1>4, <1>5, <1>6 DEF EntryOK, Good, EntriesOK
<1>8. \A f \in Frame : f[1] \in Page
  BY Frames
<1>9. \A f \in Frame : f[1] \in s => ~Shows(m, p, f) /\ (Shows(n, p, f) <=> f = NewFrame(m, f[1]))
  BY <1>5 DEF Shows
<1>10. \A f \in Frame : f[1] \notin s => (Shows(n, p, f) <=> Shows(m, p, f))
  BY <1>6, <1>8 DEF Shows
<1>11. \A f \in Frame : n.count[f] + Holds(m, p, f) = m.count[f] + Holds(n, p, f)
  <2>1. SUFFICES ASSUME NEW f \in Frame
                 PROVE  n.count[f] + Holds(m, p, f) = m.count[f] + Holds(n, p, f)
    OBVIOUS
  <2>2. m.count[f] \in Nat
    BY <1>2 DEF MachineType
  <2>3. CASE f[1] \in s /\ f = NewFrame(m, f[1])
    <3>1. m.count[f] = 0
      BY <1>1, <2>3
    <3>2. n.count[f] = 1
      BY <1>3, <2>3
    <3>3. Holds(m, p, f) = 0 /\ Holds(n, p, f) = 1
      BY <1>9, <2>3 DEF Holds
    <3>. QED
      BY <3>1, <3>2, <3>3
  <2>4. CASE f[1] \in s /\ f # NewFrame(m, f[1])
    BY <1>3, <1>9, <2>2, <2>4 DEF Holds
  <2>5. CASE f[1] \notin s
    BY <1>3, <1>10, <2>2, <2>5 DEF Holds
  <2>. QED
    BY <2>3, <2>4, <2>5
<1>12. \A f \in Frame : f[1] \in s /\ f = NewFrame(m, f[1]) => \A q \in Space : ~Shows(m, q, f)
  BY <1>1, <1>2, CountFacts
<1>13. ASSUME NEW f \in Frame \ {KernelFrame}, NEW q \in Space \ {p}, Shows(n, p, f), Shows(m, q, f)
       PROVE  ~n.tab[p][f[1]].rw /\ ~m.tab[q][f[1]].rw
  <2>1. f[1] \notin s /\ Shows(m, p, f) /\ f[1] \in Page
    BY <1>8, <1>9, <1>10, <1>12, <1>13
  <2>2. n.tab[p][f[1]] = m.tab[p][f[1]]
    BY <1>6, <2>1
  <2>3. ~m.tab[p][f[1]].rw /\ ~m.tab[q][f[1]].rw
    BY <1>13, <2>1 DEF Good, Unshared
  <2>. QED
    BY <2>2, <2>3
<1>14. Good(n, extra)
  BY <1>2, <1>3, <1>7, <1>11, <1>13, StepGood
<1>15. Apart(m, n, p)
  <2>1. \A f \in Frame : \A q \in Space \ {p} : Shows(m, q, f) => n.data[f] = m.data[f]
    BY <1>3, <1>12
  <2>. QED
    BY <1>3, <2>1, ApartFromData
<1>16. ASSUME NEW v \in Page PROVE View(n, p, v) = IF v \in s THEN content[v] ELSE View(m, p, v)
  <2>1. CASE v \in s
    BY <1>1, <1>3, <1>5, <2>1 DEF View
  <2>2. CASE v \notin s /\ m.tab[p][v] = Absent
    BY <1>6, <2>2 DEF View
  <2>3. CASE v \notin s /\ m.tab[p][v] # Absent
    <3>1. m.tab[p][v].frame \in Frame /\ m.tab[p][v].frame[1] = v
      BY <2>3, EntryFacts
    <3>2. n.data[m.tab[p][v].frame] = m.data[m.tab[p][v].frame]
      BY <1>3, <2>3, <3>1
    <3>. QED
      BY <1>6, <2>3, <3>2 DEF View
  <2>. QED
    BY <2>1, <2>2, <2>3
<1>. QED
  BY <1>5, <1>6, <1>14, <1>15, <1>16 DEF Grown

\* Unmap, field by field.
IsUnmap(m, p, s, n) ==
    /\ MachineType(n)
    /\ \A q \in Space \ {p} : n.tab[q] = m.tab[q]
    /\ \A v \in Page : n.tab[p][v] = IF v \in s THEN Absent ELSE m.tab[p][v]
    /\ \A f \in Frame : n.count[f] = IF f[1] \in s /\ Shows(m, p, f) THEN m.count[f] - 1 ELSE m.count[f]
    /\ \A f \in Frame : n.data[f] = IF f[1] \in s /\ Shows(m, p, f) /\ m.count[f] = 1 THEN Fresh
                                    ELSE m.data[f]

\* The frames of some mapped pages.
LEMMA FramesOfPages ==
    ASSUME NEW m, NEW extra, Good(m, extra), NEW p \in Space,
           NEW s \in SUBSET Page, \A v \in s : m.tab[p][v] # Absent
    PROVE  /\ FramesOf(m, p, s) \in SUBSET Frame
           /\ \A f \in Frame : f \in FramesOf(m, p, s) <=> f[1] \in s /\ Shows(m, p, f)
<1>1. \A v \in s : /\ m.tab[p][v].frame \in Frame /\ m.tab[p][v].frame[1] = v
                   /\ Shows(m, p, m.tab[p][v].frame)
  BY EntryFacts
<1>. QED
  BY <1>1 DEF FramesOf, Shows

\* Unmap does what IsUnmap says.
LEMMA UnmapFields ==
    ASSUME NEW m, NEW extra, Good(m, extra), extra \in [Frame -> Nat], NEW p \in Space,
           NEW s \in SUBSET Page, \A v \in s : m.tab[p][v] # Absent,
           NEW n, n = Unmap(m, p, s)
    PROVE  IsUnmap(m, p, s, n)
<1>. DEFINE gone == FramesOf(m, p, s)
            last == {f \in gone : m.count[f] = 1}
            none == [v \in s |-> Absent]
            less == [f \in gone |-> m.count[f] - 1]
            lost == [f \in last |-> Fresh]
<1>1. gone \in SUBSET Frame /\ \A f \in Frame : f \in gone <=> f[1] \in s /\ Shows(m, p, f)
  BY FramesOfPages
<1>2. /\ m.tab \in [Space -> [Page -> Entry \cup {Absent}]]
      /\ m.count \in [Frame -> Nat] /\ m.data \in [Frame -> Value]
      /\ m.tab[p] \in [Page -> Entry \cup {Absent}]
  BY DEF Good, MachineType
<1>3. /\ n.tab = [m.tab EXCEPT ![p] = Over(none, m.tab[p])]
      /\ n.count = Over(less, m.count) /\ n.data = Over(lost, m.data)
  BY DEF Unmap
<1>4. \A f \in gone : m.count[f] - 1 \in Nat
  <2>1. \A f \in gone : f \in Frame /\ Shows(m, p, f) /\ m.count[f] \in Nat /\ m.count[f] # 0
    BY <1>1, CountFacts
  <2>. QED
    BY <2>1
<1>5. DOMAIN none = s /\ DOMAIN less = gone /\ DOMAIN lost = last
  OBVIOUS
<1>6. /\ \A v \in s : none[v] = Absent
      /\ \A f \in gone : less[f] = m.count[f] - 1
      /\ \A f \in last : lost[f] = Fresh
  OBVIOUS
<1>7. \A f \in Frame : f \in last <=> f[1] \in s /\ Shows(m, p, f) /\ m.count[f] = 1
  BY <1>1
<1>. HIDE DEF gone, last, none, less, lost
<1>8. Over(none, m.tab[p]) = [v \in Page |-> IF v \in s THEN Absent ELSE m.tab[p][v]]
  BY <1>2, <1>5, <1>6 DEF Over
<1>9. Over(less, m.count) = [f \in Frame |-> IF f \in gone THEN m.count[f] - 1 ELSE m.count[f]]
  BY <1>2, <1>5, <1>6 DEF Over
<1>10. Over(lost, m.data) = [f \in Frame |-> IF f \in last THEN Fresh ELSE m.data[f]]
  BY <1>2, <1>5, <1>6 DEF Over
<1>11. /\ n.tab[p] = [v \in Page |-> IF v \in s THEN Absent ELSE m.tab[p][v]]
       /\ \A q \in Space \ {p} : n.tab[q] = m.tab[q]
  BY <1>2, <1>3, <1>8
<1>12. n.tab[p] \in [Page -> Entry \cup {Absent}]
  BY <1>2, <1>11
<1>13. n.tab \in [Space -> [Page -> Entry \cup {Absent}]]
  BY <1>2, <1>3, <1>11, <1>12
<1>14. n.count \in [Frame -> Nat]
  BY <1>2, <1>3, <1>4, <1>9
<1>15. n.data \in [Frame -> Value]
  BY <1>2, <1>3, <1>10 DEF Value
<1>16. \A f \in Frame : n.count[f] = IF f \in gone THEN m.count[f] - 1 ELSE m.count[f]
  BY <1>3, <1>9
<1>17. \A f \in Frame : n.data[f] = IF f \in last THEN Fresh ELSE m.data[f]
  BY <1>3, <1>10
<1>18. \A v \in Page : n.tab[p][v] = IF v \in s THEN Absent ELSE m.tab[p][v]
  BY <1>11
<1>19. \A f \in Frame : n.count[f] = IF f[1] \in s /\ Shows(m, p, f) THEN m.count[f] - 1 ELSE m.count[f]
  BY <1>1, <1>16
<1>20. \A f \in Frame : n.data[f] = IF f[1] \in s /\ Shows(m, p, f) /\ m.count[f] = 1 THEN Fresh
                                    ELSE m.data[f]
  BY <1>7, <1>17
<1>. QED
  BY <1>11, <1>13, <1>14, <1>15, <1>18, <1>19, <1>20 DEF MachineType, IsUnmap

\* Pages of p are released.
LEMMA UnmapGood ==
    ASSUME NEW m, NEW extra, Good(m, extra), extra \in [Frame -> Nat], NEW p \in Space,
           NEW s \in SUBSET Page, \A v \in s : m.tab[p][v] # Absent,
           NEW n, n = Unmap(m, p, s)
    PROVE  /\ Good(n, extra) /\ Apart(m, n, p)
           /\ \A v \in Page : View(n, p, v) = IF v \in s THEN Absent ELSE View(m, p, v)
           /\ \A v \in Page : n.tab[p][v] = IF v \in s THEN Absent ELSE m.tab[p][v]
<1>1. IsUnmap(m, p, s, n)
  BY UnmapFields
<1>2. MachineType(n) /\ \A q \in Space \ {p} : n.tab[q] = m.tab[q]
  BY <1>1 DEF IsUnmap
<1>3. \A v \in Page : n.tab[p][v] = IF v \in s THEN Absent ELSE m.tab[p][v]
  BY <1>1 DEF IsUnmap
<1>4. \A f \in Frame : n.count[f] = IF f[1] \in s /\ Shows(m, p, f) THEN m.count[f] - 1 ELSE m.count[f]
  BY <1>1 DEF IsUnmap
<1>5. \A f \in Frame : n.data[f] = IF f[1] \in s /\ Shows(m, p, f) /\ m.count[f] = 1 THEN Fresh
                                   ELSE m.data[f]
  BY <1>1 DEF IsUnmap
<1>6. \A f \in Frame : f[1] \in Page
  BY Frames
<1>7. \A f \in Frame : Shows(n, p, f) <=> Shows(m, p, f) /\ f[1] \notin s
  BY <1>3, <1>6 DEF Shows
<1>8. \A v \in Page : EntryOK(n.tab[p][v], v)
  BY <1>3 DEF EntryOK, Good, EntriesOK
<1>9. \A f \in Frame : n.count[f] + Holds(m, p, f) = m.count[f] + Holds(n, p, f)
  <2>1. \A f \in Frame : m.count[f] \in Nat
    BY DEF Good, MachineType
  <2>. QED
    BY <1>4, <1>7, <2>1 DEF Holds
<1>10. ASSUME NEW f \in Frame \ {KernelFrame}, NEW q \in Space \ {p}, Shows(n, p, f), Shows(m, q, f)
       PROVE  ~n.tab[p][f[1]].rw /\ ~m.tab[q][f[1]].rw
  <2>1. Shows(m, p, f) /\ n.tab[p][f[1]] = m.tab[p][f[1]]
    BY <1>3, <1>6, <1>7, <1>10
  <2>2. ~m.tab[p][f[1]].rw /\ ~m.tab[q][f[1]].rw
    BY <1>10, <2>1 DEF Good, Unshared
  <2>. QED
    BY <2>1, <2>2
<1>11. Good(n, extra)
  BY <1>2, <1>8, <1>9, <1>10, StepGood
<1>12. Apart(m, n, p)
  <2>1. ASSUME NEW f \in Frame, NEW q \in Space \ {p}, Shows(m, q, f) PROVE n.data[f] = m.data[f]
    <3>1. Shows(m, p, f) => m.count[f] >= 2
      BY <2>1, CountFacts
    <3>. QED
      BY <1>5, <3>1
  <2>. QED
    BY <1>2, <2>1, ApartFromData
<1>13. ASSUME NEW v \in Page PROVE View(n, p, v) = IF v \in s THEN Absent ELSE View(m, p, v)
  <2>1. CASE v \in s \/ m.tab[p][v] = Absent
    BY <1>3, <2>1 DEF View
  <2>2. CASE v \notin s /\ m.tab[p][v] # Absent
    <3>1. m.tab[p][v].frame \in Frame /\ m.tab[p][v].frame[1] = v
      BY <2>2, EntryFacts
    <3>2. n.data[m.tab[p][v].frame] = m.data[m.tab[p][v].frame]
      BY <1>5, <2>2, <3>1
    <3>. QED
      BY <1>3, <2>2, <3>2 DEF View
  <2>. QED
    BY <2>1, <2>2
<1>. QED
  BY <1>3, <1>11, <1>12, <1>13

\* Which of the pages s of p are shared, and Duplicate, field by field.
SharedOf(m, p, s) == {v \in s : m.count[m.tab[p][v].frame] # 1}

IsDuplicate(m, p, s, n) ==
    /\ MachineType(n)
    /\ \A q \in Space \ {p} : n.tab[q] = m.tab[q]
    /\ \A v \in Page : n.tab[p][v] = IF v \in SharedOf(m, p, s) THEN NewEntry(NewFrame(m, v))
                                     ELSE IF v \in s THEN Unlocked(m.tab[p][v])
                                     ELSE m.tab[p][v]
    /\ \A f \in Frame : n.count[f] = IF f[1] \in SharedOf(m, p, s) /\ Shows(m, p, f) THEN m.count[f] - 1
                                     ELSE IF f[1] \in SharedOf(m, p, s) /\ f = NewFrame(m, f[1]) THEN 1
                                     ELSE m.count[f]
    /\ \A f \in Frame : n.data[f] = IF f[1] \in SharedOf(m, p, s) /\ f = NewFrame(m, f[1])
                                    THEN m.data[m.tab[p][f[1]].frame]
                                    ELSE m.data[f]

\* A shared page finds a frame for its copy.
LEMMA CopyFrames ==
    ASSUME NEW m, NEW extra, Good(m, extra), Supply(extra), NEW p \in Space,
           NEW s \in SUBSET Virt, \A v \in s : m.tab[p][v] # Absent, NEW v \in SharedOf(m, p, s)
    PROVE  NewFrame(m, v) \in Frame /\ NewFrame(m, v)[1] = v /\ m.count[NewFrame(m, v)] = 0
<1>1. v \in Virt /\ m.count[m.tab[p][v].frame] # 1
  BY DEF SharedOf
<1>2. \A f \in Frame : Shows(m, p, f) /\ f[1] = v => m.count[f] # 1
  BY <1>1 DEF Shows
<1>. QED
  BY <1>1, <1>2, FrameLeft

\* Duplicate does what IsDuplicate says.
LEMMA DuplicateFields ==
    ASSUME NEW m, NEW extra, Good(m, extra), Supply(extra), NEW p \in Space,
           NEW s \in SUBSET Virt, \A v \in s : m.tab[p][v] # Absent,
           NEW n, n = Duplicate(m, p, s)
    PROVE  IsDuplicate(m, p, s, n)
<1>. DEFINE shared == SharedOf(m, p, s)
            left == FramesOf(m, p, shared)
            content == [v \in shared |-> m.data[m.tab[p][v].frame]]
            copied == MapNew(m, p, shared, content)
            freed == [v \in s \ shared |-> Unlocked(m.tab[p][v])]
            less == [f \in left |-> m.count[f] - 1]
<1>1. /\ n.tab = [copied.tab EXCEPT ![p] = Over(freed, copied.tab[p])]
      /\ n.count = Over(less, copied.count) /\ n.data = copied.data
  BY DEF Duplicate, SharedOf
<1>2. shared \in SUBSET Virt /\ shared \in SUBSET s /\ s \in SUBSET Page
  BY Frames DEF SharedOf
<1>3. MachineType(m) /\ extra \in [Frame -> Nat]
  BY DEF Good, Supply
<1>4. \A v \in shared : content[v] = m.data[m.tab[p][v].frame] /\ content[v] \in Value
  <2>1. \A v \in shared : m.tab[p][v].frame \in Frame
    BY <1>2, EntryFacts
  <2>. QED
    BY <1>3, <2>1 DEF MachineType
<1>5. \A v \in shared : NewFrame(m, v) \in Frame /\ NewFrame(m, v)[1] = v
  BY CopyFrames
<1>6. IsMapNew(m, p, shared, content, copied)
  <2>. HIDE DEF shared, content
  <2>1. \A v \in shared : content[v] \in Value
    BY <1>4
  <2>. QED
    BY <1>2, <1>3, <1>5, <2>1, MapNewFields
<1>7. left \in SUBSET Frame /\ \A f \in Frame : f \in left <=> f[1] \in shared /\ Shows(m, p, f)
  <2>1. shared \in SUBSET Page /\ \A v \in shared : m.tab[p][v] # Absent
    BY <1>2
  <2>. HIDE DEF shared
  <2>. QED
    BY <2>1, FramesOfPages
<1>8. \A f \in left : m.count[f] - 1 \in Nat
  <2>1. \A f \in left : f \in Frame /\ Shows(m, p, f) /\ m.count[f] \in Nat /\ m.count[f] # 0
    BY <1>3, <1>7, CountFacts
  <2>. QED
    BY <2>1
<1>9. \A v \in s : m.tab[p][v] \in Entry
  BY <1>2, EntryFacts
<1>10. /\ DOMAIN freed = s \ shared /\ DOMAIN less = left
       /\ \A v \in s \ shared : freed[v] = Unlocked(m.tab[p][v])
       /\ \A f \in left : less[f] = m.count[f] - 1
  OBVIOUS
<1>. HIDE DEF shared, left, content, copied, freed, less
<1>11. /\ MachineType(copied)
       /\ \A q \in Space \ {p} : copied.tab[q] = m.tab[q]
       /\ \A v \in Page : copied.tab[p][v] = IF v \in shared THEN NewEntry(NewFrame(m, v)) ELSE m.tab[p][v]
  BY <1>6 DEF IsMapNew
<1>12. /\ \A f \in Frame : copied.count[f] = IF f[1] \in shared /\ f = NewFrame(m, f[1]) THEN 1
                                             ELSE m.count[f]
       /\ \A f \in Frame : copied.data[f] = IF f[1] \in shared /\ f = NewFrame(m, f[1])
                                            THEN content[f[1]] ELSE m.data[f]
  BY <1>6 DEF IsMapNew
<1>13. /\ copied.tab \in [Space -> [Page -> Entry \cup {Absent}]]
       /\ copied.tab[p] \in [Page -> Entry \cup {Absent}]
       /\ copied.count \in [Frame -> Nat] /\ copied.data \in [Frame -> Value]
  BY <1>11 DEF MachineType
<1>14. Over(freed, copied.tab[p])
       = [v \in Page |-> IF v \in s \ shared THEN Unlocked(m.tab[p][v]) ELSE copied.tab[p][v]]
  BY <1>10, <1>13 DEF Over
<1>15. Over(less, copied.count) = [f \in Frame |-> IF f \in left THEN m.count[f] - 1 ELSE copied.count[f]]
  BY <1>10, <1>13 DEF Over
<1>16. /\ n.tab[p] = [v \in Page |-> IF v \in s \ shared THEN Unlocked(m.tab[p][v]) ELSE copied.tab[p][v]]
       /\ \A q \in Space \ {p} : n.tab[q] = copied.tab[q]
  BY <1>1, <1>13, <1>14
<1>17. n.tab[p] \in [Page -> Entry \cup {Absent}]
  <2>1. \A v \in s \ shared : Unlocked(m.tab[p][v]) \in Entry
    BY <1>9, UnlockedFacts
  <2>. QED
    BY <1>13, <1>16, <2>1
<1>18. n.tab \in [Space -> [Page -> Entry \cup {Absent}]]
  BY <1>1, <1>13, <1>16, <1>17
<1>19. n.count \in [Frame -> Nat]
  BY <1>1, <1>8, <1>13, <1>15
<1>20. MachineType(n)
  BY <1>1, <1>13, <1>18, <1>19 DEF MachineType
<1>21. \A q \in Space \ {p} : n.tab[q] = m.tab[q]
  BY <1>11, <1>16
<1>22. \A v \in Page : n.tab[p][v] = IF v \in shared THEN NewEntry(NewFrame(m, v))
                                     ELSE IF v \in s THEN Unlocked(m.tab[p][v])
                                     ELSE m.tab[p][v]
  BY <1>2, <1>11, <1>16
<1>23. \A f \in Frame : n.count[f] = IF f \in left THEN m.count[f] - 1 ELSE copied.count[f]
  BY <1>1, <1>15
<1>24. \A f \in Frame : n.count[f] = IF f[1] \in shared /\ Shows(m, p, f) THEN m.count[f] - 1
                                     ELSE IF f[1] \in shared /\ f = NewFrame(m, f[1]) THEN 1
                                     ELSE m.count[f]
  BY <1>7, <1>12, <1>23
<1>25. \A f \in Frame : n.data[f] = IF f[1] \in shared /\ f = NewFrame(m, f[1])
                                    THEN m.data[m.tab[p][f[1]].frame]
                                    ELSE m.data[f]
  BY <1>1, <1>4, <1>12
<1>. QED
  BY <1>20, <1>21, <1>22, <1>24, <1>25 DEF IsDuplicate, shared

\* Pages of p become writable: nobody sees a difference, and nobody else has
\* their frames.
LEMMA DuplicateGood ==
    ASSUME NEW m, NEW extra, Good(m, extra), Supply(extra), NEW p \in Space,
           NEW s \in SUBSET Virt, \A v \in s : m.tab[p][v] # Absent,
           NEW n, n = Duplicate(m, p, s)
    PROVE  /\ Good(n, extra) /\ Apart(m, n, p)
           /\ \A v \in Page : View(n, p, v) = View(m, p, v)
           /\ \A v \in s : n.tab[p][v] # Absent /\ n.tab[p][v].rw
           /\ \A v \in Page \ s : n.tab[p][v] = m.tab[p][v]
<1>. DEFINE shared == SharedOf(m, p, s)
<1>0. IsDuplicate(m, p, s, n)
  BY DuplicateFields
<1>1. /\ MachineType(n)
      /\ \A q \in Space \ {p} : n.tab[q] = m.tab[q]
  BY <1>0 DEF IsDuplicate
<1>2. \A v \in Page : n.tab[p][v] = IF v \in shared THEN NewEntry(NewFrame(m, v))
                                    ELSE IF v \in s THEN Unlocked(m.tab[p][v])
                                    ELSE m.tab[p][v]
  BY <1>0 DEF IsDuplicate
<1>3. \A f \in Frame : n.count[f] = IF f[1] \in shared /\ Shows(m, p, f) THEN m.count[f] - 1
                                    ELSE IF f[1] \in shared /\ f = NewFrame(m, f[1]) THEN 1
                                    ELSE m.count[f]
  BY <1>0 DEF IsDuplicate
<1>4. \A f \in Frame : n.data[f] = IF f[1] \in shared /\ f = NewFrame(m, f[1])
                                   THEN m.data[m.tab[p][f[1]].frame]
                                   ELSE m.data[f]
  BY <1>0 DEF IsDuplicate
<1>5. shared \in SUBSET s /\ s \in SUBSET Page /\ KPage \notin s /\ extra \in [Frame -> Nat]
  BY Frames DEF SharedOf, Supply
<1>6. \A v \in shared : NewFrame(m, v) \in Frame /\ NewFrame(m, v)[1] = v /\ m.count[NewFrame(m, v)] = 0
  BY CopyFrames
<1>7. \A v \in s \ shared : m.count[m.tab[p][v].frame] = 1
  BY DEF SharedOf
<1>8. \A v \in s : /\ m.tab[p][v] \in Entry /\ m.tab[p][v].frame \in Frame
                   /\ m.tab[p][v].frame[1] = v /\ Shows(m, p, m.tab[p][v].frame)
  BY <1>5, EntryFacts
<1>. HIDE DEF shared
<1>9. \A v \in shared : /\ n.tab[p][v] # Absent /\ n.tab[p][v].frame = NewFrame(m, v)
                        /\ n.tab[p][v].rw /\ ~n.tab[p][v].cow
  BY <1>2, <1>5, <1>6, NewEntryFacts
<1>10. \A v \in s \ shared : /\ n.tab[p][v] # Absent /\ n.tab[p][v].frame = m.tab[p][v].frame
                             /\ n.tab[p][v].rw /\ ~n.tab[p][v].cow
  <2>1. \A v \in s \ shared : n.tab[p][v] = Unlocked(m.tab[p][v])
    BY <1>2, <1>5
  <2>. QED
    BY <1>8, <2>1, UnlockedFacts
<1>11. \A v \in Page \ s : n.tab[p][v] = m.tab[p][v]
  BY <1>2, <1>5
<1>12. \A v \in Page : EntryOK(n.tab[p][v], v)
  BY <1>5, <1>6, <1>8, <1>9, <1>10, <1>11 DEF EntryOK, Good, EntriesOK
<1>13. \A f \in Frame : f[1] \in Page
  BY Frames
<1>14. \A f \in Frame : f[1] \in shared => (Shows(n, p, f) <=> f = NewFrame(m, f[1]))
  BY <1>9 DEF Shows
<1>15. \A f \in Frame : f[1] \notin shared => (Shows(n, p, f) <=> Shows(m, p, f))
  <2>1. SUFFICES ASSUME NEW f \in Frame, f[1] \notin shared
                 PROVE  Shows(n, p, f) <=> Shows(m, p, f)
    OBVIOUS
  <2>2. CASE f[1] \in s
    BY <1>10, <2>1, <2>2 DEF Shows
  <2>3. CASE f[1] \notin s
    BY <1>11, <1>13, <2>3 DEF Shows
  <2>. QED
    BY <2>2, <2>3
<1>16. \A f \in Frame : f[1] \in shared /\ f = NewFrame(m, f[1]) => \A q \in Space : ~Shows(m, q, f)
  BY <1>5, <1>6, CountFacts
<1>17. \A f \in Frame : n.count[f] + Holds(m, p, f) = m.count[f] + Holds(n, p, f)
  <2>1. SUFFICES ASSUME NEW f \in Frame
                 PROVE  n.count[f] + Holds(m, p, f) = m.count[f] + Holds(n, p, f)
    OBVIOUS
  <2>2. m.count[f] \in Nat
    BY DEF Good, MachineType
  <2>3. CASE f[1] \in shared /\ f = NewFrame(m, f[1])
    <3>1. m.count[f] = 0
      BY <1>6, <2>3
    <3>2. ~Shows(m, p, f) /\ Shows(n, p, f)
      BY <1>14, <1>16, <2>3
    <3>3. n.count[f] = 1
      BY <1>3, <2>3, <3>2
    <3>. QED
      BY <3>1, <3>2, <3>3 DEF Holds
  <2>4. CASE f[1] \in shared /\ f # NewFrame(m, f[1])
    <3>1. ~Shows(n, p, f)
      BY <1>14, <2>4
    <3>. QED
      BY <1>3, <2>2, <2>4, <3>1 DEF Holds
  <2>5. CASE f[1] \notin shared
    BY <1>3, <1>15, <2>2, <2>5 DEF Holds
  <2>. QED
    BY <2>3, <2>4, <2>5
<1>18. ASSUME NEW f \in Frame \ {KernelFrame}, NEW q \in Space \ {p}, Shows(n, p, f), Shows(m, q, f)
       PROVE  ~n.tab[p][f[1]].rw /\ ~m.tab[q][f[1]].rw
  <2>1. f[1] \notin shared /\ Shows(m, p, f) /\ f[1] \in Page
    BY <1>13, <1>14, <1>15, <1>16, <1>18
  <2>2. m.count[f] >= 2
    BY <1>5, <1>18, <2>1, CountFacts
  <2>3. f[1] \notin s
    BY <1>7, <2>1, <2>2 DEF Shows
  <2>4. n.tab[p][f[1]] = m.tab[p][f[1]]
    BY <1>11, <2>1, <2>3
  <2>5. ~m.tab[p][f[1]].rw /\ ~m.tab[q][f[1]].rw
    BY <1>18, <2>1 DEF Good, Unshared
  <2>. QED
    BY <2>4, <2>5
<1>19. Good(n, extra)
  BY <1>1, <1>5, <1>12, <1>17, <1>18, StepGood
<1>20. Apart(m, n, p)
  <2>1. \A f \in Frame : \A q \in Space \ {p} : Shows(m, q, f) => n.data[f] = m.data[f]
    BY <1>4, <1>16
  <2>. QED
    BY <1>1, <2>1, ApartFromData
<1>21. ASSUME NEW v \in Page PROVE View(n, p, v) = View(m, p, v)
  <2>1. CASE v \in shared
    <3>1. n.data[NewFrame(m, v)] = m.data[m.tab[p][v].frame]
      BY <1>4, <1>6, <2>1
    <3>. QED
      BY <1>5, <1>9, <2>1, <3>1 DEF View
  <2>2. CASE v \notin shared /\ m.tab[p][v] = Absent
    BY <1>5, <1>11, <2>2 DEF View
  <2>3. CASE v \notin shared /\ m.tab[p][v] # Absent
    <3>1. m.tab[p][v].frame \in Frame /\ m.tab[p][v].frame[1] = v
      BY <2>3, EntryFacts
    <3>2. n.data[m.tab[p][v].frame] = m.data[m.tab[p][v].frame]
      BY <1>4, <2>3, <3>1
    <3>3. n.tab[p][v] # Absent /\ n.tab[p][v].frame = m.tab[p][v].frame
      BY <1>10, <1>11, <2>3
    <3>. QED
      BY <2>3, <3>2, <3>3 DEF View
  <2>. QED
    BY <2>1, <2>2, <2>3
<1>22. \A v \in s : n.tab[p][v] # Absent /\ n.tab[p][v].rw
  BY <1>9, <1>10
<1>. QED
  BY <1>11, <1>19, <1>20, <1>21, <1>22

\* The entry of the page that kernel and process share.
LEMMA KernelPageFacts ==
    /\ KernelPage(TRUE) \in Entry /\ KernelPage(TRUE) # Absent
    /\ KernelPage(TRUE).frame = KernelFrame
    /\ ~KernelPage(TRUE).cow /\ ~KernelPage(TRUE).user
<1>1. KernelPage(TRUE) \in Entry
  BY Frames DEF KernelPage, Entry
<1>. QED
  BY <1>1, AddressSpaceAssumption DEF KernelPage

\* A table that was empty gets the pages of the kernel.
LEMMA NewTableGood ==
    ASSUME NEW m, NEW extra, Good(m, extra), extra \in [Frame -> Nat],
           NEW p \in Space, m.tab[p] = EmptyTable,
           NEW n, n = NewTable(m, p)
    PROVE  /\ Good(n, extra) /\ Apart(m, n, p)
           /\ n.tab[p][KPage] # Absent
           /\ \A v \in Virt : n.tab[p][v] = Absent
<1>1. /\ n.tab = [m.tab EXCEPT ![p] = [EmptyTable EXCEPT ![KPage] = KernelPage(TRUE)]]
      /\ n.count = [m.count EXCEPT ![KernelFrame] = m.count[KernelFrame] + 1]
      /\ n.data = m.data
  BY DEF NewTable
<1>2. MachineType(m)
  BY DEF Good
<1>3. n.tab[p] = [EmptyTable EXCEPT ![KPage] = KernelPage(TRUE)]
      /\ \A q \in Space \ {p} : n.tab[q] = m.tab[q]
  BY <1>1, <1>2 DEF MachineType
<1>4. n.tab[p][KPage] = KernelPage(TRUE) /\ \A v \in Page \ {KPage} : n.tab[p][v] = Absent
  BY <1>3, Frames DEF EmptyTable
<1>5. n.tab[p] \in [Page -> Entry \cup {Absent}]
  BY <1>3, KernelPageFacts DEF EmptyTable
<1>6. n.tab \in [Space -> [Page -> Entry \cup {Absent}]]
  BY <1>1, <1>2, <1>3, <1>5 DEF MachineType
<1>7. n.count \in [Frame -> Nat]
  BY <1>1, <1>2, Frames DEF MachineType
<1>8. MachineType(n)
  BY <1>1, <1>2, <1>6, <1>7 DEF MachineType
<1>9. \A v \in Page : EntryOK(n.tab[p][v], v)
  BY <1>4, KernelPageFacts, Frames DEF EntryOK
<1>10. \A f \in Frame : ~Shows(m, p, f)
  BY Frames DEF Shows, EmptyTable
<1>11. \A f \in Frame : Shows(n, p, f) <=> f = KernelFrame
  BY <1>4, Frames, KernelPageFacts DEF Shows
<1>12. \A f \in Frame : n.count[f] + Holds(m, p, f) = m.count[f] + Holds(n, p, f)
  <2>1. \A f \in Frame : m.count[f] \in Nat
    BY <1>2 DEF MachineType
  <2>2. \A f \in Frame : n.count[f] = IF f = KernelFrame THEN m.count[f] + 1 ELSE m.count[f]
    BY <1>1, <1>2 DEF MachineType
  <2>. QED
    BY <1>10, <1>11, <2>1, <2>2 DEF Holds
<1>13. Good(n, extra)
  <2>1. \A f \in Frame \ {KernelFrame} : \A q \in Space \ {p} :
           Shows(n, p, f) /\ Shows(m, q, f) => ~n.tab[p][f[1]].rw /\ ~m.tab[q][f[1]].rw
    BY <1>11
  <2>2. \A q \in Space \ {p} : n.tab[q] = m.tab[q]
    BY <1>3
  <2>. QED
    BY <1>8, <1>9, <1>12, <2>1, <2>2, StepGood
<1>14. Apart(m, n, p)
  BY <1>1, <1>3, ApartFromData
<1>. QED
  BY <1>4, <1>13, <1>14, KernelPageFacts, Frames

\* Parent and child of a fork, with the same table, read only.
LEMMA ForkGood ==
    ASSUME NEW m, NEW extra, Good(m, extra), extra \in [Frame -> Nat],
           NEW p \in Space, NEW c \in Space, p # c, m.tab[c] = EmptyTable,
           NEW n, n = ForkTable(m, p, c)
    PROVE  /\ Good(n, extra)
           /\ \A q \in Space \ {p, c} : n.tab[q] = m.tab[q]
           /\ \A q \in Space \ {c} : \A v \in Page : View(n, q, v) = View(m, q, v)
           /\ \A v \in Page : View(n, c, v) = View(m, p, v)
           /\ \A v \in Page : n.tab[p][v] = Forked(m.tab[p][v]) /\ n.tab[c][v] = Forked(m.tab[p][v])
<1>. DEFINE shared == [v \in Page |-> Forked(m.tab[p][v])]
            k == [tab |-> [m.tab EXCEPT ![p] = shared], count |-> m.count, data |-> m.data]
            mapped == Mapped(m, p)
            more == [f \in FramesOf(m, p, mapped) |-> m.count[f] + 1]
<1>1. /\ n.tab = [m.tab EXCEPT ![p] = shared, ![c] = shared]
      /\ n.count = Over(more, m.count)
      /\ n.data = m.data
  BY DEF ForkTable
<1>2. MachineType(m)
  BY DEF Good
<1>3. \A v \in Page : shared[v] = Forked(m.tab[p][v])
  OBVIOUS
<1>4. \A v \in Page : m.tab[p][v] = Absent => shared[v] = Absent
  BY <1>3 DEF Forked
<1>5. \A v \in Page : m.tab[p][v] # Absent =>
          /\ shared[v] \in Entry /\ shared[v] # Absent /\ shared[v].frame = m.tab[p][v].frame
          /\ ~shared[v].rw /\ shared[v].user = m.tab[p][v].user
  BY <1>3, EntryFacts, ForkedFacts
<1>6. shared \in [Page -> Entry \cup {Absent}]
  <2>1. \A v \in Page : shared[v] \in Entry \cup {Absent}
    BY <1>4, <1>5
  <2>2. shared = [v \in Page |-> shared[v]]
    OBVIOUS
  <2>. HIDE DEF shared
  <2>. QED
    BY <2>1, <2>2
<1>7. mapped \in SUBSET Page /\ \A v \in mapped : m.tab[p][v] # Absent
  BY DEF Mapped
<1>8. /\ FramesOf(m, p, mapped) \in SUBSET Frame
      /\ \A f \in Frame : f \in FramesOf(m, p, mapped) <=> Shows(m, p, f)
  <2>1. /\ FramesOf(m, p, mapped) \in SUBSET Frame
        /\ \A f \in Frame : f \in FramesOf(m, p, mapped) <=> f[1] \in mapped /\ Shows(m, p, f)
    BY <1>7, FramesOfPages
  <2>2. \A f \in Frame : Shows(m, p, f) => f[1] \in mapped
    BY Frames DEF Shows, Mapped
  <2>. QED
    BY <2>1, <2>2
<1>9. n.count = [f \in Frame |-> IF Shows(m, p, f) THEN m.count[f] + 1 ELSE m.count[f]]
  <2>1. /\ DOMAIN more = FramesOf(m, p, mapped)
        /\ \A f \in FramesOf(m, p, mapped) : more[f] = m.count[f] + 1
    OBVIOUS
  <2>2. DOMAIN m.count = Frame
    BY <1>2 DEF MachineType
  <2>. HIDE DEF more, mapped
  <2>3. Over(more, m.count) = [f \in Frame |-> IF f \in FramesOf(m, p, mapped) THEN m.count[f] + 1
                                               ELSE m.count[f]]
    BY <2>1, <2>2 DEF Over
  <2>. QED
    BY <1>1, <1>8, <2>3
<1>10. /\ k.tab = [m.tab EXCEPT ![p] = shared] /\ k.count = m.count /\ k.data = m.data
  OBVIOUS
<1>. HIDE DEF shared, k, mapped, more
<1>11. k.tab[p] = shared /\ \A q \in Space \ {p} : k.tab[q] = m.tab[q]
  BY <1>2, <1>10 DEF MachineType
<1>12. MachineType(k)
  BY <1>2, <1>6, <1>10 DEF MachineType
<1>13. \A f \in Frame : f[1] \in Page
  BY Frames
<1>14. \A f \in Frame : Shows(k, p, f) <=> Shows(m, p, f)
  BY <1>4, <1>5, <1>11, <1>13 DEF Shows
<1>15. \A v \in Page : EntryOK(shared[v], v)
  <2>1. SUFFICES ASSUME NEW v \in Page, m.tab[p][v] # Absent PROVE EntryOK(shared[v], v)
    BY <1>4 DEF EntryOK
  <2>2. /\ m.tab[p][v].frame[1] = v
        /\ v = KPage => m.tab[p][v].frame = KernelFrame /\ ~m.tab[p][v].user
    BY <2>1, EntryFacts
  <2>3. shared[v].frame = m.tab[p][v].frame /\ ~shared[v].rw /\ shared[v].user = m.tab[p][v].user
    BY <1>5, <2>1
  <2>. QED
    BY <2>2, <2>3 DEF EntryOK
<1>16. \A f \in Frame : Shows(k, p, f) => ~k.tab[p][f[1]].rw
  BY <1>5, <1>11, <1>13, <1>14 DEF Shows
<1>17. Good(k, extra)
  <2>1. \A f \in Frame : k.count[f] + Holds(m, p, f) = m.count[f] + Holds(k, p, f)
    BY <1>10, <1>14 DEF Holds
  <2>2. \A v \in Page : EntryOK(k.tab[p][v], v)
    BY <1>11, <1>15
  <2>3. ASSUME NEW f \in Frame \ {KernelFrame}, NEW q \in Space \ {p}, Shows(k, p, f), Shows(m, q, f)
        PROVE  ~k.tab[p][f[1]].rw /\ ~m.tab[q][f[1]].rw
    BY <1>14, <1>16, <2>3 DEF Good, Unshared
  <2>. QED
    BY <1>11, <1>12, <2>1, <2>2, <2>3, StepGood
<1>18. n.tab[c] = shared /\ \A q \in Space \ {c} : n.tab[q] = k.tab[q]
  BY <1>1, <1>2, <1>10 DEF MachineType
<1>19. \A f \in Frame : ~Shows(k, c, f) /\ (Shows(n, c, f) <=> Shows(k, p, f))
  BY <1>11, <1>13, <1>18 DEF Shows, EmptyTable
<1>20. n.tab \in [Space -> [Page -> Entry \cup {Absent}]]
  BY <1>1, <1>2, <1>6 DEF MachineType
<1>21. n.count \in [Frame -> Nat]
  BY <1>2, <1>9 DEF MachineType
<1>22. MachineType(n)
  BY <1>1, <1>2, <1>20, <1>21 DEF MachineType
<1>23. Good(n, extra)
  <2>1. \A f \in Frame : n.count[f] + Holds(k, c, f) = k.count[f] + Holds(n, c, f)
    <3>1. \A f \in Frame : m.count[f] \in Nat
      BY <1>2 DEF MachineType
    <3>2. \A f \in Frame : n.count[f] = IF Shows(m, p, f) THEN m.count[f] + 1 ELSE m.count[f]
      BY <1>9
    <3>. QED
      BY <1>10, <1>14, <1>19, <3>1, <3>2 DEF Holds
  <2>2. \A v \in Page : EntryOK(n.tab[c][v], v)
    BY <1>15, <1>18
  <2>3. ASSUME NEW f \in Frame \ {KernelFrame}, NEW q \in Space \ {c}, Shows(n, c, f), Shows(k, q, f)
        PROVE  ~n.tab[c][f[1]].rw /\ ~k.tab[q][f[1]].rw
    <3>1. Shows(k, p, f) /\ ~k.tab[p][f[1]].rw /\ n.tab[c] = k.tab[p]
      BY <1>11, <1>16, <1>18, <1>19, <2>3
    <3>2. CASE q = p
      BY <3>1, <3>2
    <3>3. CASE q # p
      BY <1>17, <2>3, <3>1, <3>3 DEF Good, Unshared
    <3>. QED
      BY <3>1, <3>2, <3>3
  <2>. QED
    BY <1>17, <1>18, <1>22, <2>1, <2>2, <2>3, StepGood
<1>24. \A v \in Page : View(n, p, v) = View(m, p, v) /\ View(n, c, v) = View(m, p, v)
  <2>1. n.tab[p] = shared /\ n.tab[c] = shared /\ n.data = m.data
    BY <1>1, <1>11, <1>18
  <2>. QED
    BY <1>4, <1>5, <2>1 DEF View
<1>25. \A q \in Space \ {p, c} : n.tab[q] = m.tab[q] /\ \A v \in Page : View(n, q, v) = View(m, q, v)
  BY <1>1, <1>11, <1>18 DEF View
<1>26. \A v \in Page : n.tab[p][v] = Forked(m.tab[p][v]) /\ n.tab[c][v] = Forked(m.tab[p][v])
  BY <1>3, <1>11, <1>18
<1>. QED
  BY <1>23, <1>24, <1>25, <1>26

\* The saved table takes the place of the process's.
LEMMA SavedGood ==
    ASSUME NEW m, NEW extra, Good(m, extra), extra \in [Frame -> Nat],
           NEW p \in Proc, m.tab[OldSpace] = EmptyTable,
           NEW n, n = Saved(m, p)
    PROVE  /\ Good(n, extra)
           /\ n.tab[p] = EmptyTable
           /\ \A q \in Proc \ {p} : n.tab[q] = m.tab[q] /\ \A v \in Page : View(n, q, v) = View(m, q, v)
<1>. DEFINE k == [tab |-> [m.tab EXCEPT ![OldSpace] = m.tab[p]]]
<1>0. p \in Space /\ OldSpace \in Space /\ p # OldSpace /\ MachineType(m)
  BY Spaces, AddressSpaceAssumption DEF Good
<1>1. /\ n.tab = [m.tab EXCEPT ![OldSpace] = m.tab[p], ![p] = EmptyTable]
      /\ n.count = m.count /\ n.data = m.data
  BY DEF Saved
<1>2. k.tab = [m.tab EXCEPT ![OldSpace] = m.tab[p]]
  OBVIOUS
<1>. HIDE DEF k
<1>3. /\ k.tab[OldSpace] = m.tab[p] /\ \A q \in Space \ {OldSpace} : k.tab[q] = m.tab[q]
      /\ n.tab[p] = EmptyTable /\ \A q \in Space \ {p} : n.tab[q] = k.tab[q]
  BY <1>0, <1>1, <1>2 DEF MachineType
<1>4. /\ n.tab[OldSpace] = m.tab[p] /\ \A q \in Space \ {OldSpace, p} : n.tab[q] = m.tab[q]
      /\ EmptyTable \in [Page -> Entry \cup {Absent}] /\ \A v \in Page : EmptyTable[v] = Absent
  BY <1>0, <1>3 DEF EmptyTable
<1>5. n.tab \in [Space -> [Page -> Entry \cup {Absent}]]
  BY <1>0, <1>1, <1>4 DEF MachineType
<1>6. MachineType(n)
  BY <1>0, <1>1, <1>5 DEF MachineType
<1>7. EntriesOK(n)
  <2>1. SUFFICES ASSUME NEW q \in Space, NEW v \in Page PROVE EntryOK(n.tab[q][v], v)
    BY DEF EntriesOK
  <2>2. \A a \in Space : EntryOK(m.tab[a][v], v)
    BY DEF Good, EntriesOK
  <2>3. CASE q = p
    BY <1>3, <1>4, <2>3 DEF EntryOK
  <2>4. CASE q = OldSpace
    BY <1>0, <1>4, <2>2, <2>4
  <2>5. CASE q # p /\ q # OldSpace
    BY <1>4, <2>2, <2>5
  <2>. QED
    BY <2>3, <2>4, <2>5
<1>8. \A f \in Frame : f[1] \in Page
  BY Frames
<1>9. \A f \in Frame : /\ ~Shows(m, OldSpace, f) /\ ~Shows(n, p, f)
                       /\ Shows(n, OldSpace, f) <=> Shows(m, p, f)
                       /\ Shows(k, OldSpace, f) <=> Shows(m, p, f)
                       /\ Shows(k, p, f) <=> Shows(m, p, f)
                       /\ \A q \in Space \ {OldSpace, p} : Shows(n, q, f) <=> Shows(m, q, f)
  BY <1>0, <1>3, <1>4, <1>8 DEF Shows
<1>10. Counted(n, extra)
  <2>1. SUFFICES ASSUME NEW f \in Frame
                 PROVE  n.count[f] = Cardinality(Sharers(n, f)) + extra[f]
    BY DEF Counted
  <2>2. Cardinality(Sharers(k, f)) + Holds(m, OldSpace, f) = Cardinality(Sharers(m, f)) + Holds(k, OldSpace, f)
    BY <1>0, <1>3, OneTable
  <2>3. Cardinality(Sharers(n, f)) + Holds(k, p, f) = Cardinality(Sharers(k, f)) + Holds(n, p, f)
    BY <1>0, <1>3, OneTable
  <2>4. /\ Holds(m, OldSpace, f) = 0 /\ Holds(n, p, f) = 0
        /\ Holds(k, OldSpace, f) = Holds(k, p, f) /\ Holds(k, p, f) \in Nat
    BY <1>9 DEF Holds
  <2>5. /\ Cardinality(Sharers(m, f)) \in Nat /\ Cardinality(Sharers(n, f)) \in Nat
        /\ Cardinality(Sharers(k, f)) \in Nat
    BY SharersType
  <2>6. Cardinality(Sharers(n, f)) = Cardinality(Sharers(m, f))
    <3>. HIDE DEF Holds
    <3>. QED
      BY <2>2, <2>3, <2>4, <2>5
  <2>7. m.count[f] = Cardinality(Sharers(m, f)) + extra[f]
    BY DEF Good, Counted
  <2>. QED
    BY <1>1, <2>6, <2>7
<1>11. Unshared(n)
  <2>1. SUFFICES ASSUME NEW f \in Frame \ {KernelFrame}, NEW a \in Space, NEW b \in Space,
                        a # b, Shows(n, a, f), Shows(n, b, f)
                 PROVE  ~n.tab[a][f[1]].rw
    BY DEF Unshared
  <2>2. \A x, y \in Space : x # y /\ Shows(m, x, f) /\ Shows(m, y, f) => ~m.tab[x][f[1]].rw
    BY DEF Good, Unshared
  <2>3. a # p /\ b # p
    BY <1>9, <2>1
  <2>4. CASE a = OldSpace
    <3>1. Shows(m, p, f) /\ Shows(m, b, f)
      BY <1>9, <2>1, <2>3, <2>4
    <3>2. ~m.tab[p][f[1]].rw
      BY <1>0, <2>2, <2>3, <3>1
    <3>. QED
      BY <1>4, <2>4, <3>2
  <2>5. CASE b = OldSpace
    <3>1. Shows(m, p, f) /\ Shows(m, a, f)
      BY <1>9, <2>1, <2>3, <2>5
    <3>2. ~m.tab[a][f[1]].rw
      BY <1>0, <2>2, <2>3, <3>1
    <3>. QED
      BY <1>4, <2>1, <2>3, <2>5, <3>2
  <2>6. CASE a # OldSpace /\ b # OldSpace
    <3>1. Shows(m, a, f) /\ Shows(m, b, f) /\ n.tab[a] = m.tab[a]
      BY <1>4, <1>9, <2>1, <2>3, <2>6
    <3>. QED
      BY <2>1, <2>2, <3>1
  <2>. QED
    BY <2>4, <2>5, <2>6
<1>12. \A q \in Proc \ {p} : n.tab[q] = m.tab[q] /\ \A v \in Page : View(n, q, v) = View(m, q, v)
  <2>1. \A q \in Proc \ {p} : n.tab[q] = m.tab[q]
    BY <1>4, Spaces, AddressSpaceAssumption
  <2>. QED
    BY <1>1, <2>1 DEF View
<1>. QED
  BY <1>3, <1>6, <1>7, <1>10, <1>11, <1>12 DEF Good

-----------------------------------------------------------------------------
(* The operations that system calls, faults and thread ends are made of.   *)

\* Only p's memory changes, what p sees of the pages it keeps does not, and p
\* keeps the pages of the kernel.
OwnStep(m, n, p, extra) ==
    /\ Good(n, extra) /\ Apart(m, n, p)
    /\ m.tab[p][KPage] # Absent => n.tab[p][KPage] # Absent
    /\ \A v \in Page : View(m, p, v) # Absent /\ View(n, p, v) # Absent
                       => View(n, p, v) = View(m, p, v)

\* An area that the search finds consists of unused pages of the program.
LEMMA AreaFacts ==
    ASSUME NEW m, NEW p, NEW k \in Nat \ {0}, Areas(m, p, k) # {}, NEW a, a = Min(Areas(m, p, k))
    PROVE  /\ a \in Virt /\ a .. (a + k - 1) \in SUBSET Virt
           /\ \A v \in a .. (a + k - 1) : m.tab[p][v] = Absent
<1>1. Areas(m, p, k) \in SUBSET Nat
  BY Frames DEF Areas
<1>2. a \in Areas(m, p, k)
  BY <1>1, MinNat
<1>3. a \in Virt /\ a + k - 1 \in Virt /\ \A v \in a .. (a + k - 1) : m.tab[p][v] = Absent
  BY <1>2 DEF Areas
<1>4. Pages \in Nat
  BY AddressSpaceAssumption
<1>. QED
  BY <1>3, <1>4 DEF Virt

\* A page nobody has written to has a content.
LEMMA BlankFacts ==
    /\ \A v \in Page : Blank[v] \in Value
    /\ Fresh \in Value
BY DEF Blank, Value

\* Nothing changes.
LEMMA OwnStutter ==
    ASSUME NEW m, NEW extra, Good(m, extra), NEW p \in Space
    PROVE  OwnStep(m, m, p, extra)
BY DEF OwnStep, Apart

\* Pages are allocated, if there is an area for them.
LEMMA TryAllocateGood ==
    ASSUME NEW m, NEW extra, Good(m, extra), Supply(extra), NEW p \in Space,
           NEW k \in Nat, NEW n, n = TryAllocate(m, p, k)
    PROVE  OwnStep(m, n, p, extra)
<1>1. CASE k = 0 \/ Areas(m, p, k) = {}
  <2>1. n = m
    BY <1>1 DEF TryAllocate
  <2>. QED
    BY <2>1, OwnStutter
<1>2. CASE k # 0 /\ Areas(m, p, k) # {}
  <2>. DEFINE a == Min(Areas(m, p, k))
              s == a .. (a + k - 1)
  <2>1. s \in SUBSET Virt /\ \A v \in s : m.tab[p][v] = Absent
    BY <1>2, AreaFacts
  <2>2. n = MapNew(m, p, s, Blank)
    BY <1>2 DEF TryAllocate
  <2>. HIDE DEF s
  <2>3. \A v \in s : Blank[v] \in Value
    BY <2>1, Frames, BlankFacts
  <2>4. /\ Good(n, extra) /\ Apart(m, n, p)
        /\ \A v \in Page : View(n, p, v) = IF v \in s THEN Blank[v] ELSE View(m, p, v)
        /\ \A v \in Page \ s : n.tab[p][v] = m.tab[p][v]
    <3>1. Grown(m, n, p, s, Blank, extra)
      BY <2>1, <2>2, <2>3, MapNewGood
    <3>. QED
      BY <3>1 DEF Grown
  <2>5. \A v \in s : View(m, p, v) = Absent
    BY <2>1 DEF View
  <2>6. KPage \in Page \ s
    BY <2>1, Frames
  <2>. QED
    BY <2>4, <2>5, <2>6 DEF OwnStep
<1>. QED
  BY <1>1, <1>2

\* Pages are released as far as they are pages of the program.
LEMMA ReleaseUserGood ==
    ASSUME NEW m, NEW extra, Good(m, extra), extra \in [Frame -> Nat], NEW p \in Space,
           NEW pages \in SUBSET Page, NEW n, n = ReleaseUser(m, p, pages)
    PROVE  OwnStep(m, n, p, extra)
<1>. DEFINE s == {k \in pages : UserPage(m, p, k)}
<1>1. s \in SUBSET Page /\ \A v \in s : m.tab[p][v] # Absent
  BY DEF UserPage
<1>2. n = Unmap(m, p, s)
  BY DEF ReleaseUser
<1>3. m.tab[p][KPage] # Absent => KPage \notin s
  BY EntryFacts, Frames DEF UserPage
<1>. HIDE DEF s
<1>4. /\ Good(n, extra) /\ Apart(m, n, p)
      /\ \A v \in Page : View(n, p, v) = IF v \in s THEN Absent ELSE View(m, p, v)
      /\ \A v \in Page : n.tab[p][v] = IF v \in s THEN Absent ELSE m.tab[p][v]
  BY <1>1, <1>2, UnmapGood
<1>. QED
  BY <1>3, <1>4, Frames DEF OwnStep

\* The whole table of p is released.
LEMMA ReleaseTableGood ==
    ASSUME NEW m, NEW extra, Good(m, extra), extra \in [Frame -> Nat], NEW p \in Space,
           NEW n, n = ReleaseTable(m, p)
    PROVE  Good(n, extra) /\ Apart(m, n, p) /\ n.tab[p] = EmptyTable
<1>. DEFINE s == Mapped(m, p)
<1>1. s \in SUBSET Page /\ (\A v \in s : m.tab[p][v] # Absent) /\ \A v \in Page \ s : m.tab[p][v] = Absent
  BY DEF Mapped
<1>2. n = Unmap(m, p, s)
  BY DEF ReleaseTable
<1>. HIDE DEF s
<1>3. /\ Good(n, extra) /\ Apart(m, n, p)
      /\ \A v \in Page : n.tab[p][v] = IF v \in s THEN Absent ELSE m.tab[p][v]
  BY <1>1, <1>2, UnmapGood
<1>4. \A v \in Page : n.tab[p][v] = Absent
  BY <1>1, <1>3
<1>5. n.tab[p] \in [Page -> Entry \cup {Absent}]
  BY <1>3 DEF Good, MachineType
<1>6. n.tab[p] = EmptyTable
  BY <1>4, <1>5 DEF EmptyTable
<1>. QED
  BY <1>3, <1>6

\* The stacks of threads are released, all of them there and all different.
LEMMA ReleaseStacksGood ==
    ASSUME NEW m, NEW extra, Good(m, extra), extra \in [Frame -> Nat], NEW p \in Space,
           NEW s \in Seq(Virt), ~StackMissing(m, p, s), NEW n, n = ReleaseStacks(m, p, s)
    PROVE  OwnStep(m, n, p, extra)
<1>. DEFINE t == {s[i] : i \in DOMAIN s}
<1>1. t \in SUBSET Virt /\ \A v \in t : m.tab[p][v] # Absent
  <2>1. \A i \in DOMAIN s : s[i] \in Virt
    BY ElementOfSeq, LenProperties
  <2>2. \A i \in DOMAIN s : m.tab[p][s[i]] # Absent
    BY DEF StackMissing
  <2>. QED
    BY <2>1, <2>2
<1>2. n = Unmap(m, p, t)
  BY DEF ReleaseStacks
<1>. HIDE DEF t
<1>3. t \in SUBSET Page /\ KPage \notin t
  BY <1>1, Frames
<1>4. /\ Good(n, extra) /\ Apart(m, n, p)
      /\ \A v \in Page : View(n, p, v) = IF v \in t THEN Absent ELSE View(m, p, v)
      /\ \A v \in Page : n.tab[p][v] = IF v \in t THEN Absent ELSE m.tab[p][v]
  BY <1>1, <1>2, <1>3, UnmapGood
<1>. QED
  BY <1>3, <1>4, Frames DEF OwnStep

\* The kernel maps user pages: what p may write is p's own then.
LEMMA MapUserGood ==
    ASSUME NEW m, NEW extra, Good(m, extra), Supply(extra), NEW p \in Space,
           NEW pages \in SUBSET Page, NEW n, n = MapUser(m, p, pages)
    PROVE  /\ Good(n, extra) /\ Apart(m, n, p)
           /\ \A v \in Page : View(n, p, v) = View(m, p, v)
           /\ \A v \in Page : m.tab[p][v] # Absent => n.tab[p][v] # Absent
           /\ (\A k \in pages : Writable(m, p, k)) =>
                 \A k \in pages : k \in Virt /\ n.tab[p][k] # Absent /\ n.tab[p][k].rw
<1>. DEFINE valid == {k \in pages : \A j \in pages : j <= k => Writable(m, p, j)}
            s == {k \in valid : ~m.tab[p][k].rw}
<1>1. \A k \in Page : Writable(m, p, k) => m.tab[p][k] # Absent /\ k \in Virt
  <2>1. ASSUME NEW k \in Page, Writable(m, p, k) PROVE m.tab[p][k] # Absent /\ k # KPage
    <3>1. m.tab[p][k] # Absent /\ m.tab[p][k].user
      BY <2>1 DEF Writable, UserPage
    <3>. QED
      BY <3>1, EntryFacts
  <2>. QED
    BY <2>1 DEF Page
<1>2. valid \in SUBSET Page /\ \A k \in valid : Writable(m, p, k)
  <2>1. \A k \in Page : k <= k
    BY AddressSpaceAssumption DEF Page, Virt, KPage
  <2>. QED
    BY <2>1
<1>3. s \in SUBSET Virt /\ \A v \in s : m.tab[p][v] # Absent
  BY <1>1, <1>2
<1>4. n = Duplicate(m, p, s)
  BY DEF MapUser
<1>5. (\A k \in pages : Writable(m, p, k)) => \A k \in pages : k \in s \/ m.tab[p][k].rw
  OBVIOUS
<1>. HIDE DEF s
<1>6. /\ Good(n, extra) /\ Apart(m, n, p)
      /\ \A v \in Page : View(n, p, v) = View(m, p, v)
      /\ \A v \in s : n.tab[p][v] # Absent /\ n.tab[p][v].rw
      /\ \A v \in Page \ s : n.tab[p][v] = m.tab[p][v]
  BY <1>3, <1>4, DuplicateGood
<1>7. \A v \in Page : m.tab[p][v] # Absent => n.tab[p][v] # Absent
  BY <1>6
<1>8. ASSUME \A k \in pages : Writable(m, p, k), NEW k \in pages
      PROVE  k \in Virt /\ n.tab[p][k] # Absent /\ n.tab[p][k].rw
  <2>1. m.tab[p][k] # Absent /\ k \in Virt /\ k \in Page
    BY <1>1, <1>8
  <2>2. CASE k \in s
    BY <1>6, <2>1, <2>2
  <2>3. CASE k \notin s
    BY <1>5, <1>6, <1>8, <2>1, <2>3
  <2>. QED
    BY <2>2, <2>3
<1>. QED
  BY <1>6, <1>7, <1>8

\* p may write to the pages w, x is written to them, and what p sees then.
Own(m, p, w) == w \in SUBSET Virt /\ \A v \in w : m.tab[p][v] # Absent /\ m.tab[p][v].rw

IsWrite(m, n, p, w, x) ==
    /\ n.tab = m.tab /\ n.count = m.count
    /\ n.data = [f \in Frame |-> IF f[1] \in w /\ Shows(m, p, f) THEN x ELSE m.data[f]]

Overwritten(m, n, p, w, x, extra) ==
    /\ Good(n, extra) /\ Apart(m, n, p)
    /\ \A v \in Page : View(n, p, v) = IF v \in w THEN x ELSE View(m, p, v)

\* A write to own pages is seen by the writer alone.
LEMMA WriteGood ==
    ASSUME NEW m, NEW extra, Good(m, extra), NEW p \in Space, NEW w, Own(m, p, w),
           NEW x \in Value, NEW n, IsWrite(m, n, p, w, x)
    PROVE  Overwritten(m, n, p, w, x, extra)
<1>. USE DEF Own, IsWrite
<1>1. \A q \in Space, f \in Frame : Shows(n, q, f) <=> Shows(m, q, f)
  BY DEF Shows
<1>2. \A f \in Frame : Sharers(n, f) = Sharers(m, f)
  BY <1>1 DEF Sharers
<1>3. Good(n, extra)
  <2>1. MachineType(n)
    BY DEF Good, MachineType
  <2>2. EntriesOK(n)
    BY DEF Good, EntriesOK
  <2>3. Counted(n, extra)
    BY <1>2 DEF Good, Counted
  <2>4. Unshared(n)
    BY <1>1 DEF Good, Unshared
  <2>. QED
    BY <2>1, <2>2, <2>3, <2>4 DEF Good
<1>4. Apart(m, n, p)
  <2>1. ASSUME NEW f \in Frame, NEW q \in Space \ {p}, Shows(m, q, f) PROVE n.data[f] = m.data[f]
    <3>1. SUFFICES ASSUME f[1] \in w, Shows(m, p, f) PROVE FALSE
      OBVIOUS
    <3>2. m.tab[p][f[1]].rw
      BY <3>1
    <3>3. f # KernelFrame
      BY <3>1, Frames
    <3>. QED
      BY <2>1, <3>1, <3>2, <3>3 DEF Good, Unshared
  <2>. QED
    BY <2>1, ApartFromData
<1>5. ASSUME NEW v \in Page PROVE View(n, p, v) = IF v \in w THEN x ELSE View(m, p, v)
  <2>1. CASE m.tab[p][v] = Absent
    BY <2>1 DEF View
  <2>2. CASE m.tab[p][v] # Absent
    <3>1. /\ m.tab[p][v].frame \in Frame /\ m.tab[p][v].frame[1] = v
          /\ Shows(m, p, m.tab[p][v].frame)
      BY <2>2, EntryFacts
    <3>. QED
      BY <2>2, <3>1 DEF View
  <2>. QED
    BY <2>1, <2>2
<1>. QED
  BY <1>3, <1>4, <1>5 DEF Overwritten

\* The kernel takes references to frames for itself.
IsKeep(m, n, more) ==
    /\ n.tab = m.tab /\ n.data = m.data
    /\ n.count = [f \in Frame |-> IF f \in more THEN m.count[f] + 1 ELSE m.count[f]]

\* Counts stay exact when the kernel takes references.
LEMMA KeepGood ==
    ASSUME NEW m, NEW extra, Good(m, extra), extra \in [Frame -> Nat],
           NEW more, NEW n, NEW extra2, IsKeep(m, n, more),
           extra2 = [f \in Frame |-> IF f \in more THEN extra[f] + 1 ELSE extra[f]]
    PROVE  Good(n, extra2)
<1>. USE DEF IsKeep
<1>1. \A q \in Space, f \in Frame : Shows(n, q, f) <=> Shows(m, q, f)
  BY DEF Shows
<1>2. \A f \in Frame : Sharers(n, f) = Sharers(m, f)
  BY <1>1 DEF Sharers
<1>3. MachineType(n)
  BY DEF Good, MachineType
<1>4. EntriesOK(n)
  BY DEF Good, EntriesOK
<1>5. Counted(n, extra2)
  <2>1. SUFFICES ASSUME NEW f \in Frame
                 PROVE  n.count[f] = Cardinality(Sharers(n, f)) + extra2[f]
    BY DEF Counted
  <2>2. m.count[f] = Cardinality(Sharers(m, f)) + extra[f] /\ Cardinality(Sharers(m, f)) \in Nat
    BY SharersType DEF Good, Counted
  <2>3. extra[f] \in Nat
    OBVIOUS
  <2>. QED
    BY <1>2, <2>2, <2>3
<1>6. Unshared(n)
  BY <1>1 DEF Good, Unshared
<1>. QED
  BY <1>3, <1>4, <1>5, <1>6 DEF Good

-----------------------------------------------------------------------------
(* A program takes the place of another one.                               *)

\* The other processes keep their tables and see what they saw.
OthersKept(m, n, p) ==
    \A q \in Proc \ {p} : n.tab[q] = m.tab[q] /\ \A v \in Page : View(n, q, v) = View(m, q, v)

\* The table of p, or the saved one, is not that of another process.
LEMMA ApartKeeps ==
    ASSUME NEW m, NEW n, NEW p \in Proc, NEW q \in {p, OldSpace}, Apart(m, n, q)
    PROVE  OthersKept(m, n, p)
BY Spaces, AddressSpaceAssumption DEF Apart, OthersKept

\* Others are left alone by two operations after another.
LEMMA KeptTwice ==
    ASSUME NEW k, NEW m, NEW n, NEW p, OthersKept(k, m, p), OthersKept(m, n, p)
    PROVE  OthersKept(k, n, p)
BY DEF OthersKept

\* The pages of an image are mapped into an empty address space.
LEMMA LoadGood ==
    ASSUME NEW m, NEW extra, Good(m, extra), Supply(extra), NEW p \in Space,
           NEW image \in Images, \A v \in Virt : m.tab[p][v] = Absent,
           NEW n, n = Load(m, p, image)
    PROVE  /\ Good(n, extra) /\ Apart(m, n, p)
           /\ n.tab[p][KPage] = m.tab[p][KPage]
<1>1. image \in SUBSET Virt
  BY AddressSpaceAssumption
<1>2. n = MapNew(m, p, image, Blank)
  BY DEF Load
<1>3. \A v \in image : m.tab[p][v] = Absent
  BY <1>1
<1>4. \A v \in image : Blank[v] \in Value
  BY <1>1, BlankFacts, Frames
<1>5. /\ Good(n, extra) /\ Apart(m, n, p)
      /\ \A v \in Page \ image : n.tab[p][v] = m.tab[p][v]
  <2>1. Grown(m, n, p, image, Blank, extra)
    BY <1>1, <1>2, <1>3, <1>4, MapNewGood
  <2>. QED
    BY <2>1 DEF Grown
<1>6. KPage \in Page \ image
  BY <1>1, Frames
<1>. QED
  BY <1>5, <1>6

\* A block of the old program is copied to the new one.
LEMMA CopyBlockGood ==
    ASSUME NEW m, NEW extra, Good(m, extra), Supply(extra), NEW p \in Proc,
           NEW v \in {0} \cup Blocks, NEW n, n = CopyBlock(m, p, v)
    PROVE  /\ Good(n, extra) /\ OthersKept(m, n, p)
           /\ n.tab[p][KPage] = m.tab[p][KPage]
<1>0. p \in Space /\ OldSpace \in Space /\ p # OldSpace
  BY Spaces, AddressSpaceAssumption
<1>1. CASE v = 0 \/ ~Writable(m, OldSpace, v)
  <2>1. n = m
    BY <1>1 DEF CopyBlock
  <2>. QED
    BY <2>1 DEF OthersKept
<1>2. CASE v # 0 /\ Writable(m, OldSpace, v)
  <2>. DEFINE d == MapUser(m, OldSpace, {v})
              x == d.data[d.tab[OldSpace][v].frame]
              a == Min(Areas(d, p, 1))
  <2>1. v \in Page /\ {v} \in SUBSET Page
    BY <1>2, AddressSpaceAssumption, Frames
  <2>2. /\ Good(d, extra) /\ Apart(m, d, OldSpace)
        /\ m.tab[OldSpace][v] # Absent => d.tab[OldSpace][v] # Absent
    BY <1>0, <2>1, MapUserGood
  <2>3. OthersKept(m, d, p) /\ d.tab[p] = m.tab[p]
    BY <1>0, <2>2, ApartKeeps DEF Apart
  <2>4. d.tab[OldSpace][v] # Absent
    BY <1>2, <2>2 DEF Writable, UserPage
  <2>5. x \in Value
    <3>1. d.tab[OldSpace][v].frame \in Frame
      BY <1>0, <2>1, <2>2, <2>4, EntryFacts
    <3>. QED
      BY <2>2, <3>1 DEF Good, MachineType
  <2>6. n = IF Areas(d, p, 1) = {} THEN d ELSE MapNew(d, p, {a}, [k \in Page |-> x])
    BY <1>2 DEF CopyBlock
  <2>. HIDE DEF d, x
  <2>7. CASE Areas(d, p, 1) = {}
    BY <2>2, <2>3, <2>6, <2>7
  <2>8. CASE Areas(d, p, 1) # {}
    <3>1. /\ a \in Virt /\ a .. (a + 1 - 1) \in SUBSET Virt
          /\ \A k \in a .. (a + 1 - 1) : d.tab[p][k] = Absent
      BY <2>8, AreaFacts
    <3>2. a \in Nat
      BY <3>1, Frames
    <3>. HIDE DEF a
    <3>. DEFINE t == {a}
                content == [k \in Page |-> x]
    <3>3. t \in SUBSET Virt /\ KPage \in Page \ t /\ \A k \in t : d.tab[p][k] = Absent
      BY <3>1, <3>2, Frames
    <3>4. \A k \in t : content[k] \in Value
      BY <2>5, <3>1, Frames
    <3>5. n = MapNew(d, p, t, content)
      BY <2>6, <2>8
    <3>. HIDE DEF t, content
    <3>6. /\ Good(n, extra) /\ Apart(d, n, p)
          /\ \A k \in Page \ t : n.tab[p][k] = d.tab[p][k]
      <4>1. Grown(d, n, p, t, content, extra)
        BY <1>0, <2>2, <3>3, <3>4, <3>5, MapNewGood
      <4>. QED
        BY <4>1 DEF Grown
    <3>7. OthersKept(m, n, p)
      BY <2>3, <3>6, ApartKeeps, KeptTwice
    <3>8. n.tab[p][KPage] = m.tab[p][KPage]
      BY <2>3, <3>3, <3>6
    <3>. QED
      BY <3>6, <3>7, <3>8
  <2>. QED
    BY <2>7, <2>8
<1>. QED
  BY <1>1, <1>2

\* The new address space of p, and nothing left of the old one.
LEMMA ReplacedGood ==
    ASSUME NEW m, NEW extra, Good(m, extra), Supply(extra), NEW p \in Proc,
           m.tab[OldSpace] = EmptyTable, NEW image \in Images,
           NEW args \in {0} \cup Blocks, NEW env \in {0} \cup Blocks,
           NEW n, n = ReleaseTable(CopyBlock(CopyBlock(
                         Load(NewTable(Saved(m, p), p), p, image), p, args), p, env), OldSpace)
    PROVE  /\ Good(n, extra) /\ OthersKept(m, n, p)
           /\ n.tab[p][KPage] # Absent /\ n.tab[OldSpace] = EmptyTable
<1>. DEFINE a == Saved(m, p)
            b == NewTable(a, p)
            c == Load(b, p, image)
            d == CopyBlock(c, p, args)
            e == CopyBlock(d, p, env)
<1>0. /\ p \in Space /\ OldSpace \in Space /\ p # OldSpace /\ extra \in [Frame -> Nat]
  BY Spaces, AddressSpaceAssumption DEF Supply
<1>1. Good(a, extra) /\ OthersKept(m, a, p) /\ a.tab[p] = EmptyTable
  BY <1>0, SavedGood DEF OthersKept
<1>2. Good(b, extra) /\ Apart(a, b, p) /\ b.tab[p][KPage] # Absent /\ \A v \in Virt : b.tab[p][v] = Absent
  <2>. HIDE DEF a
  <2>. QED
    BY <1>0, <1>1, NewTableGood
<1>3. Good(c, extra) /\ Apart(b, c, p) /\ c.tab[p][KPage] # Absent
  <2>. HIDE DEF b
  <2>1. Good(c, extra) /\ Apart(b, c, p) /\ c.tab[p][KPage] = b.tab[p][KPage]
    BY <1>0, <1>2, LoadGood
  <2>. QED
    BY <1>2, <2>1
<1>4. Good(d, extra) /\ OthersKept(c, d, p) /\ d.tab[p][KPage] # Absent
  <2>. HIDE DEF c
  <2>1. Good(d, extra) /\ OthersKept(c, d, p) /\ d.tab[p][KPage] = c.tab[p][KPage]
    BY <1>3, CopyBlockGood
  <2>. QED
    BY <1>3, <2>1
<1>5. Good(e, extra) /\ OthersKept(d, e, p) /\ e.tab[p][KPage] # Absent
  <2>. HIDE DEF d
  <2>1. Good(e, extra) /\ OthersKept(d, e, p) /\ e.tab[p][KPage] = d.tab[p][KPage]
    BY <1>4, CopyBlockGood
  <2>. QED
    BY <1>4, <2>1
<1>6. n = ReleaseTable(e, OldSpace)
  OBVIOUS
<1>. HIDE DEF a, b, c, d, e
<1>7. Good(n, extra) /\ Apart(e, n, OldSpace) /\ n.tab[OldSpace] = EmptyTable
  BY <1>0, <1>5, <1>6, ReleaseTableGood
<1>8. n.tab[p][KPage] # Absent
  BY <1>0, <1>5, <1>7 DEF Apart
<1>9. OthersKept(m, n, p)
  <2>1. OthersKept(a, b, p) /\ OthersKept(b, c, p) /\ OthersKept(e, n, p)
    BY <1>2, <1>3, <1>7, ApartKeeps
  <2>. QED
    BY <1>1, <1>4, <1>5, <2>1, KeptTwice
<1>. QED
  BY <1>7, <1>8, <1>9

-----------------------------------------------------------------------------
(* The inductive invariant, and what a step has to show.                   *)

Extra == [f \in Frame |-> kept[f] + (IF f = KernelFrame THEN 1 ELSE 0)]

Inv == TypeOK /\ Good(Mem, Extra) /\ Supply(Extra) /\ KernelPagesKept

\* The memories that the processes see, and a step as they see it.
Seen == [p \in Proc |-> [v \in Virt |->
            IF tab[p][v] = Absent THEN Absent ELSE data[tab[p][v].frame]]]

SeenStep == Memories!Next \/ UNCHANGED <<Seen, epoch>>

\* The state as a machine.
LEMMA MemFields == Mem.tab = tab /\ Mem.count = count /\ Mem.data = data
BY DEF Mem

\* A machine is good whatever record it is in.
LEMMA SameMachine ==
    ASSUME NEW m, NEW n, NEW extra, Good(m, extra),
           n.tab = m.tab, n.count = m.count, n.data = m.data
    PROVE  Good(n, extra)
<1>1. \A q \in Space, f \in Frame : Shows(n, q, f) <=> Shows(m, q, f)
  BY DEF Shows
<1>2. \A f \in Frame : Sharers(n, f) = Sharers(m, f)
  BY <1>1 DEF Sharers
<1>3. MachineType(n) /\ EntriesOK(n)
  BY DEF Good, MachineType, EntriesOK
<1>4. Counted(n, extra)
  BY <1>2 DEF Good, Counted
<1>5. Unshared(n)
  BY <1>1 DEF Good, Unshared
<1>. QED
  BY <1>3, <1>4, <1>5 DEF Good

\* What a process sees, and when it sees nothing.
LEMMA ViewType ==
    ASSUME NEW m, NEW extra, Good(m, extra), NEW q \in Space, NEW v \in Page
    PROVE  View(m, q, v) \in Value \cup {Absent} /\ (View(m, q, v) = Absent <=> m.tab[q][v] = Absent)
<1>1. CASE m.tab[q][v] = Absent
  BY <1>1 DEF View
<1>2. CASE m.tab[q][v] # Absent
  <2>1. m.data[m.tab[q][v].frame] \in Value
    BY <1>2, EntryFacts DEF Good, MachineType
  <2>. QED
    BY <1>2, <2>1, AddressSpaceAssumption DEF View
<1>. QED
  BY <1>1, <1>2

\* What the machine after a step says about the types.
LEMMA MachineTyped ==
    ASSUME NEW m, NEW extra, Good(m, extra)
    PROVE  /\ m.tab \in [Space -> [Page -> Entry \cup {Absent}]]
           /\ \A p \in Space, v \in Page : m.tab[p][v] # Absent => m.tab[p][v].frame[1] = v
           /\ m.count \in [Frame -> Nat]
           /\ m.data \in [Frame -> Value]
BY EntryFacts DEF Good, MachineType

\* The machine n becomes the state, and p has threads with stacks t.
StepTo(n, p, t) ==
    /\ Good(n, Extra') /\ Supply(Extra)' /\ kept' \in [Frame -> Nat] /\ Becomes(n)
    /\ \A q \in Proc \ {p} : n.tab[q] = tab[q]
    /\ n.tab[OldSpace] = EmptyTable
    /\ t \in Seq(Virt) /\ threads' = [threads EXCEPT ![p] = t]
    /\ t # <<>> => n.tab[p][KPage] # Absent
    /\ t = <<>> => n.tab[p] = EmptyTable
    /\ epoch' \in BOOLEAN
    /\ failed' \in {"none", "program", "stack", "execute", "room"}

\* The kernel's own references do not change with the page tables.
LEMMA ExtraKept ==
    ASSUME Inv, UNCHANGED kept
    PROVE  Extra' = Extra /\ Supply(Extra)' /\ kept' \in [Frame -> Nat]
<1>1. Extra' = Extra
  BY DEF Extra
<1>. QED
  BY <1>1 DEF Inv, TypeOK

\* A step to a good machine with the pages of the kernel keeps the invariant.
LEMMA StepInv ==
    ASSUME Inv, NEW p \in Proc, NEW n, NEW t, StepTo(n, p, t)
    PROVE  Inv'
<1>1. Good(n, Extra') /\ tab' = n.tab /\ count' = n.count /\ data' = n.data
  BY DEF StepTo, Becomes
<1>2. Mem'.tab = n.tab /\ Mem'.count = n.count /\ Mem'.data = n.data
  BY <1>1 DEF Mem
<1>3. Good(Mem', Extra')
  BY <1>1, <1>2, SameMachine
<1>4. Good(Mem, Extra)' /\ Supply(Extra)'
  BY <1>3 DEF StepTo
<1>5. threads' \in [Proc -> Seq(Virt)]
  BY DEF StepTo, Inv, TypeOK
<1>6. TypeOK'
  <2>1. /\ n.tab \in [Space -> [Page -> Entry \cup {Absent}]]
        /\ \A q \in Space, v \in Page : n.tab[q][v] # Absent => n.tab[q][v].frame[1] = v
        /\ n.count \in [Frame -> Nat]
        /\ n.data \in [Frame -> Value]
    BY <1>1, MachineTyped
  <2>2. kept' \in [Frame -> Nat] /\ epoch' \in BOOLEAN
        /\ failed' \in {"none", "program", "stack", "execute", "room"}
    BY DEF StepTo, Inv, TypeOK
  <2>. QED
    BY <1>1, <1>5, <2>1, <2>2 DEF TypeOK
<1>7. KernelPagesKept'
  <2>1. tab'[OldSpace] = EmptyTable
    BY <1>1 DEF StepTo
  <2>2. ASSUME NEW q \in Proc
        PROVE  IF threads'[q] # <<>> THEN tab'[q][KPage] # Absent /\ tab'[q][KPage].frame = KernelFrame
                                          /\ ~tab'[q][KPage].user
               ELSE tab'[q] = EmptyTable
    <3>1. CASE q = p
      <4>1. threads'[p] = t
        BY DEF StepTo, Inv, TypeOK
      <4>2. t # <<>> => n.tab[p][KPage] # Absent
        BY DEF StepTo
      <4>3. t = <<>> => n.tab[p] = EmptyTable
        BY DEF StepTo
      <4>4. n.tab[p][KPage] # Absent => n.tab[p][KPage].frame = KernelFrame /\ ~n.tab[p][KPage].user
        BY <1>1, Spaces, Frames, EntryFacts
      <4>. QED
        BY <1>1, <3>1, <4>1, <4>2, <4>3, <4>4
    <3>2. CASE q # p
      <4>1. threads'[q] = threads[q] /\ tab'[q] = tab[q]
        BY <1>1, <3>2 DEF StepTo, Inv, TypeOK
      <4>. QED
        BY <4>1 DEF Inv, KernelPagesKept, Live
    <3>. QED
      BY <3>1, <3>2
  <2>. QED
    BY <2>1, <2>2 DEF KernelPagesKept, Live
<1>. QED
  BY <1>4, <1>6, <1>7 DEF Inv

\* What the processes see before and after a step to n.
LEMMA SeenViews ==
    ASSUME Inv, NEW n, Good(n, Extra), tab' = n.tab, data' = n.data
    PROVE  /\ Seen = [p \in Proc |-> [v \in Virt |-> View(Mem, p, v)]]
           /\ Seen' = [p \in Proc |-> [v \in Virt |-> View(n, p, v)]]
           /\ Seen \in [Proc -> [Virt -> Value \cup {Absent}]]
           /\ Seen' \in [Proc -> [Virt -> Value \cup {Absent}]]
<1>1. Good(Mem, Extra) /\ Proc \subseteq Space /\ Virt \subseteq Page
  BY Spaces, Frames DEF Inv
<1>2. \A p \in Proc, v \in Virt :
         View(Mem, p, v) \in Value \cup {Absent} /\ View(n, p, v) \in Value \cup {Absent}
  BY <1>1, ViewType
<1>3. Seen = [p \in Proc |-> [v \in Virt |-> View(Mem, p, v)]]
  BY MemFields DEF Seen, View
<1>4. Seen' = [p \in Proc |-> [v \in Virt |-> View(n, p, v)]]
  BY DEF Seen, View
<1>. QED
  BY <1>2, <1>3, <1>4

\* Pages come or go: a step of separate memories.
LEMMA SeenResize ==
    ASSUME Inv, NEW p \in Proc, NEW n, tab' = n.tab, data' = n.data,
           OwnStep(Mem, n, p, Extra), UNCHANGED epoch
    PROVE  SeenStep
<1>1. Good(n, Extra) /\ Apart(Mem, n, p)
  BY DEF OwnStep
<1>2. /\ Seen = [q \in Proc |-> [v \in Virt |-> View(Mem, q, v)]]
      /\ Seen' = [q \in Proc |-> [v \in Virt |-> View(n, q, v)]]
      /\ Seen' \in [Proc -> [Virt -> Value \cup {Absent}]]
  BY <1>1, SeenViews
<1>3. \A q \in Proc \ {p} : Seen'[q] = Seen[q]
  BY <1>1, <1>2, Spaces, Frames DEF Apart
<1>4. \A v \in Virt : Seen[p][v] # Absent /\ Seen'[p][v] # Absent => Seen'[p][v] = Seen[p][v]
  BY <1>2, Frames DEF OwnStep
<1>5. Memories!Resize(p)
  BY <1>2, <1>3, <1>4 DEF Memories!Resize, Memories!Own, Memories!Memories, Seen
<1>. QED
  BY <1>5 DEF SeenStep, Memories!Next

\* Another program, or the end of one: a step of separate memories.
LEMMA SeenReplace ==
    ASSUME Inv, NEW p \in Proc, NEW n, Becomes(n), Good(n, Extra), OthersKept(Mem, n, p),
           epoch' = ~epoch
    PROVE  SeenStep
<1>0. tab' = n.tab /\ data' = n.data
  BY DEF Becomes
<1>1. /\ Seen = [q \in Proc |-> [v \in Virt |-> View(Mem, q, v)]]
      /\ Seen' = [q \in Proc |-> [v \in Virt |-> View(n, q, v)]]
      /\ Seen' \in [Proc -> [Virt -> Value \cup {Absent}]]
  BY <1>0, SeenViews
<1>2. \A q \in Proc \ {p} : Seen'[q] = Seen[q]
  BY <1>1, Frames DEF OthersKept
<1>3. Memories!Replace(p)
  BY <1>1, <1>2 DEF Memories!Replace, Memories!Own, Memories!Memories, Seen
<1>. QED
  BY <1>3 DEF SeenStep, Memories!Next

\* A write: a step of separate memories.
LEMMA SeenWrite ==
    ASSUME Inv, NEW p \in Proc, NEW n, Becomes(n), NEW w \in SUBSET Virt, NEW x \in Value,
           Overwritten(Mem, n, p, w, x, Extra), \A v \in w : View(Mem, p, v) # Absent,
           UNCHANGED epoch
    PROVE  SeenStep
<1>0. /\ Good(n, Extra) /\ Apart(Mem, n, p) /\ tab' = n.tab /\ data' = n.data
      /\ \A v \in Page : View(n, p, v) = IF v \in w THEN x ELSE View(Mem, p, v)
  BY DEF Overwritten, Becomes
<1>1. /\ Seen = [q \in Proc |-> [v \in Virt |-> View(Mem, q, v)]]
      /\ Seen' = [q \in Proc |-> [v \in Virt |-> View(n, q, v)]]
  BY <1>0, SeenViews
<1>2. \A q \in Proc \ {p} : Seen'[q] = Seen[q]
  BY <1>0, <1>1, Spaces, Frames DEF Apart
<1>3. Seen'[p] = [v \in Virt |-> IF v \in w THEN x ELSE Seen[p][v]]
  BY <1>0, <1>1, Frames
<1>4. Seen' = [Seen EXCEPT ![p] = [v \in Virt |-> IF v \in w THEN x ELSE Seen[p][v]]]
  BY <1>1, <1>2, <1>3
<1>5. \A v \in w : Seen[p][v] # Absent
  BY <1>1
<1>6. Memories!Write(p, w, x)
  BY <1>4, <1>5 DEF Memories!Write, Seen
<1>. QED
  BY <1>6 DEF SeenStep, Memories!Next

-----------------------------------------------------------------------------
(* One lemma per action: it keeps the invariant, and is a step of separate *)
(* memories or invisible.                                                  *)

\* What the invariant says of a process that runs.
LEMMA LiveFacts ==
    ASSUME Inv, NEW p \in Proc, Live(p)
    PROVE  /\ Good(Mem, Extra) /\ Supply(Extra) /\ Extra \in [Frame -> Nat]
           /\ p \in Space /\ OldSpace \in Space /\ p # OldSpace
           /\ Mem.tab[p][KPage] # Absent /\ Mem.tab[OldSpace] = EmptyTable
           /\ threads[p] \in Seq(Virt) /\ threads[p] # <<>>
<1>1. Good(Mem, Extra) /\ Supply(Extra) /\ Extra \in [Frame -> Nat]
  BY DEF Inv, Supply
<1>2. p \in Space /\ OldSpace \in Space /\ p # OldSpace
  BY Spaces, AddressSpaceAssumption
<1>3. tab[p][KPage] # Absent /\ tab[OldSpace] = EmptyTable
  BY DEF Inv, KernelPagesKept
<1>4. threads[p] \in Seq(Virt) /\ threads[p] # <<>>
  BY DEF Inv, TypeOK, Live
<1>. QED
  BY <1>1, <1>2, <1>3, <1>4, MemFields

\* An operation on the memory of p that leaves p with threads t.
LEMMA OwnStepTo ==
    ASSUME Inv, NEW p \in Proc, Live(p), NEW n, Becomes(n), OwnStep(Mem, n, p, Extra),
           NEW t \in Seq(Virt), t # <<>>, threads' = [threads EXCEPT ![p] = t],
           UNCHANGED <<kept, epoch, failed>>
    PROVE  Inv' /\ SeenStep
<1>1. /\ Mem.tab[p][KPage] # Absent /\ Mem.tab[OldSpace] = EmptyTable
      /\ p \in Space /\ OldSpace \in Space /\ p # OldSpace
  BY LiveFacts
<1>2. Good(n, Extra) /\ Apart(Mem, n, p) /\ n.tab[p][KPage] # Absent
  BY <1>1 DEF OwnStep
<1>3. (\A q \in Proc \ {p} : n.tab[q] = tab[q]) /\ n.tab[OldSpace] = EmptyTable
  BY <1>1, <1>2, MemFields, Spaces DEF Apart
<1>4. epoch' \in BOOLEAN /\ failed' \in {"none", "program", "stack", "execute", "room"}
  BY DEF Inv, TypeOK
<1>5. StepTo(n, p, t)
  BY <1>2, <1>3, <1>4, ExtraKept DEF StepTo
<1>6. Inv'
  BY <1>5, StepInv
<1>7. SeenStep
  BY SeenResize DEF Becomes
<1>. QED
  BY <1>6, <1>7

\* An operation on the memory of p that leaves the threads alone.
LEMMA OwnStepKeeps ==
    ASSUME Inv, NEW p \in Proc, Live(p), NEW n, Becomes(n), OwnStep(Mem, n, p, Extra),
           UNCHANGED <<threads, kept, epoch, failed>>
    PROVE  Inv' /\ SeenStep
<1>1. threads[p] \in Seq(Virt) /\ threads[p] # <<>>
  BY LiveFacts
<1>2. threads' = [threads EXCEPT ![p] = threads[p]]
  BY DEF Inv, TypeOK
<1>. QED
  BY <1>1, <1>2, OwnStepTo

\* A range between two pages consists of pages.
LEMMA PageRange ==
    ASSUME NEW v \in Page, NEW k \in Nat \ {0}, v + k - 1 \in Page
    PROVE  v .. (v + k - 1) \in SUBSET Page
BY AddressSpaceAssumption DEF Page, Virt, KPage

\* SYSCALL_ALLOCATE_MEMORY.
LEMMA AllocateMemoryStep ==
    ASSUME Inv, NEW p \in Proc, NEW k \in Nat, AllocateMemory(p, k)
    PROVE  Inv' /\ SeenStep
<1>. DEFINE n == TryAllocate(Mem, p, k)
<1>1. Live(p) /\ Becomes(n) /\ UNCHANGED <<threads, kept, epoch, failed>>
  BY DEF AllocateMemory
<1>2. Good(Mem, Extra) /\ Supply(Extra) /\ p \in Space
  BY <1>1, LiveFacts
<1>3. OwnStep(Mem, n, p, Extra)
  BY <1>2, TryAllocateGood
<1>. HIDE DEF n
<1>. QED
  BY <1>1, <1>3, OwnStepKeeps

\* SYSCALL_RELEASE_MEMORY.
LEMMA ReleaseMemoryStep ==
    ASSUME Inv, NEW p \in Proc, NEW v \in Page, NEW k \in Nat \ {0}, ReleaseMemory(p, v, k)
    PROVE  Inv' /\ SeenStep
<1>. DEFINE n == ReleaseUser(Mem, p, v .. (v + k - 1))
<1>1. /\ Live(p) /\ v + k - 1 \in Page /\ Becomes(n)
      /\ UNCHANGED <<threads, kept, epoch, failed>>
  BY DEF ReleaseMemory
<1>2. Good(Mem, Extra) /\ Extra \in [Frame -> Nat] /\ p \in Space
  BY <1>1, LiveFacts
<1>3. v .. (v + k - 1) \in SUBSET Page
  BY <1>1, PageRange
<1>4. OwnStep(Mem, n, p, Extra)
  BY <1>2, <1>3, ReleaseUserGood
<1>. HIDE DEF n
<1>. QED
  BY <1>1, <1>4, OwnStepKeeps

\* A page fault duplicates the page.
LEMMA FaultStep ==
    ASSUME Inv, NEW p \in Proc, NEW v \in Virt, Fault(p, v)
    PROVE  Inv' /\ SeenStep
<1>. DEFINE s == {v}
            n == Duplicate(Mem, p, s)
<1>1. /\ Live(p) /\ tab[p][v] # Absent /\ Becomes(n)
      /\ UNCHANGED <<threads, kept, epoch, failed>>
  BY MemFields DEF Fault, UserPage
<1>2. Good(Mem, Extra) /\ Supply(Extra) /\ p \in Space /\ Mem.tab[p][KPage] # Absent
  BY <1>1, LiveFacts
<1>3. s \in SUBSET Virt /\ KPage \in Page \ s /\ \A k \in s : Mem.tab[p][k] # Absent
  BY <1>1, MemFields, Frames
<1>. HIDE DEF s
<1>4. /\ Good(n, Extra) /\ Apart(Mem, n, p)
      /\ \A k \in Page : View(n, p, k) = View(Mem, p, k)
      /\ \A k \in s : n.tab[p][k] # Absent /\ n.tab[p][k].rw
      /\ \A k \in Page \ s : n.tab[p][k] = Mem.tab[p][k]
  BY <1>2, <1>3, DuplicateGood
<1>. HIDE DEF n
<1>5. OwnStep(Mem, n, p, Extra)
  BY <1>2, <1>3, <1>4 DEF OwnStep
<1>. QED
  BY <1>1, <1>5, OwnStepKeeps

\* A thread gets a stack.
LEMMA CreateThreadStep ==
    ASSUME Inv, NEW p \in Proc, CreateThread(p)
    PROVE  Inv' /\ SeenStep
<1>. DEFINE n == TryAllocate(Mem, p, 1)
            t == Append(threads[p], StackPage(Mem, p))
<1>1. /\ Live(p) /\ Areas(Mem, p, 1) # {} /\ Becomes(n)
      /\ threads' = [threads EXCEPT ![p] = t]
      /\ UNCHANGED <<kept, epoch, failed>>
  BY DEF CreateThread
<1>2. Good(Mem, Extra) /\ Supply(Extra) /\ p \in Space /\ threads[p] \in Seq(Virt)
  BY <1>1, LiveFacts
<1>3. StackPage(Mem, p) \in Virt
  BY <1>1, AreaFacts DEF StackPage
<1>4. t \in Seq(Virt) /\ t # <<>>
  BY <1>2, <1>3, AppendProperties
<1>5. OwnStep(Mem, n, p, Extra)
  BY <1>2, TryAllocateGood
<1>. HIDE DEF n, t
<1>. QED
  BY <1>1, <1>4, <1>5, OwnStepTo

\* A kernel that halts leaves everything as it is.
LEMMA HaltStep ==
    ASSUME Inv, NEW why \in {"stack", "execute", "room"}, Halt(why)
    PROVE  Inv' /\ SeenStep
<1>1. /\ failed' \in {"none", "program", "stack", "execute", "room"}
      /\ tab' = tab /\ count' = count /\ data' = data /\ threads' = threads
      /\ kept' = kept /\ epoch' = epoch
  BY DEF Halt
<1>2. TypeOK'
  BY <1>1 DEF Inv, TypeOK
<1>3. Good(Mem, Extra)' /\ Supply(Extra)'
  <2>1. Mem' = Mem /\ Extra' = Extra
    BY <1>1 DEF Mem, Extra
  <2>. QED
    BY <2>1 DEF Inv
<1>4. KernelPagesKept'
  BY <1>1 DEF Inv, KernelPagesKept, Live
<1>5. UNCHANGED <<Seen, epoch>>
  BY <1>1 DEF Seen
<1>. QED
  BY <1>2, <1>3, <1>4, <1>5 DEF Inv, SeenStep

\* A process ends.
LEMMA EndStep ==
    ASSUME Inv, NEW p \in Proc, Live(p), End(p)
    PROVE  Inv' /\ SeenStep
<1>1. CASE StackMissing(Mem, p, threads[p])
  BY <1>1, HaltStep DEF End
<1>2. CASE ~StackMissing(Mem, p, threads[p])
  <2>. DEFINE k == ReleaseStacks(Mem, p, threads[p])
              n == ReleaseTable(k, p)
  <2>1. /\ Becomes(n) /\ threads' = [threads EXCEPT ![p] = <<>>]
        /\ epoch' = ~epoch /\ UNCHANGED <<kept, failed>>
    BY <1>2 DEF End
  <2>2. /\ Good(Mem, Extra) /\ Extra \in [Frame -> Nat]
        /\ p \in Space /\ OldSpace \in Space /\ p # OldSpace
        /\ Mem.tab[OldSpace] = EmptyTable /\ threads[p] \in Seq(Virt)
    BY LiveFacts
  <2>3. OwnStep(Mem, k, p, Extra)
    BY <1>2, <2>2, ReleaseStacksGood
  <2>4. Good(k, Extra) /\ Apart(Mem, k, p)
    BY <2>3 DEF OwnStep
  <2>. HIDE DEF k
  <2>5. Good(n, Extra) /\ Apart(k, n, p) /\ n.tab[p] = EmptyTable
    BY <2>2, <2>4, ReleaseTableGood
  <2>. HIDE DEF n
  <2>6. OthersKept(Mem, n, p)
    BY <2>4, <2>5, ApartKeeps, KeptTwice
  <2>7. (\A q \in Proc \ {p} : n.tab[q] = tab[q]) /\ n.tab[OldSpace] = EmptyTable
    BY <2>2, <2>4, <2>5, <2>6, MemFields DEF Apart, OthersKept
  <2>8. <<>> \in Seq(Virt) /\ epoch' \in BOOLEAN
        /\ failed' \in {"none", "program", "stack", "execute", "room"}
    BY <2>1 DEF Inv, TypeOK
  <2>9. StepTo(n, p, <<>>)
    BY <2>1, <2>5, <2>7, <2>8, ExtraKept DEF StepTo
  <2>10. Inv'
    BY <2>9, StepInv
  <2>11. SeenStep
    BY <2>1, <2>5, <2>6, SeenReplace
  <2>. QED
    BY <2>10, <2>11
<1>. QED
  BY <1>1, <1>2

\* A sequence without one of its elements.
LEMMA RemoveAtType ==
    ASSUME NEW S, NEW s \in Seq(S), NEW k \in 1 .. Len(s)
    PROVE  RemoveAt(s, k) \in Seq(S) /\ Len(RemoveAt(s, k)) = Len(s) - 1
<1>. DEFINE a == SubSeq(s, 1, k - 1)
            b == SubSeq(s, k + 1, Len(s))
<1>0. Len(s) \in Nat
  BY LenProperties
<1>1. a \in Seq(S) /\ Len(a) = k - 1 /\ b \in Seq(S) /\ Len(b) = Len(s) - k
  BY <1>0, SubSeqProperties
<1>2. RemoveAt(s, k) = a \o b
  BY DEF RemoveAt
<1>. HIDE DEF a, b
<1>3. a \o b \in Seq(S) /\ Len(a \o b) = Len(a) + Len(b)
  BY <1>1, ConcatProperties
<1>. QED
  BY <1>0, <1>1, <1>2, <1>3

\* A thread ends.
LEMMA ExitThreadStep ==
    ASSUME Inv, NEW p \in Proc, NEW i \in DOMAIN threads[p], ExitThread(p, i)
    PROVE  Inv' /\ SeenStep
<1>. DEFINE one == <<threads[p][i]>>
            n == ReleaseStacks(Mem, p, one)
            t == RemoveAt(threads[p], i)
<1>1. Live(p)
  BY DEF ExitThread
<1>2. /\ Good(Mem, Extra) /\ Extra \in [Frame -> Nat] /\ p \in Space
      /\ threads[p] \in Seq(Virt) /\ threads[p] # <<>>
  BY <1>1, LiveFacts
<1>3. i \in 1 .. Len(threads[p]) /\ threads[p][i] \in Virt /\ Len(threads[p]) \in Nat
  BY <1>2, LenProperties, ElementOfSeq
<1>4. CASE Len(threads[p]) = 1
  BY <1>1, <1>4, EndStep DEF ExitThread
<1>5. CASE Len(threads[p]) # 1 /\ StackMissing(Mem, p, one)
  BY <1>5, HaltStep DEF ExitThread
<1>6. CASE Len(threads[p]) # 1 /\ ~StackMissing(Mem, p, one)
  <2>1. Becomes(n) /\ threads' = [threads EXCEPT ![p] = t] /\ UNCHANGED <<kept, epoch, failed>>
    BY <1>6 DEF ExitThread
  <2>2. one \in Seq(Virt)
    BY <1>3
  <2>3. t \in Seq(Virt) /\ t # <<>>
    <3>1. t \in Seq(Virt) /\ Len(t) = Len(threads[p]) - 1
      BY <1>2, <1>3, RemoveAtType
    <3>2. Len(threads[p]) # 0
      BY <1>2, EmptySeq
    <3>. HIDE DEF t
    <3>3. Len(t) # 0
      BY <1>3, <1>6, <3>1, <3>2
    <3>. QED
      BY <3>1, <3>3, EmptySeq
  <2>. HIDE DEF one, t
  <2>4. OwnStep(Mem, n, p, Extra)
    BY <1>2, <1>6, <2>2, ReleaseStacksGood
  <2>. HIDE DEF n
  <2>. QED
    BY <1>1, <2>1, <2>3, <2>4, OwnStepTo
<1>. QED
  BY <1>4, <1>5, <1>6

\* What a system call reaches of n pages from v on: the frames r of pages w.
Opened(m, p) ==
    /\ Good(m, Extra) /\ Apart(Mem, m, p) /\ m.tab[p][KPage] # Absent
    /\ \A j \in Page : View(m, p, j) = View(Mem, p, j)

Reached(m, p, r, w) ==
    /\ Own(m, p, w) /\ r \in SUBSET Frame
    /\ \A f \in Frame : f \in r <=> f[1] \in w /\ Shows(m, p, f)

\* The pages that a system call reaches are opened for the kernel and private.
LEMMA AccessFacts ==
    ASSUME Inv, NEW p \in Proc, Live(p), NEW v \in Page, NEW k \in Nat \ {0}, v + k - 1 \in Page,
           NEW m, m = Access(p, v, k), NEW r, r = Accessed(p, v, k)
    PROVE  Opened(m, p) /\ \E w : Reached(m, p, r, w)
<1>. DEFINE pages == v .. (v + k - 1)
            all == \A j \in pages : Writable(Mem, p, j)
<1>1. /\ Good(Mem, Extra) /\ Supply(Extra) /\ p \in Space /\ Mem.tab[p][KPage] # Absent
  BY LiveFacts
<1>2. pages \in SUBSET Page
  BY PageRange
<1>3. m = MapUser(Mem, p, pages)
  BY DEF Access
<1>4. r = IF all THEN FramesOf(m, p, pages) ELSE {}
  BY DEF Accessed
<1>. HIDE DEF pages
<1>5. /\ Good(m, Extra) /\ Apart(Mem, m, p)
      /\ \A j \in Page : View(m, p, j) = View(Mem, p, j)
      /\ \A j \in Page : Mem.tab[p][j] # Absent => m.tab[p][j] # Absent
      /\ all => \A j \in pages : j \in Virt /\ m.tab[p][j] # Absent /\ m.tab[p][j].rw
  BY <1>1, <1>2, <1>3, MapUserGood
<1>6. m.tab[p][KPage] # Absent
  BY <1>1, <1>5, Frames
<1>. DEFINE W == IF all THEN pages ELSE {}
<1>. HIDE DEF all
<1>7. W \in SUBSET Virt /\ \A j \in W : m.tab[p][j] # Absent /\ m.tab[p][j].rw
  BY <1>5
<1>8. r \in SUBSET Frame /\ \A f \in Frame : f \in r <=> f[1] \in W /\ Shows(m, p, f)
  <2>1. CASE all
    <3>1. \A j \in pages : m.tab[p][j] # Absent
      BY <1>5, <2>1
    <3>2. /\ FramesOf(m, p, pages) \in SUBSET Frame
          /\ \A f \in Frame : f \in FramesOf(m, p, pages) <=> f[1] \in pages /\ Shows(m, p, f)
      BY <1>1, <1>2, <1>5, <3>1, FramesOfPages
    <3>. QED
      BY <1>4, <2>1, <3>2
  <2>2. CASE ~all
    BY <1>4, <2>2
  <2>. QED
    BY <2>1, <2>2
<1>. HIDE DEF W
<1>9. Reached(m, p, r, W)
  BY <1>7, <1>8 DEF Reached, Own
<1>10. Opened(m, p)
  BY <1>5, <1>6 DEF Opened
<1>. QED
  BY <1>9, <1>10

\* Two operations on the memory of p after another.
LEMMA OwnViews ==
    ASSUME NEW k, NEW m, NEW n, NEW p \in Space, Apart(k, m, p), Apart(m, n, p)
    PROVE  Apart(k, n, p)
BY DEF Apart

\* p, or the kernel for p, writes to pages that only p has.
LEMMA WriteStep ==
    ASSUME Inv, NEW p \in Proc, Live(p), NEW m, Opened(m, p), NEW w, Own(m, p, w),
           NEW x \in Value, NEW n, IsWrite(m, n, p, w, x), Becomes(n),
           UNCHANGED <<threads, kept, epoch, failed>>
    PROVE  Inv' /\ SeenStep
<1>1. /\ p \in Space /\ OldSpace \in Space /\ p # OldSpace
      /\ Mem.tab[OldSpace] = EmptyTable /\ threads[p] \in Seq(Virt) /\ threads[p] # <<>>
  BY LiveFacts
<1>2. /\ Good(m, Extra) /\ Apart(Mem, m, p) /\ m.tab[p][KPage] # Absent
      /\ \A j \in Page : View(m, p, j) = View(Mem, p, j)
  BY DEF Opened
<1>3. Overwritten(m, n, p, w, x, Extra)
  BY <1>1, <1>2, WriteGood
<1>4. /\ Good(n, Extra) /\ Apart(m, n, p)
      /\ \A v \in Page : View(n, p, v) = IF v \in w THEN x ELSE View(m, p, v)
  BY <1>3 DEF Overwritten
<1>5. Apart(Mem, n, p)
  BY <1>1, <1>2, <1>4, OwnViews
<1>6. w \in SUBSET Virt /\ \A v \in w : View(Mem, p, v) # Absent
  <2>1. w \in SUBSET Virt /\ \A v \in w : m.tab[p][v] # Absent
    BY DEF Own
  <2>2. \A v \in w : View(m, p, v) # Absent
    BY <1>1, <1>2, <2>1, Frames, ViewType
  <2>. QED
    BY <1>2, <2>1, <2>2, Frames
<1>7. Overwritten(Mem, n, p, w, x, Extra)
  BY <1>2, <1>4, <1>5 DEF Overwritten
<1>8. SeenStep
  BY <1>6, <1>7, SeenWrite
<1>9. (\A q \in Proc \ {p} : n.tab[q] = tab[q]) /\ n.tab[OldSpace] = EmptyTable
  BY <1>1, <1>5, MemFields, Spaces DEF Apart
<1>10. epoch' \in BOOLEAN /\ failed' \in {"none", "program", "stack", "execute", "room"}
       /\ threads' = [threads EXCEPT ![p] = threads[p]]
  BY DEF Inv, TypeOK
<1>11. n.tab[p][KPage] # Absent
  BY <1>2 DEF IsWrite
<1>12. StepTo(n, p, threads[p])
  BY <1>1, <1>4, <1>9, <1>10, <1>11, ExtraKept DEF StepTo
<1>13. Inv'
  BY <1>12, StepInv
<1>. QED
  BY <1>8, <1>13

\* The kernel writes to user memory.
LEMMA KernelWriteStep ==
    ASSUME Inv, NEW p \in Proc, NEW v \in Page, NEW k \in Nat \ {0}, NEW x \in Content,
           KernelWrite(p, v, k, x)
    PROVE  Inv' /\ SeenStep
<1>. DEFINE m == Access(p, v, k)
            r == Accessed(p, v, k)
            n == [tab |-> tab', count |-> count', data |-> data']
<1>1. /\ Live(p) /\ v + k - 1 \in Page
      /\ tab' = m.tab /\ count' = m.count
      /\ data' = Over([f \in r |-> x], m.data)
      /\ UNCHANGED <<threads, kept, epoch, failed>>
  BY DEF KernelWrite
<1>2. Opened(m, p) /\ \E w : Reached(m, p, r, w)
  BY <1>1, AccessFacts
<1>3. PICK w : Reached(m, p, r, w)
  BY <1>2
<1>4. Own(m, p, w) /\ r \in SUBSET Frame /\ \A f \in Frame : f \in r <=> f[1] \in w /\ Shows(m, p, f)
  BY <1>3 DEF Reached
<1>. HIDE DEF m, r
<1>5. IsWrite(m, n, p, w, x) /\ Becomes(n)
  <2>1. DOMAIN m.data = Frame
    BY <1>2 DEF Opened, Good, MachineType
  <2>2. data' = [f \in Frame |-> IF f \in r THEN x ELSE m.data[f]]
    BY <1>1, <2>1 DEF Over
  <2>3. data' = [f \in Frame |-> IF f[1] \in w /\ Shows(m, p, f) THEN x ELSE m.data[f]]
    BY <1>4, <2>2
  <2>. QED
    BY <1>1, <2>3 DEF IsWrite, Becomes
<1>6. x \in Value
  BY DEF Value
<1>. HIDE DEF n
<1>. QED
  BY <1>1, <1>2, <1>4, <1>5, <1>6, WriteStep

\* A program writes to its memory.
LEMMA UserWriteStep ==
    ASSUME Inv, NEW p \in Proc, NEW v \in Virt, NEW x \in Content, UserWrite(p, v, x)
    PROVE  Inv' /\ SeenStep
<1>. DEFINE w == {v}
            n == [tab |-> tab', count |-> count', data |-> data']
<1>1. /\ Live(p) /\ tab[p][v] # Absent /\ tab[p][v].rw
      /\ data' = [data EXCEPT ![tab[p][v].frame] = x]
      /\ tab' = tab /\ count' = count
      /\ UNCHANGED <<threads, kept, epoch, failed>>
  BY MemFields DEF UserWrite, UserPage
<1>2. /\ Good(Mem, Extra) /\ p \in Space /\ Mem.tab[p][KPage] # Absent
  BY <1>1, LiveFacts
<1>3. Opened(Mem, p)
  BY <1>2 DEF Opened, Apart
<1>4. Own(Mem, p, w)
  BY <1>1, MemFields DEF Own
<1>5. IsWrite(Mem, n, p, w, x) /\ Becomes(n)
  <2>1. tab[p][v].frame \in Frame /\ tab[p][v].frame[1] = v
    BY <1>1, <1>2, MemFields, Frames, EntryFacts
  <2>2. data \in [Frame -> Value]
    BY DEF Inv, TypeOK
  <2>3. \A f \in Frame : f[1] \in w /\ Shows(Mem, p, f) <=> f = tab[p][v].frame
    BY <1>1, <2>1, MemFields DEF Shows
  <2>. HIDE DEF w
  <2>4. data' = [f \in Frame |-> IF f = tab[p][v].frame THEN x ELSE data[f]]
    BY <1>1, <2>1, <2>2
  <2>5. data' = [f \in Frame |-> IF f[1] \in w /\ Shows(Mem, p, f) THEN x ELSE Mem.data[f]]
    BY <2>3, <2>4, MemFields
  <2>. QED
    BY <1>1, <2>5, MemFields DEF IsWrite, Becomes
<1>6. x \in Value
  BY DEF Value
<1>. HIDE DEF n, w
<1>. QED
  BY <1>1, <1>3, <1>4, <1>5, <1>6, WriteStep

\* At most MaxKept frames of a page are kept, whatever the number of searches.
LEMMA KeptFew ==
    ASSUME NEW kk \in [Frame -> Nat], Cardinality({f \in Frame : kk[f] > 0}) < MaxKept,
           NEW v \in Virt, NEW g, NEW own,
           own \subseteq {f \in Frame : kk[f] > 0} \cup {g}
    PROVE  IsFiniteSet(own) /\ Cardinality(own) <= MaxKept
<1>. DEFINE K == {f \in Frame : kk[f] > 0}
<1>0. MaxKept \in Nat /\ Cardinality(Space) + MaxKept \in Nat /\ Pages \in Nat
  BY Spaces, AddressSpaceAssumption
<1>1. IsFiniteSet(Frame)
  <2>1. IsFiniteSet(Page)
    <3>1. IsFiniteSet(Virt)
      BY <1>0, FS_Interval DEF Virt
    <3>. QED
      BY <3>1, FS_AddElement DEF Page
  <2>2. IsFiniteSet(1 .. (Cardinality(Space) + MaxKept))
    BY <1>0, FS_Interval
  <2>. QED
    BY <2>1, <2>2, FS_Product DEF Frame
<1>2. IsFiniteSet(K) /\ Cardinality(K) \in Nat
  BY <1>1, FS_Subset, FS_CardinalityType
<1>3. Cardinality(K) < MaxKept /\ own \subseteq K \cup {g}
  OBVIOUS
<1>. HIDE DEF K
<1>4. IsFiniteSet(K \cup {g}) /\ Cardinality(K \cup {g}) <= Cardinality(K) + 1 /\ Cardinality(K \cup {g}) \in Nat
  <2>1. CASE g \in K
    <3>1. K \cup {g} = K
      BY <2>1
    <3>. QED
      BY <1>2, <3>1
  <2>2. CASE g \notin K
    <3>1. IsFiniteSet(K \cup {g}) /\ Cardinality(K \cup {g}) = Cardinality(K) + 1
      BY <1>2, <2>2, FS_AddElement
    <3>. QED
      BY <1>2, <3>1
  <2>. QED
    BY <2>1, <2>2
<1>5. IsFiniteSet(own) /\ Cardinality(own) <= Cardinality(K \cup {g})
  BY <1>3, <1>4, FS_Subset
<1>6. Cardinality(own) \in Nat
  BY <1>5, FS_CardinalityType
<1>. QED
  BY <1>0, <1>2, <1>3, <1>4, <1>5, <1>6

\* A search keeps the path mapped.
LEMMA SearchPathStep ==
    ASSUME Inv, NEW p \in Proc, NEW v \in Page, NEW k \in Nat \ {0}, SearchPath(p, v, k)
    PROVE  Inv' /\ SeenStep
<1>. DEFINE m == Access(p, v, k)
            r == Accessed(p, v, k)
            n == [tab |-> tab', count |-> count', data |-> data']
<1>1. /\ Live(p) /\ v + k - 1 \in Page
      /\ Cardinality({f \in Frame : kept[f] > 0}) < MaxKept
      /\ tab' = m.tab /\ data' = m.data
      /\ count' = Over([f \in r |-> m.count[f] + 1], m.count)
      /\ kept' = Over([f \in r |-> kept[f] + 1], kept)
      /\ UNCHANGED <<threads, epoch, failed>>
  BY DEF SearchPath
<1>2. Opened(m, p) /\ \E w : Reached(m, p, r, w)
  BY <1>1, AccessFacts
<1>3. PICK w : Reached(m, p, r, w)
  BY <1>2
<1>4. r \in SUBSET Frame /\ \A f \in Frame : f \in r <=> f[1] \in w /\ Shows(m, p, f)
  BY <1>3 DEF Reached
<1>5. /\ Good(m, Extra) /\ Apart(Mem, m, p) /\ m.tab[p][KPage] # Absent
      /\ \A j \in Page : View(m, p, j) = View(Mem, p, j)
  BY <1>2 DEF Opened
<1>. HIDE DEF m, r
<1>6. n.tab = m.tab /\ n.data = m.data /\ n.count = count' /\ Becomes(n)
  BY <1>1 DEF Becomes
<1>. HIDE DEF n
<1>7. kept \in [Frame -> Nat] /\ m.count \in [Frame -> Nat] /\ Extra \in [Frame -> Nat]
  BY <1>5 DEF Inv, TypeOK, Good, MachineType, Supply
<1>8. count' = [f \in Frame |-> IF f \in r THEN m.count[f] + 1 ELSE m.count[f]]
  BY <1>1, <1>4, <1>7 DEF Over
<1>9. kept' = [f \in Frame |-> IF f \in r THEN kept[f] + 1 ELSE kept[f]]
  BY <1>1, <1>4, <1>7 DEF Over
<1>10. kept' \in [Frame -> Nat]
  BY <1>7, <1>9
<1>11. Extra' = [f \in Frame |-> IF f \in r THEN Extra[f] + 1 ELSE Extra[f]]
  BY <1>7, <1>9 DEF Extra
<1>12. Good(n, Extra')
  <2>1. IsKeep(m, n, r)
    BY <1>6, <1>8 DEF IsKeep
  <2>. QED
    BY <1>5, <1>7, <1>11, <2>1, KeepGood
<1>13. Supply(Extra)'
  <2>1. Extra' \in [Frame -> Nat]
    BY <1>7, <1>11
  <2>2. ASSUME NEW u \in Virt
        PROVE  /\ IsFiniteSet({f \in Frame : f[1] = u /\ Extra'[f] > 0})
               /\ Cardinality({f \in Frame : f[1] = u /\ Extra'[f] > 0}) <= MaxKept
    <3>. DEFINE own == {f \in Frame : f[1] = u /\ Extra'[f] > 0}
                g == m.tab[p][u].frame
    <3>1. ASSUME NEW f \in own PROVE f \in {h \in Frame : kept[h] > 0} \cup {g}
      <4>1. f \in Frame /\ f[1] = u /\ Extra'[f] > 0 /\ f # KernelFrame
        BY Frames
      <4>2. Extra'[f] = kept'[f]
        BY <1>10, <4>1 DEF Extra
      <4>3. CASE f \in r
        BY <1>4, <4>1, <4>3 DEF Shows
      <4>4. CASE f \notin r
        BY <1>9, <4>1, <4>2, <4>4
      <4>. QED
        BY <4>3, <4>4
    <3>2. own \subseteq {h \in Frame : kept[h] > 0} \cup {g}
      BY <3>1
    <3>. HIDE DEF own, g
    <3>3. IsFiniteSet(own) /\ Cardinality(own) <= MaxKept
      BY <1>1, <1>7, <3>2, KeptFew
    <3>. QED
      BY <3>3 DEF own
  <2>. QED
    BY <2>1, <2>2 DEF Supply
<1>14. /\ p \in Space /\ OldSpace \in Space /\ p # OldSpace
       /\ Mem.tab[OldSpace] = EmptyTable /\ threads[p] \in Seq(Virt) /\ threads[p] # <<>>
  BY <1>1, LiveFacts
<1>15. (\A q \in Proc \ {p} : n.tab[q] = tab[q]) /\ n.tab[OldSpace] = EmptyTable
  BY <1>5, <1>6, <1>14, MemFields, Spaces DEF Apart
<1>16. epoch' \in BOOLEAN /\ failed' \in {"none", "program", "stack", "execute", "room"}
       /\ threads' = [threads EXCEPT ![p] = threads[p]]
  BY <1>1 DEF Inv, TypeOK
<1>17. StepTo(n, p, threads[p])
  BY <1>5, <1>6, <1>10, <1>12, <1>13, <1>14, <1>15, <1>16 DEF StepTo
<1>18. Inv'
  BY <1>17, StepInv
<1>19. OwnStep(Mem, m, p, Extra)
  BY <1>5 DEF OwnStep
<1>20. SeenStep
  BY <1>1, <1>19, SeenResize
<1>. QED
  BY <1>18, <1>20

\* A fork: the child sees what the parent sees.
LEMMA ForkStep ==
    ASSUME Inv, NEW p \in Proc, NEW i \in DOMAIN threads[p], NEW c \in Proc, Fork(p, i, c)
    PROVE  Inv' /\ SeenStep
<1>. DEFINE n == ForkTable(Mem, p, c)
            t == <<threads[p][i]>>
<1>1. /\ Live(p) /\ ~Live(c) /\ Becomes(n)
      /\ threads' = [threads EXCEPT ![c] = t]
      /\ UNCHANGED <<kept, epoch, failed>>
  BY DEF Fork
<1>2. /\ Good(Mem, Extra) /\ Extra \in [Frame -> Nat]
      /\ p \in Space /\ OldSpace \in Space /\ p # OldSpace
      /\ Mem.tab[p][KPage] # Absent /\ Mem.tab[OldSpace] = EmptyTable
      /\ threads[p] \in Seq(Virt)
  BY <1>1, LiveFacts
<1>3. c \in Space /\ c # OldSpace /\ p # c /\ Mem.tab[c] = EmptyTable
  BY <1>1, Spaces, AddressSpaceAssumption, MemFields DEF Inv, KernelPagesKept
<1>4. t \in Seq(Virt) /\ t # <<>>
  BY <1>2, LenProperties, ElementOfSeq
<1>5. /\ Good(n, Extra)
      /\ \A q \in Space \ {p, c} : n.tab[q] = Mem.tab[q]
      /\ \A q \in Space \ {c} : \A v \in Page : View(n, q, v) = View(Mem, q, v)
      /\ \A v \in Page : View(n, c, v) = View(Mem, p, v)
      /\ \A v \in Page : n.tab[p][v] = Forked(Mem.tab[p][v]) /\ n.tab[c][v] = Forked(Mem.tab[p][v])
  BY <1>2, <1>3, ForkGood
<1>. HIDE DEF n, t
<1>6. n.tab[p][KPage] # Absent /\ n.tab[c][KPage] # Absent
  <2>1. /\ View(Mem, p, KPage) # Absent
    BY <1>2, Frames, ViewType
  <2>2. View(n, p, KPage) # Absent /\ View(n, c, KPage) # Absent
    BY <1>2, <1>3, <1>5, <2>1, Frames
  <2>. QED
    BY <1>2, <1>3, <1>5, <2>2, Frames, ViewType
<1>7. \A q \in {p, c} : n.tab[q][KPage].frame = KernelFrame /\ ~n.tab[q][KPage].user
  BY <1>2, <1>3, <1>5, <1>6, Frames, EntryFacts
<1>8. tab' = n.tab /\ count' = n.count /\ data' = n.data
  BY <1>1 DEF Becomes
<1>9. Extra' = Extra /\ Supply(Extra)' /\ kept' \in [Frame -> Nat]
  BY <1>1, ExtraKept
<1>10. Good(Mem, Extra)'
  <2>1. Mem'.tab = n.tab /\ Mem'.count = n.count /\ Mem'.data = n.data
    BY <1>8 DEF Mem
  <2>2. Good(Mem', Extra)
    BY <1>5, <2>1, SameMachine
  <2>. QED
    BY <1>9, <2>2
<1>11. TypeOK'
  <2>1. /\ n.tab \in [Space -> [Page -> Entry \cup {Absent}]]
        /\ \A q \in Space, v \in Page : n.tab[q][v] # Absent => n.tab[q][v].frame[1] = v
        /\ n.count \in [Frame -> Nat]
        /\ n.data \in [Frame -> Value]
    BY <1>5, MachineTyped
  <2>2. /\ threads' \in [Proc -> Seq(Virt)] /\ epoch' \in BOOLEAN
        /\ failed' \in {"none", "program", "stack", "execute", "room"}
    BY <1>1, <1>4 DEF Inv, TypeOK
  <2>. QED
    BY <1>8, <1>9, <2>1, <2>2 DEF TypeOK
<1>12. KernelPagesKept'
  <2>1. tab'[OldSpace] = EmptyTable
    BY <1>2, <1>3, <1>5, <1>8
  <2>2. ASSUME NEW q \in Proc
        PROVE  IF threads'[q] # <<>> THEN tab'[q][KPage] # Absent /\ tab'[q][KPage].frame = KernelFrame
                                          /\ ~tab'[q][KPage].user
               ELSE tab'[q] = EmptyTable
    <3>1. CASE q \in {p, c}
      <4>1. threads'[q] # <<>>
        BY <1>1, <1>3, <1>4, <3>1 DEF Inv, TypeOK, Live
      <4>. QED
        BY <1>6, <1>7, <1>8, <3>1, <4>1
    <3>2. CASE q \notin {p, c}
      <4>1. threads'[q] = threads[q] /\ tab'[q] = tab[q]
        BY <1>1, <1>5, <1>8, <3>2, MemFields, Spaces DEF Inv, TypeOK
      <4>. QED
        BY <4>1 DEF Inv, KernelPagesKept, Live
    <3>. QED
      BY <3>1, <3>2
  <2>. QED
    BY <2>1, <2>2 DEF KernelPagesKept, Live
<1>13. SeenStep
  <2>1. /\ Seen = [q \in Proc |-> [v \in Virt |-> View(Mem, q, v)]]
        /\ Seen' = [q \in Proc |-> [v \in Virt |-> View(n, q, v)]]
    BY <1>5, <1>8, SeenViews
  <2>2. \A v \in Virt : Seen[c][v] = Absent
    BY <1>3, <2>1, Frames DEF View, EmptyTable
  <2>3. \A q \in Proc \ {c} : Seen'[q] = Seen[q]
    BY <1>5, <2>1, Spaces, Frames
  <2>4. Seen'[c] = Seen[p]
    BY <1>5, <2>1, Frames
  <2>5. Seen' = [Seen EXCEPT ![c] = Seen[p]]
    BY <2>1, <2>3, <2>4
  <2>6. Memories!Fork(p, c)
    BY <1>1, <2>2, <2>5 DEF Memories!Fork, Seen
  <2>. QED
    BY <2>6 DEF SeenStep, Memories!Next
<1>. QED
  BY <1>9, <1>10, <1>11, <1>12, <1>13 DEF Inv

\* A program starts another one.
LEMMA ExecuteProgramStep ==
    ASSUME Inv, NEW p \in Proc, NEW i \in DOMAIN threads[p], NEW image \in Images,
           NEW args \in {0} \cup Blocks, NEW env \in {0} \cup Blocks,
           ExecuteProgram(p, i, image, args, env)
    PROVE  Inv' /\ SeenStep
<1>. DEFINE new == Replaced(p, image, args, env)
            others == RemoveAt(threads[p], i)
            m == ReleaseStacks(new, p, others)
            n == TryAllocate(m, p, 1)
            t == <<StackPage(m, p)>>
<1>1. Live(p)
  BY DEF ExecuteProgram
<1>2. /\ Good(Mem, Extra) /\ Supply(Extra) /\ Extra \in [Frame -> Nat]
      /\ p \in Space /\ OldSpace \in Space /\ p # OldSpace
      /\ Mem.tab[OldSpace] = EmptyTable /\ threads[p] \in Seq(Virt)
  BY <1>1, LiveFacts
<1>3. CASE StackMissing(new, p, others)
  BY <1>3, HaltStep DEF ExecuteProgram
<1>4. CASE ~StackMissing(new, p, others)
  <2>1. /\ Areas(m, p, 1) # {} /\ Becomes(n)
        /\ threads' = [threads EXCEPT ![p] = t]
        /\ failed' = IF others # <<>> THEN "program" ELSE failed
        /\ epoch' = ~epoch /\ UNCHANGED kept
    BY <1>4 DEF ExecuteProgram
  <2>2. /\ Good(new, Extra) /\ OthersKept(Mem, new, p)
        /\ new.tab[p][KPage] # Absent /\ new.tab[OldSpace] = EmptyTable
    BY <1>2, ReplacedGood DEF Replaced
  <2>3. others \in Seq(Virt)
    BY <1>2, LenProperties, RemoveAtType
  <2>. HIDE DEF new, others
  <2>4. OwnStep(new, m, p, Extra)
    BY <1>2, <1>4, <2>2, <2>3, ReleaseStacksGood
  <2>. HIDE DEF m
  <2>5. Good(m, Extra) /\ Apart(new, m, p) /\ m.tab[p][KPage] # Absent
    BY <2>2, <2>4 DEF OwnStep
  <2>6. OwnStep(m, n, p, Extra)
    BY <1>2, <2>5, TryAllocateGood
  <2>. HIDE DEF n
  <2>7. Good(n, Extra) /\ Apart(m, n, p) /\ n.tab[p][KPage] # Absent
    BY <2>5, <2>6 DEF OwnStep
  <2>8. OthersKept(Mem, n, p)
    BY <2>2, <2>5, <2>7, ApartKeeps, KeptTwice
  <2>9. (\A q \in Proc \ {p} : n.tab[q] = tab[q]) /\ n.tab[OldSpace] = EmptyTable
    BY <1>2, <2>2, <2>5, <2>7, <2>8, MemFields DEF Apart, OthersKept
  <2>10. t \in Seq(Virt) /\ t # <<>>
    BY <2>1, AreaFacts DEF StackPage
  <2>. HIDE DEF t
  <2>11. epoch' \in BOOLEAN /\ failed' \in {"none", "program", "stack", "execute", "room"}
    BY <2>1 DEF Inv, TypeOK
  <2>12. StepTo(n, p, t)
    BY <2>1, <2>7, <2>9, <2>10, <2>11, ExtraKept DEF StepTo
  <2>13. Inv'
    BY <2>12, StepInv
  <2>14. SeenStep
    BY <2>1, <2>7, <2>8, SeenReplace
  <2>. QED
    BY <2>13, <2>14
<1>. QED
  BY <1>3, <1>4

-----------------------------------------------------------------------------
(* The first program, every step, and the theorems.                        *)

\* The machine before the first process: all tables are empty and the kernel
\* holds its own frame.
LEMMA BareGood ==
    ASSUME NEW m, NEW extra,
           m = [tab |-> [q \in Space |-> EmptyTable],
                count |-> [f \in Frame |-> IF f = KernelFrame THEN 1 ELSE 0],
                data |-> [f \in Frame |-> Fresh]],
           extra = [f \in Frame |-> IF f = KernelFrame THEN 1 ELSE 0]
    PROVE  Good(m, extra) /\ Supply(extra) /\ \A q \in Space : m.tab[q] = EmptyTable
<1>1. /\ m.tab = [q \in Space |-> EmptyTable]
      /\ m.count = [f \in Frame |-> IF f = KernelFrame THEN 1 ELSE 0]
      /\ m.data = [f \in Frame |-> Fresh]
  OBVIOUS
<1>2. EmptyTable \in [Page -> Entry \cup {Absent}] /\ \A v \in Page : EmptyTable[v] = Absent
  BY DEF EmptyTable
<1>3. MachineType(m)
  BY <1>1, <1>2, BlankFacts DEF MachineType
<1>4. EntriesOK(m)
  BY <1>1, <1>2 DEF EntriesOK, EntryOK
<1>5. \A q \in Space, f \in Frame : ~Shows(m, q, f)
  BY <1>1, <1>2, Frames DEF Shows
<1>6. Counted(m, extra)
  <2>1. \A f \in Frame : Sharers(m, f) = {}
    BY <1>5 DEF Sharers
  <2>2. \A f \in Frame : Cardinality(Sharers(m, f)) = 0
    BY <2>1, FS_EmptySet
  <2>. QED
    BY <1>1, <2>2 DEF Counted
<1>7. Unshared(m)
  BY <1>5 DEF Unshared
<1>8. Supply(extra)
  <2>1. \A v \in Virt : {f \in Frame : f[1] = v /\ extra[f] > 0} = {}
    BY Frames
  <2>2. IsFiniteSet({}) /\ Cardinality({}) = 0 /\ MaxKept \in Nat
    BY FS_EmptySet, AddressSpaceAssumption
  <2>3. \A v \in Virt : LET own == {f \in Frame : f[1] = v /\ extra[f] > 0}
                        IN  IsFiniteSet(own) /\ Cardinality(own) <= MaxKept
    BY <2>1, <2>2
  <2>. QED
    BY <2>3 DEF Supply
<1>. QED
  BY <1>1, <1>3, <1>4, <1>6, <1>7, <1>8 DEF Good

\* The first program is loaded into a good machine.
LEMMA InitInv == Init => Inv
<1>. SUFFICES ASSUME Init PROVE Inv
  OBVIOUS
<1>. DEFINE bare == [tab |-> [q \in Space |-> EmptyTable],
                     count |-> [f \in Frame |-> IF f = KernelFrame THEN 1 ELSE 0],
                     data |-> [f \in Frame |-> Fresh]]
            e == [f \in Frame |-> IF f = KernelFrame THEN 1 ELSE 0]
<1>1. PICK p \in Proc, image \in Images :
        LET m == NewMachine(p, image)
            n == TryAllocate(m, p, 1)
        IN  /\ Areas(m, p, 1) # {}
            /\ tab = n.tab /\ count = n.count /\ data = n.data
            /\ threads = [q \in Proc |-> IF q = p THEN <<StackPage(m, p)>> ELSE <<>>]
            /\ kept = [f \in Frame |-> 0]
            /\ epoch = FALSE /\ failed = "none"
  BY DEF Init
<1>. DEFINE k == NewTable(bare, p)
            m == Load(k, p, image)
            n == TryAllocate(m, p, 1)
            t == StackPage(m, p)
<1>2. /\ Areas(m, p, 1) # {}
      /\ tab = n.tab /\ count = n.count /\ data = n.data
      /\ threads = [q \in Proc |-> IF q = p THEN <<t>> ELSE <<>>]
      /\ kept = [f \in Frame |-> 0]
      /\ epoch = FALSE /\ failed = "none"
  BY <1>1 DEF NewMachine
<1>3. p \in Space /\ OldSpace \in Space /\ p # OldSpace /\ Proc \subseteq Space
  BY Spaces, AddressSpaceAssumption
<1>4. Good(bare, e) /\ Supply(e) /\ \A q \in Space : bare.tab[q] = EmptyTable
  BY BareGood
<1>5. e \in [Frame -> Nat]
  OBVIOUS
<1>6. Extra = e
  BY <1>2 DEF Extra
<1>. HIDE DEF bare, e
<1>7. Good(k, e) /\ Apart(bare, k, p) /\ k.tab[p][KPage] # Absent /\ \A v \in Virt : k.tab[p][v] = Absent
  BY <1>3, <1>4, <1>5, NewTableGood
<1>. HIDE DEF k
<1>8. Good(m, e) /\ Apart(k, m, p) /\ m.tab[p][KPage] = k.tab[p][KPage]
  BY <1>3, <1>4, <1>7, LoadGood
<1>9. t \in Virt
  BY <1>2, AreaFacts DEF StackPage
<1>. HIDE DEF m, t
<1>10. OwnStep(m, n, p, e)
  BY <1>3, <1>4, <1>8, TryAllocateGood
<1>. HIDE DEF n
<1>11. Good(n, e) /\ Apart(m, n, p) /\ n.tab[p][KPage] # Absent
  BY <1>7, <1>8, <1>10 DEF OwnStep
<1>12. \A q \in Space \ {p} : n.tab[q] = EmptyTable
  BY <1>4, <1>7, <1>8, <1>11 DEF Apart
<1>13. Good(Mem, Extra) /\ Supply(Extra)
  BY <1>2, <1>4, <1>6, <1>11, MemFields, SameMachine
<1>14. TypeOK
  <2>1. /\ n.tab \in [Space -> [Page -> Entry \cup {Absent}]]
        /\ \A q \in Space, v \in Page : n.tab[q][v] # Absent => n.tab[q][v].frame[1] = v
        /\ n.count \in [Frame -> Nat]
        /\ n.data \in [Frame -> Value]
    BY <1>11, MachineTyped
  <2>2. threads \in [Proc -> Seq(Virt)] /\ kept \in [Frame -> Nat]
    BY <1>2, <1>9
  <2>. QED
    BY <1>2, <2>1, <2>2 DEF TypeOK
<1>15. KernelPagesKept
  <2>1. n.tab[p][KPage].frame = KernelFrame /\ ~n.tab[p][KPage].user
    BY <1>3, <1>11, Frames, EntryFacts
  <2>2. threads[p] # <<>> /\ \A q \in Proc \ {p} : threads[q] = <<>>
    BY <1>2
  <2>. QED
    BY <1>2, <1>3, <1>11, <1>12, <2>1, <2>2 DEF KernelPagesKept, Live
<1>. QED
  BY <1>13, <1>14, <1>15 DEF Inv

\* Every step.
LEMMA NextStep ==
    ASSUME Inv, Next
    PROVE  Inv' /\ SeenStep
<1>0. Pages \in Nat /\ Room \in Nat
  BY AddressSpaceAssumption
<1>1. ASSUME NEW p \in Proc, NEW k \in 0 .. Pages, AllocateMemory(p, k) PROVE Inv' /\ SeenStep
  BY <1>0, <1>1, AllocateMemoryStep
<1>2. ASSUME NEW p \in Proc, NEW v \in Page, NEW k \in 1 .. Pages, ReleaseMemory(p, v, k)
      PROVE  Inv' /\ SeenStep
  BY <1>0, <1>2, ReleaseMemoryStep
<1>3. ASSUME NEW p \in Proc, NEW v \in Page, NEW k \in 1 .. Room, NEW x \in Content,
             KernelWrite(p, v, k, x)
      PROVE  Inv' /\ SeenStep
  <2>1. k \in Nat \ {0}
    BY <1>0
  <2>. QED
    BY <1>3, <2>1, KernelWriteStep
<1>4. ASSUME NEW p \in Proc, NEW v \in Page, NEW k \in 1 .. (Room + 1), SearchPath(p, v, k)
      PROVE  Inv' /\ SeenStep
  BY <1>0, <1>4, SearchPathStep
<1>5. ASSUME NEW p \in Proc, NEW v \in Page, NEW k \in 1 .. (Room + 1), NoRoom(p, v, k)
      PROVE  Inv' /\ SeenStep
  BY <1>5, HaltStep DEF NoRoom
<1>6. ASSUME NEW p \in Proc, NEW v \in Virt, NEW x \in Content, UserWrite(p, v, x)
      PROVE  Inv' /\ SeenStep
  BY <1>6, UserWriteStep
<1>7. ASSUME NEW p \in Proc, NEW v \in Virt, Fault(p, v) PROVE Inv' /\ SeenStep
  BY <1>7, FaultStep
<1>8. ASSUME NEW p \in Proc, CreateThread(p) PROVE Inv' /\ SeenStep
  BY <1>8, CreateThreadStep
<1>9. ASSUME NEW p \in Proc, ExitProcess(p) PROVE Inv' /\ SeenStep
  BY <1>9, EndStep DEF ExitProcess
<1>10. ASSUME NEW p \in Proc, NEW j \in DOMAIN threads[p], ExitThread(p, j) PROVE Inv' /\ SeenStep
  BY <1>10, ExitThreadStep
<1>11. ASSUME NEW p \in Proc, NEW j \in DOMAIN threads[p], NEW c \in Proc, Fork(p, j, c)
       PROVE  Inv' /\ SeenStep
  BY <1>11, ForkStep
<1>12. ASSUME NEW p \in Proc, NEW j \in DOMAIN threads[p], NEW image \in Images,
              NEW args \in {0} \cup Blocks, NEW env \in {0} \cup Blocks,
              ExecuteProgram(p, j, image, args, env)
       PROVE  Inv' /\ SeenStep
  BY <1>12, ExecuteProgramStep
<1>. QED
  BY <1>1, <1>2, <1>3, <1>4, <1>5, <1>6, <1>7, <1>8, <1>9, <1>10, <1>11, <1>12 DEF Next

\* No step.
LEMMA StutterStep ==
    ASSUME Inv, UNCHANGED vars
    PROVE  Inv' /\ SeenStep
<1>1. /\ tab' = tab /\ count' = count /\ data' = data /\ threads' = threads
      /\ kept' = kept /\ epoch' = epoch /\ failed' = failed
  BY DEF vars
<1>2. TypeOK'
  BY <1>1 DEF Inv, TypeOK
<1>3. Mem' = Mem /\ Extra' = Extra
  BY <1>1 DEF Mem, Extra
<1>4. KernelPagesKept'
  BY <1>1 DEF Inv, KernelPagesKept, Live
<1>5. UNCHANGED <<Seen, epoch>>
  BY <1>1 DEF Seen
<1>. QED
  BY <1>2, <1>3, <1>4, <1>5 DEF Inv, SeenStep

\* The invariant holds always.
LEMMA InvAlways == Spec => []Inv
<1>1. Inv /\ [Next]_vars => Inv'
  BY NextStep, StutterStep
<1>. QED
  BY <1>1, InitInv, PTL DEF Spec

\* The reference counts of paging.c are exact whatever processes fork, write,
\* release, replace or end, for any number of processes, pages and threads;
\* every process can enter the kernel, and nothing is left of one that ended.
THEOREM MappingsCorrect == Spec => []MappingsSound
<1>1. Inv => MappingsSound
  <2>. SUFFICES ASSUME Inv PROVE MappingsSound
    OBVIOUS
  <2>1. ASSUME NEW f \in Frame
        PROVE  count[f] = Cardinality({p \in Space : Shows(Mem, p, f)}) + kept[f]
                          + (IF f = KernelFrame THEN 1 ELSE 0)
    <3>1. count[f] = Cardinality(Sharers(Mem, f)) + Extra[f]
      BY MemFields DEF Inv, Good, Counted
    <3>2. Extra[f] = kept[f] + (IF f = KernelFrame THEN 1 ELSE 0)
      BY DEF Extra
    <3>3. Cardinality(Sharers(Mem, f)) \in Nat /\ kept[f] \in Nat
      BY SharersType DEF Inv, TypeOK
    <3>4. count[f] = Cardinality(Sharers(Mem, f)) + kept[f] + (IF f = KernelFrame THEN 1 ELSE 0)
      BY <3>1, <3>2, <3>3
    <3>. QED
      BY <3>4 DEF Sharers
  <2>2. CountsMappings
    BY <2>1 DEF CountsMappings
  <2>. QED
    BY <2>2 DEF Inv, MappingsSound
<1>. QED
  BY <1>1, InvAlways, PTL

\* No two processes can write to the same frame: the fork takes the right to
\* write from both, and a frame is duplicated before one gets it back.
THEOREM NoSharedWriteCorrect == Spec => []NoSharedWrite
<1>1. Inv => NoSharedWrite
  BY MemFields DEF Inv, Good, Unshared, NoSharedWrite
<1>. QED
  BY <1>1, InvAlways, PTL

\* Copy on write is invisible: the page tables implement memories that each
\* belong to one process, where a fork copies the parent's to the child.
THEOREM IsolationCorrect == Spec => Isolation
<1>1. Inv /\ [Next]_vars => [Memories!Next]_<<Seen, epoch>>
  BY NextStep, StutterStep DEF SeenStep
<1>2. Inv => Memories!Init
  <2>. SUFFICES ASSUME Inv PROVE Memories!Init
    OBVIOUS
  <2>1. Good(Mem, Extra) /\ Proc \subseteq Space /\ Virt \subseteq Page
    BY Spaces, Frames DEF Inv
  <2>2. \A p \in Proc, v \in Virt : View(Mem, p, v) \in Value \cup {Absent}
    BY <2>1, ViewType
  <2>3. Seen = [p \in Proc |-> [v \in Virt |-> View(Mem, p, v)]]
    BY MemFields DEF Seen, View
  <2>4. Seen \in [Proc -> [Virt -> Value \cup {Absent}]]
    BY <2>2, <2>3
  <2>5. epoch \in BOOLEAN
    BY DEF Inv, TypeOK
  <2>. QED
    BY <2>4, <2>5 DEF Memories!Init, Memories!Memories, Seen
<1>3. Inv /\ [Next]_vars => [Memories!Next]_<<[p \in Proc |-> [v \in Virt |->
                  IF tab[p][v] = Absent THEN Absent ELSE data[tab[p][v].frame]]], epoch>>
  BY <1>1 DEF Seen
<1>. QED
  BY <1>2, <1>3, InitInv, InvAlways, PTL DEF Spec, Isolation, Memories!Spec
=============================================================================
