--------------------------- MODULE CommonTheorems ---------------------------
(***************************************************************************)
(* What the proofs of several components need: least and greatest elements *)
(* (Min and Max of FiniteSetsExt), induction along the steps of a loop,    *)
(* and lists as sequences without repetition (LinkedLists).                *)
(***************************************************************************)
EXTENDS FiniteSetsExt, LinkedLists, WellFoundedInduction, SequenceTheorems, TLAPS

-----------------------------------------------------------------------------
(* Least and greatest elements.                                            *)

\* The library's relation of < on the naturals, spelled out.
LEMMA LessThanPairs ==
    ASSUME NEW x \in Nat, NEW y \in Nat, y < x
    PROVE  <<y, x>> \in OpToRel(<, Nat)
<1>1. <<y, x>> \in Nat \X Nat
  OBVIOUS
<1>2. <<y, x>>[1] < <<y, x>>[2]
  OBVIOUS
<1>. QED
  BY <1>1, <1>2, Zenon DEF OpToRel

\* Every non-empty set of natural numbers has a least element.
LEMMA LeastExists ==
    ASSUME NEW S \in SUBSET Nat, S # {}
    PROVE  \E x \in S : \A y \in S : x <= y
<1>1. ASSUME NEW R, IsWellFoundedOn(R, Nat),
             \A x, y \in Nat : y < x => <<y, x>> \in R
      PROVE  \E x \in S : \A y \in S : x <= y
  <2>1. PICK x \in S : \A y \in S : ~ (<<y, x>> \in R)
    BY <1>1, WFMin
  <2>2. \A y \in S : ~ (y < x)
    BY <1>1, <2>1, Zenon
  <2>. QED
    BY <2>2
<1>2. \A x, y \in Nat : y < x => <<y, x>> \in OpToRel(<, Nat)
  BY LessThanPairs, Zenon
<1>. QED
  BY <1>1, <1>2, NatLessThanWellFounded, Zenon

\* Min returns the least element of a non-empty set of natural numbers.
LEMMA MinNat ==
    ASSUME NEW S \in SUBSET Nat, S # {}
    PROVE  Min(S) \in S /\ \A y \in S : Min(S) <= y
BY LeastExists DEF Min

\* Max returns the greatest element of a non-empty bounded set of naturals.
LEMMA MaxNat ==
    ASSUME NEW n \in Nat, NEW S \in SUBSET (0 .. n), S # {}
    PROVE  Max(S) \in S /\ \A y \in S : Max(S) >= y
<1>. DEFINE D == {n - x : x \in S}
<1>0. \A y \in S : y \in Nat /\ n - y \in Nat
  OBVIOUS
<1>1. D \in SUBSET Nat /\ D # {}
  BY <1>0, Zenon
<1>2. PICK d \in D : \A e \in D : d <= e
  BY <1>1, LeastExists
<1>3. PICK x \in S : d = n - x
  BY <1>2
<1>4. \A y \in S : n - y \in D
  OBVIOUS
<1>5. \A y \in S : x >= y
  BY <1>2, <1>3, <1>4
<1>. QED
  BY <1>5 DEF Max

-----------------------------------------------------------------------------
(* Loops.                                                                  *)

\* Induction along 0 .. n, on the set A of the indices at which a fact holds.
LEMMA UpTo ==
    ASSUME NEW n \in Nat, NEW A, 0 \in A,
           \A i \in 1 .. n : i - 1 \in A => i \in A
    PROVE  \A i \in 0 .. n : i \in A
<1>. DEFINE B == {i \in 0 .. n : i \notin A}
<1>. SUFFICES ASSUME B # {} PROVE FALSE
  OBVIOUS
<1>0. B \in SUBSET Nat
  OBVIOUS
<1>1. PICK k \in B : \A j \in B : k <= j
  BY <1>0, LeastExists
<1>2. k \in 1 .. n /\ k - 1 \in 0 .. n
  BY <1>1
<1>3. k - 1 \notin B
  BY <1>1, <1>2
<1>. QED
  BY <1>1, <1>2, <1>3

\* A loop of n steps, the i-th of which takes a state x of S to F[<<x, i>>],
\* and a run h of it from b.
Loop(S, n, F) == n \in Nat /\ F \in [S \X (1 .. n) -> S]
RunOf(S, n, F, b, h) ==
    h \in [0 .. n -> S] /\ h[0] = b /\ \A i \in 1 .. n : h[i] = F[<<h[i - 1], i>>]

LEMMA LoopRuns ==
    ASSUME NEW S, NEW n, NEW F, Loop(S, n, F), NEW b \in S
    PROVE  \E h : RunOf(S, n, F, b, h)
<1>. DEFINE Run(k, h) == h[0] = b /\ \A i \in 1 .. k : h[i] = F[<<h[i - 1], i>>]
            A == {k \in 0 .. n : \E h \in [0 .. k -> S] : Run(k, h)}
<1>0. n \in Nat /\ F \in [S \X (1 .. n) -> S]
  BY DEF Loop
<1>1. 0 \in A
  <2>. DEFINE h == [i \in 0 .. 0 |-> b]
  <2>1. h \in [0 .. 0 -> S] /\ Run(0, h)
    OBVIOUS
  <2>. HIDE DEF h, Run
  <2>. QED
    BY <1>0, <2>1
<1>2. ASSUME NEW k \in 1 .. n, k - 1 \in A
      PROVE  k \in A
  <2>1. PICK g \in [0 .. k - 1 -> S] : Run(k - 1, g)
    BY <1>2
  <2>. DEFINE h == [i \in 0 .. k |-> IF i = k THEN F[<<g[k - 1], k>>] ELSE g[i]]
  <2>2. <<g[k - 1], k>> \in S \X (1 .. n)
    BY <1>0, <2>1
  <2>3. h \in [0 .. k -> S]
    BY <1>0, <2>1, <2>2
  <2>4. \A i \in 0 .. k - 1 : h[i] = g[i]
    OBVIOUS
  <2>5. h[k] = F[<<h[k - 1], k>>]
    <3>1. k - 1 \in 0 .. k - 1 /\ k \in 0 .. k
      OBVIOUS
    <3>2. h[k] = F[<<g[k - 1], k>>]
      BY <3>1
    <3>. QED
      BY <2>4, <3>1, <3>2
  <2>. HIDE DEF h
  <2>6. h[0] = b
    BY <2>1, <2>4
  <2>7. ASSUME NEW i \in 1 .. k PROVE h[i] = F[<<h[i - 1], i>>]
    <3>1. CASE i = k
      BY <2>5, <3>1
    <3>2. CASE i # k
      <4>1. i \in 1 .. k - 1 /\ i \in 0 .. k - 1 /\ i - 1 \in 0 .. k - 1
        BY <3>2
      <4>. QED
        BY <2>1, <2>4, <4>1
    <3>. QED
      BY <3>1, <3>2
  <2>. QED
    BY <2>3, <2>6, <2>7
<1>. HIDE DEF A
<1>3. \A i \in 0 .. n : i \in A
  BY <1>0, <1>1, <1>2, UpTo
<1>4. n \in A
  BY <1>0, <1>3
<1>. QED
  BY <1>4 DEF A, RunOf

-----------------------------------------------------------------------------
(* Lists.                                                                  *)

\* A sequence without its k-th element, cell by cell.
LEMMA RemoveAtCells ==
    ASSUME NEW S, NEW s \in Seq(S), NEW k \in 1 .. Len(s)
    PROVE  /\ RemoveAt(s, k) \in Seq(S)
           /\ Len(RemoveAt(s, k)) = Len(s) - 1
           /\ \A i \in 1 .. Len(s) - 1 :
                 RemoveAt(s, k)[i] = IF i < k THEN s[i] ELSE s[i + 1]
<1>. DEFINE a == SubSeq(s, 1, k - 1)
            b == SubSeq(s, k + 1, Len(s))
<1>0. Len(s) \in Nat
  BY LenProperties
<1>1. a \in Seq(S) /\ Len(a) = k - 1 /\ \A i \in 1 .. k - 1 : a[i] = s[i]
  BY <1>0, SubSeqProperties
<1>2. b \in Seq(S) /\ Len(b) = Len(s) - k /\ \A i \in 1 .. Len(s) - k : b[i] = s[k + i]
  BY <1>0, SubSeqProperties
<1>. HIDE DEF a, b
<1>3. Len(a) + Len(b) = Len(s) - 1 /\ k - 1 \in Nat
  BY <1>0, <1>1, <1>2
<1>4. /\ a \o b \in Seq(S) /\ Len(a \o b) = Len(s) - 1
      /\ \A i \in 1 .. Len(s) - 1 : (a \o b)[i] = IF i <= Len(a) THEN a[i] ELSE b[i - Len(a)]
  <2>1. /\ a \o b \in Seq(S) /\ Len(a \o b) = Len(a) + Len(b)
        /\ \A i \in 1 .. Len(a) + Len(b) : (a \o b)[i] = IF i <= Len(a) THEN a[i] ELSE b[i - Len(a)]
    BY <1>1, <1>2, ConcatProperties, Zenon
  <2>. QED
    BY <1>3, <2>1, Zenon
<1>5. RemoveAt(s, k) = a \o b
  BY DEF RemoveAt, a, b
<1>6. ASSUME NEW i \in 1 .. Len(s) - 1
      PROVE  (a \o b)[i] = IF i < k THEN s[i] ELSE s[i + 1]
  <2>0. i < k \/ i >= k
    BY <1>0
  <2>1. CASE i < k
    BY <1>0, <1>1, <1>4, <2>1
  <2>2. CASE i >= k
    <3>1. i - (k - 1) \in 1 .. Len(s) - k /\ k + (i - (k - 1)) = i + 1
      BY <1>0, <2>2
    <3>. QED
      BY <1>1, <1>2, <1>4, <2>2, <3>1
  <2>. QED
    BY <2>0, <2>1, <2>2, Zenon
<1>. QED
  BY <1>4, <1>5, <1>6

\* The elements of a sequence.
LEMMA ToSetElement ==
    ASSUME NEW S, NEW s \in Seq(S), NEW u
    PROVE  u \in ToSet(s) <=> \E i \in 1 .. Len(s) : s[i] = u
<1>1. DOMAIN s = 1 .. Len(s)
  BY LenProperties
<1>. QED
  BY <1>1, Zenon DEF ToSet

\* Unlinking an element keeps the others, in their order.
LEMMA WithoutCells ==
    ASSUME NEW S, NEW s \in Seq(S), NEW x,
           \A i, j \in 1 .. Len(s) : i < j => s[i] # s[j]
    PROVE  /\ Without(s, x) \in Seq(S)
           /\ ToSet(Without(s, x)) = ToSet(s) \ {x}
           /\ \A i, j \in 1 .. Len(Without(s, x)) : i < j =>
                 \E a, b \in 1 .. Len(s) :
                    a < b /\ Without(s, x)[i] = s[a] /\ Without(s, x)[j] = s[b]
<1>. DEFINE at == {i \in 1 .. Len(s) : s[i] = x}
            w == Without(s, x)
<1>0. Len(s) \in Nat /\ ToSet(s) = {s[i] : i \in 1 .. Len(s)}
  BY LenProperties DEF ToSet
<1>1. CASE at = {}
  <2>1. w = s
    BY <1>1 DEF Without
  <2>2. x \notin ToSet(s)
    BY <1>0, <1>1
  <2>. QED
    BY <1>0, <2>1, <2>2
<1>2. CASE at # {}
  <2>1. PICK k \in at : w = RemoveAt(s, k)
    BY <1>2 DEF Without
  <2>2. k \in 1 .. Len(s) /\ s[k] = x
    BY <2>1
  <2>3. /\ w \in Seq(S) /\ Len(w) = Len(s) - 1
        /\ \A i \in 1 .. Len(s) - 1 : w[i] = IF i < k THEN s[i] ELSE s[i + 1]
    BY <2>1, <2>2, RemoveAtCells
  <2>. HIDE DEF w
  <2>4. ASSUME NEW i \in 1 .. Len(w), NEW j \in 1 .. Len(w), i < j
        PROVE  \E a, b \in 1 .. Len(s) : a < b /\ w[i] = s[a] /\ w[j] = s[b]
    <3>. DEFINE f(n) == IF n < k THEN n ELSE n + 1
    <3>1. f(i) \in 1 .. Len(s) /\ f(j) \in 1 .. Len(s) /\ f(i) < f(j)
      BY <1>0, <2>2, <2>3, <2>4
    <3>2. w[i] = s[f(i)] /\ w[j] = s[f(j)]
      BY <2>3
    <3>. QED
      BY <3>1, <3>2
  <2>5. ToSet(w) = ToSet(s) \ {x}
    <3>1. ToSet(w) = {w[i] : i \in 1 .. Len(w)}
      BY <2>3, LenProperties DEF ToSet
    <3>2. \A i \in 1 .. Len(w) : w[i] \in ToSet(s) /\ w[i] # x
      BY <1>0, <2>2, <2>3
    <3>3. ASSUME NEW i \in 1 .. Len(s), s[i] # x PROVE s[i] \in ToSet(w)
      <4>1. CASE i < k
        <5>1. i \in 1 .. Len(w) /\ w[i] = s[i]
          BY <1>0, <2>2, <2>3, <4>1
        <5>. QED
          BY <3>1, <5>1
      <4>2. CASE i > k
        <5>1. i - 1 \in 1 .. Len(w) /\ w[i - 1] = s[i]
          BY <1>0, <2>2, <2>3, <4>2
        <5>. QED
          BY <3>1, <5>1
      <4>. QED
        BY <2>2, <3>3, <4>1, <4>2
    <3>. QED
      BY <1>0, <3>1, <3>2, <3>3
  <2>. QED
    BY <2>3, <2>4, <2>5 DEF w
<1>. QED
  BY <1>1, <1>2

\* No entry is in the list twice.
Distinct(s) == \A i, j \in 1 .. Len(s) : i < j => s[i] # s[j]

\* Unlinking an entry.
LEMMA WithoutFacts ==
    ASSUME NEW S, NEW s \in Seq(S), NEW x, Distinct(s)
    PROVE  /\ Without(s, x) \in Seq(S)
           /\ ToSet(Without(s, x)) = ToSet(s) \ {x}
           /\ Distinct(Without(s, x))
           /\ Len(Without(s, x)) = IF x \in ToSet(s) THEN Len(s) - 1 ELSE Len(s)
<1>. DEFINE w == Without(s, x)
            at == {i \in 1 .. Len(s) : s[i] = x}
<1>1. /\ w \in Seq(S)
      /\ ToSet(w) = ToSet(s) \ {x}
      /\ \A i, j \in 1 .. Len(w) : i < j =>
            \E a, b \in 1 .. Len(s) : a < b /\ w[i] = s[a] /\ w[j] = s[b]
  BY WithoutCells DEF Distinct
<1>2. Distinct(w)
  BY <1>1 DEF Distinct
<1>3. Len(w) = IF x \in ToSet(s) THEN Len(s) - 1 ELSE Len(s)
  <2>1. x \in ToSet(s) <=> at # {}
    BY ToSetElement
  <2>2. CASE at = {}
    BY <2>1, <2>2 DEF Without
  <2>3. CASE at # {}
    <3>1. PICK k \in at : w = RemoveAt(s, k)
      BY <2>3 DEF Without
    <3>2. Len(w) = Len(s) - 1
      BY <3>1, RemoveAtCells
    <3>. QED
      BY <2>1, <2>3, <3>2
  <2>. QED
    BY <2>2, <2>3
<1>. QED
  BY <1>1, <1>2, <1>3

\* Linking the entries of a list behind those of another one.
LEMMA ConcatFacts ==
    ASSUME NEW S, NEW s \in Seq(S), NEW q \in Seq(S)
    PROVE  /\ s \o q \in Seq(S)
           /\ ToSet(s \o q) = ToSet(s) \cup ToSet(q)
           /\ Len(s \o q) = Len(s) + Len(q)
           /\ Distinct(s) /\ Distinct(q) /\ ToSet(s) \cap ToSet(q) = {} => Distinct(s \o q)
           /\ \A i \in 1 .. Len(s) : (s \o q)[i] = s[i]
           /\ \A i \in 1 .. Len(s \o q) : i > Len(s) => (s \o q)[i] \in ToSet(q)
<1>. DEFINE c == s \o q
<1>0. Len(s) \in Nat /\ Len(q) \in Nat
  BY LenProperties
<1>1. /\ c \in Seq(S) /\ Len(c) = Len(s) + Len(q)
      /\ \A i \in 1 .. Len(s) + Len(q) : c[i] = IF i <= Len(s) THEN s[i] ELSE q[i - Len(s)]
  BY ConcatProperties, Zenon
<1>. HIDE DEF c
<1>2. /\ \A i \in 1 .. Len(s) : i \in 1 .. Len(c) /\ c[i] = s[i]
      /\ \A i \in 1 .. Len(q) : i + Len(s) \in 1 .. Len(c) /\ c[i + Len(s)] = q[i]
  <2>1. \A i \in 1 .. Len(s) : i \in 1 .. Len(c) /\ c[i] = s[i]
    BY <1>0, <1>1
  <2>2. ASSUME NEW i \in 1 .. Len(q)
        PROVE  i + Len(s) \in 1 .. Len(c) /\ c[i + Len(s)] = q[i]
    <3>1. i + Len(s) \in 1 .. Len(s) + Len(q) /\ i + Len(s) > Len(s) /\ i + Len(s) - Len(s) = i
      BY <1>0
    <3>. QED
      BY <1>1, <3>1
  <2>. QED
    BY <2>1, <2>2
<1>3. \A i \in 1 .. Len(c) : i > Len(s) => i - Len(s) \in 1 .. Len(q) /\ c[i] = q[i - Len(s)]
  BY <1>0, <1>1
<1>4. \A u : (u \in ToSet(s) <=> \E i \in 1 .. Len(s) : s[i] = u)
           /\ (u \in ToSet(q) <=> \E i \in 1 .. Len(q) : q[i] = u)
           /\ (u \in ToSet(c) <=> \E i \in 1 .. Len(c) : c[i] = u)
  BY <1>1, ToSetElement, Zenon
<1>5. \A i \in 1 .. Len(c) : i > Len(s) => c[i] \in ToSet(q)
  BY <1>3, <1>4
<1>6. ToSet(c) = ToSet(s) \cup ToSet(q)
  <2>1. \A i \in 1 .. Len(c) : i <= Len(s) => i \in 1 .. Len(s)
    BY <1>0
  <2>2. \A u : u \in ToSet(c) => u \in ToSet(s) \cup ToSet(q)
    BY <1>0, <1>2, <1>4, <1>5, <2>1
  <2>3. \A u : u \in ToSet(s) \cup ToSet(q) => u \in ToSet(c)
    BY <1>2, <1>4, Zenon
  <2>. QED
    BY <2>2, <2>3
<1>7. ASSUME Distinct(s), Distinct(q), ToSet(s) \cap ToSet(q) = {}
      PROVE  Distinct(c)
  <2>. SUFFICES ASSUME NEW i \in 1 .. Len(c), NEW j \in 1 .. Len(c), i < j
                PROVE  c[i] # c[j]
    BY DEF Distinct
  <2>1. CASE j <= Len(s)
    <3>1. i \in 1 .. Len(s) /\ j \in 1 .. Len(s)
      BY <1>0, <1>1, <2>1
    <3>. QED
      BY <1>2, <1>7, <3>1 DEF Distinct
  <2>2. CASE i > Len(s)
    <3>1. /\ i - Len(s) \in 1 .. Len(q) /\ j - Len(s) \in 1 .. Len(q)
          /\ i - Len(s) < j - Len(s)
          /\ c[i] = q[i - Len(s)] /\ c[j] = q[j - Len(s)]
      BY <1>0, <1>1, <1>3, <2>2
    <3>. QED
      BY <1>7, <3>1 DEF Distinct
  <2>3. CASE i <= Len(s) /\ j > Len(s)
    <3>1. c[i] \in ToSet(s)
      BY <1>0, <1>2, <1>4, <2>3
    <3>2. c[j] \in ToSet(q)
      BY <1>5, <2>3
    <3>. QED
      BY <1>7, <3>1, <3>2
  <2>. QED
    BY <1>0, <2>1, <2>2, <2>3
<1>. QED
  BY <1>1, <1>2, <1>5, <1>6, <1>7 DEF c

\* A list of one entry.
LEMMA SingletonFacts ==
    ASSUME NEW S, NEW x \in S
    PROVE  <<x>> \in Seq(S) /\ ToSet(<<x>>) = {x} /\ Distinct(<<x>>) /\ Len(<<x>>) = 1
<1>1. <<x>> \in Seq(S) /\ Len(<<x>>) = 1 /\ <<x>>[1] = x
  OBVIOUS
<1>. DEFINE s == <<x>>
<1>. HIDE DEF s
<1>2. \A u : u \in ToSet(s) <=> \E i \in 1 .. Len(s) : s[i] = u
  BY <1>1, ToSetElement, Zenon DEF s
<1>3. 1 \in 1 .. Len(s) /\ \A i \in 1 .. Len(s) : s[i] = x
  BY <1>1 DEF s
<1>4. ToSet(s) = {x}
  BY <1>2, <1>3
<1>. QED
  BY <1>1, <1>4 DEF Distinct, s

\* An empty list has no entries, and only that.
LEMMA EmptyFacts ==
    ASSUME NEW S, NEW s \in Seq(S)
    PROVE  /\ s = <<>> <=> ToSet(s) = {}
           /\ s = <<>> <=> Len(s) = 0
           /\ ToSet(s) \subseteq S
           /\ ToSet(<<>>) = {} /\ Distinct(<<>>) /\ <<>> \in Seq(S) /\ Len(<<>>) = 0
<1>1. /\ \A u : u \in ToSet(s) <=> \E i \in 1 .. Len(s) : s[i] = u
      /\ Len(s) \in Nat
      /\ \A i \in 1 .. Len(s) : s[i] \in S
  BY ToSetElement, LenProperties, ElementOfSeq
<1>2. s = <<>> <=> Len(s) = 0
  BY EmptySeq
<1>3. ToSet(<<>>) = {} /\ Distinct(<<>>) /\ <<>> \in Seq(S) /\ Len(<<>>) = 0
  BY DEF ToSet, Distinct
<1>4. ASSUME ToSet(s) = {} PROVE Len(s) = 0
  <2>. SUFFICES ASSUME Len(s) # 0 PROVE FALSE
    OBVIOUS
  <2>1. 1 \in 1 .. Len(s)
    BY <1>1
  <2>2. s[1] \in ToSet(s)
    BY <1>1, <2>1
  <2>. QED
    BY <1>4, <2>2
<1>. QED
  BY <1>1, <1>2, <1>3, <1>4

\* Linking an entry at the end.
LEMMA AppendFacts ==
    ASSUME NEW S, NEW s \in Seq(S), NEW x \in S
    PROVE  /\ Append(s, x) \in Seq(S)
           /\ ToSet(Append(s, x)) = ToSet(s) \cup {x}
           /\ Len(Append(s, x)) = Len(s) + 1
           /\ Distinct(s) /\ x \notin ToSet(s) => Distinct(Append(s, x))
           /\ \A i \in 1 .. Len(s) : Append(s, x)[i] = s[i]
           /\ Append(s, x)[Len(s) + 1] = x
<1>1. Append(s, x) = s \o <<x>>
  BY AppendIsConcat
<1>2. /\ <<x>> \in Seq(S) /\ ToSet(<<x>>) = {x} /\ Distinct(<<x>>) /\ Len(<<x>>) = 1
  BY SingletonFacts
<1>3. Append(s, x)[Len(s) + 1] = x
  BY AppendProperties
<1>. DEFINE q == <<x>>
<1>. HIDE DEF q
<1>4. /\ s \o q \in Seq(S)
      /\ ToSet(s \o q) = ToSet(s) \cup ToSet(q)
      /\ Len(s \o q) = Len(s) + Len(q)
      /\ Distinct(s) /\ Distinct(q) /\ ToSet(s) \cap ToSet(q) = {} => Distinct(s \o q)
      /\ \A i \in 1 .. Len(s) : (s \o q)[i] = s[i]
  <2>1. q \in Seq(S)
    BY <1>2 DEF q
  <2>. QED
    BY <2>1, ConcatFacts
<1>5. /\ ToSet(q) = {x} /\ Distinct(q) /\ Len(q) = 1 /\ Append(s, x) = s \o q
  BY <1>1, <1>2 DEF q
<1>6. x \notin ToSet(s) => ToSet(s) \cap {x} = {}
  OBVIOUS
<1>. QED
  BY <1>3, <1>4, <1>5, <1>6

\* Unlinking the first entry.
LEMMA TailFacts ==
    ASSUME NEW S, NEW s \in Seq(S), s # <<>>, Distinct(s)
    PROVE  /\ Head(s) \in ToSet(s)
           /\ Tail(s) \in Seq(S)
           /\ ToSet(Tail(s)) = ToSet(s) \ {Head(s)}
           /\ Distinct(Tail(s))
<1>1. /\ Head(s) = s[1] /\ Tail(s) \in Seq(S) /\ Len(Tail(s)) = Len(s) - 1
      /\ \A i \in 1 .. Len(Tail(s)) : Tail(s)[i] = s[i + 1]
      /\ Len(s) \in Nat /\ Len(s) # 0
  BY HeadTailProperties, LenProperties, EmptySeq
<1>. DEFINE w == Tail(s)
<1>. HIDE DEF w
<1>w. w \in Seq(S)
  BY <1>1 DEF w
<1>2. \A u : (u \in ToSet(s) <=> \E i \in 1 .. Len(s) : s[i] = u)
           /\ (u \in ToSet(w) <=> \E i \in 1 .. Len(w) : w[i] = u)
  BY <1>w, ToSetElement, Zenon
<1>3. Head(s) \in ToSet(s)
  BY <1>1, <1>2
<1>4. Distinct(w)
  <2>. SUFFICES ASSUME NEW i \in 1 .. Len(w), NEW j \in 1 .. Len(w), i < j
                PROVE  w[i] # w[j]
    BY DEF Distinct
  <2>1. /\ i + 1 \in 1 .. Len(s) /\ j + 1 \in 1 .. Len(s) /\ i + 1 < j + 1
        /\ w[i] = s[i + 1] /\ w[j] = s[j + 1]
    BY <1>1 DEF w
  <2>. QED
    BY <2>1 DEF Distinct
<1>5. ASSUME NEW u PROVE u \in ToSet(w) <=> u \in ToSet(s) /\ u # Head(s)
  <2>1. ASSUME NEW i \in 1 .. Len(w), w[i] = u PROVE u \in ToSet(s) /\ u # Head(s)
    <3>1. i + 1 \in 1 .. Len(s) /\ 1 \in 1 .. Len(s) /\ 1 < i + 1 /\ u = s[i + 1]
      BY <1>1, <2>1 DEF w
    <3>. QED
      BY <1>1, <1>2, <3>1 DEF Distinct
  <2>2. ASSUME NEW i \in 1 .. Len(s), s[i] = u, u # Head(s) PROVE u \in ToSet(w)
    <3>1. i - 1 \in 1 .. Len(w) /\ w[i - 1] = u
      BY <1>1, <2>2 DEF w
    <3>. QED
      BY <1>2, <3>1
  <2>. QED
    BY <1>2, <2>1, <2>2
<1>. QED
  BY <1>1, <1>3, <1>4, <1>5 DEF w

\* The places of a list at which u is.
LEMMA DistinctPlaces ==
    ASSUME NEW S, NEW s \in Seq(S), Distinct(s), NEW u
    PROVE  /\ u \notin ToSet(s) => {i \in 1 .. Len(s) : s[i] = u} = {}
           /\ u \in ToSet(s) => \E k : {i \in 1 .. Len(s) : s[i] = u} = {k}
<1>1. u \in ToSet(s) <=> \E i \in 1 .. Len(s) : s[i] = u
  BY ToSetElement
<1>2. ASSUME NEW k \in 1 .. Len(s), s[k] = u
      PROVE  {i \in 1 .. Len(s) : s[i] = u} = {k}
  <2>1. \A i \in 1 .. Len(s) : i # k => s[i] # u
    <3>1. Len(s) \in Nat
      BY LenProperties
    <3>. QED
      BY <1>2, <3>1 DEF Distinct
  <2>. QED
    BY <1>2, <2>1
<1>. QED
  BY <1>1, <1>2

\* r has the elements of s that are not in X, in their order.
Pruned(S, s, X, r) ==
    /\ r \in Seq(S) /\ ToSet(r) = ToSet(s) \ X /\ Distinct(r)
    /\ \A i, j \in 1 .. Len(r) : i < j =>
          \E a, b \in 1 .. Len(s) : a < b /\ r[i] = s[a] /\ r[j] = s[b]

\* Unlinking entries keeps the others, in their order.
LEMMA WithoutAllFacts ==
    ASSUME NEW S, NEW s \in Seq(S), NEW X, Distinct(s)
    PROVE  Pruned(S, s, X, WithoutAll(s, X))
<1>. DEFINE n == Len(s)
            More(r, i) == IF s[i] \in X THEN r ELSE Append(r, s[i])
            F == [z \in Seq(S) \X (1 .. n) |-> More(z[1], z[2])]
            Step(f) == [i \in 0 .. n |-> IF i = 0 THEN <<>>
                                         ELSE IF s[i] \in X THEN f[i - 1]
                                              ELSE Append(f[i - 1], s[i])]
            left == CHOOSE f : f = Step(f)
<1>0. n \in Nat /\ (\A i \in 1 .. n : s[i] \in S) /\ <<>> \in Seq(S)
  BY LenProperties, ElementOfSeq
<1>u. \A u : u \in ToSet(s) <=> \E i \in 1 .. n : s[i] = u
  BY ToSetElement
<1>. HIDE DEF n
<1>1. Loop(Seq(S), n, F)
  <2>. SUFFICES ASSUME NEW r \in Seq(S), NEW i \in 1 .. n
                PROVE  More(r, i) \in Seq(S)
    BY <1>0 DEF Loop
  <2>. QED
    BY <1>0, AppendFacts
<1>2. PICK h : RunOf(Seq(S), n, F, <<>>, h)
  <2>. HIDE DEF F
  <2>. QED
    BY <1>0, <1>1, LoopRuns
<1>h. /\ h \in [0 .. n -> Seq(S)] /\ h[0] = <<>>
      /\ \A i \in 1 .. n : h[i] = F[<<h[i - 1], i>>]
  BY <1>2 DEF RunOf
<1>3. \A i \in 1 .. n : h[i] = More(h[i - 1], i)
  <2>. SUFFICES ASSUME NEW i \in 1 .. n
                PROVE  F[<<h[i - 1], i>>] = More(h[i - 1], i)
    BY <1>h
  <2>1. h[i - 1] \in Seq(S)
    <3>1. i - 1 \in 0 .. n
      BY <1>0
    <3>. QED
      BY <1>h, <3>1, Zenon
  <2>. HIDE DEF More
  <2>. QED
    BY <2>1
<1>4. h = Step(h)
  <2>1. \A i \in 0 .. n : i # 0 => i \in 1 .. n
    BY <1>0
  <2>. QED
    BY <1>h, <1>3, <2>1
<1>5. left = Step(left)
  BY <1>4
<1>. HIDE DEF left
<1>6. left[0] = <<>> /\ \A i \in 1 .. n : left[i] = More(left[i - 1], i)
  <2>1. 0 \in 0 .. n /\ \A i \in 1 .. n : i \in 0 .. n /\ i # 0
    BY <1>0
  <2>. DEFINE g == Step(left)
  <2>2. g[0] = <<>> /\ \A i \in 1 .. n : g[i] = More(left[i - 1], i)
    BY <2>1
  <2>. HIDE DEF g, More
  <2>3. left = g
    BY <1>5 DEF g
  <2>. QED
    BY <2>2, <2>3
<1>7. WithoutAll(s, X) = left[n]
  BY Zenon DEF WithoutAll, left, n
<1>. DEFINE Sub(r, k) ==
        /\ r \in Seq(S)
        /\ \A u : u \in ToSet(r) <=> \E a \in 1 .. k : s[a] = u /\ u \notin X
        /\ \A i, j \in 1 .. Len(r) : i < j =>
              \E a, b \in 1 .. k : a < b /\ r[i] = s[a] /\ r[j] = s[b]
            A == {k \in 0 .. n : Sub(left[k], k)}
<1>8. 0 \in A
  <2>1. ToSet(<<>>) = {} /\ Len(<<>>) = 0
    BY <1>0, EmptyFacts
  <2>2. Sub(<<>>, 0)
    BY <1>0, <2>1
  <2>. HIDE DEF Sub
  <2>. QED
    BY <1>0, <1>6, <2>2
<1>9. ASSUME NEW k \in 1 .. n, k - 1 \in A
      PROVE  k \in A
  <2>. DEFINE r == left[k - 1]
              t == left[k]
  <2>1. Sub(r, k - 1)
    BY <1>9
  <2>2. t = IF s[k] \in X THEN r ELSE Append(r, s[k])
    BY <1>6
  <2>0. k \in Nat /\ k \in 0 .. n
    BY <1>0
  <2>. HIDE DEF r, t
  <2>3. CASE s[k] \in X
    <3>1. \A a \in 1 .. k : s[a] \notin X => a \in 1 .. k - 1
      BY <2>0, <2>3
    <3>2. \A a \in 1 .. k - 1 : a \in 1 .. k
      BY <2>0
    <3>3. r \in Seq(S)
      BY <2>1
    <3>4. \A u : u \in ToSet(r) <=> \E a \in 1 .. k : s[a] = u /\ u \notin X
      BY <2>1, <3>1, <3>2, Zenon
    <3>5. \A i, j \in 1 .. Len(r) : i < j =>
             \E a, b \in 1 .. k : a < b /\ r[i] = s[a] /\ r[j] = s[b]
      <4>. SUFFICES ASSUME NEW i \in 1 .. Len(r), NEW j \in 1 .. Len(r), i < j
                    PROVE  \E a, b \in 1 .. k : a < b /\ r[i] = s[a] /\ r[j] = s[b]
        OBVIOUS
      <4>1. PICK a, b \in 1 .. k - 1 : a < b /\ r[i] = s[a] /\ r[j] = s[b]
        BY <2>1
      <4>. QED
        BY <3>2, <4>1
    <3>6. Sub(t, k)
      <4>1. Sub(r, k)
        BY <3>3, <3>4, <3>5
      <4>2. t = r
        BY <2>2, <2>3
      <4>. QED
        BY <4>1, <4>2
    <3>. HIDE DEF Sub
    <3>. QED
      BY <2>0, <3>6 DEF t
  <2>4. CASE s[k] \notin X
    <3>0. r \in Seq(S) /\ s[k] \in S
      BY <1>0, <2>1
    <3>1. /\ Append(r, s[k]) \in Seq(S)
          /\ ToSet(Append(r, s[k])) = ToSet(r) \cup {s[k]}
          /\ Len(Append(r, s[k])) = Len(r) + 1
          /\ \A i \in 1 .. Len(r) : Append(r, s[k])[i] = r[i]
          /\ Append(r, s[k])[Len(r) + 1] = s[k]
      BY <3>0, AppendFacts
    <3>2. /\ t \in Seq(S) /\ ToSet(t) = ToSet(r) \cup {s[k]} /\ Len(t) = Len(r) + 1
          /\ (\A i \in 1 .. Len(r) : t[i] = r[i]) /\ t[Len(r) + 1] = s[k]
      BY <2>2, <2>4, <3>1
    <3>3. Len(r) \in Nat /\ \A u : u \in ToSet(r) <=> \E i \in 1 .. Len(r) : r[i] = u
      BY <3>0, LenProperties, ToSetElement
    <3>4. ASSUME NEW u PROVE u \in ToSet(t) <=> \E a \in 1 .. k : s[a] = u /\ u \notin X
      <4>1. u \in ToSet(r) <=> \E a \in 1 .. k - 1 : s[a] = u /\ u \notin X
        BY <2>1
      <4>2. \A a \in 1 .. k : a = k \/ a \in 1 .. k - 1
        BY <2>0
      <4>3. k \in 1 .. k /\ \A a \in 1 .. k - 1 : a \in 1 .. k
        BY <2>0
      <4>. QED
        BY <2>4, <3>2, <4>1, <4>2, <4>3, Zenon
    <3>5. ASSUME NEW i \in 1 .. Len(t), NEW j \in 1 .. Len(t), i < j
          PROVE  \E a, b \in 1 .. k : a < b /\ t[i] = s[a] /\ t[j] = s[b]
      <4>1. i \in 1 .. Len(r) /\ t[i] = r[i]
        BY <3>2, <3>3, <3>5
      <4>2. CASE j \in 1 .. Len(r)
        <5>1. PICK a, b \in 1 .. k - 1 : a < b /\ r[i] = s[a] /\ r[j] = s[b]
          BY <2>1, <3>5, <4>1, <4>2
        <5>2. a \in 1 .. k /\ b \in 1 .. k
          BY <2>0
        <5>. QED
          BY <3>2, <4>1, <4>2, <5>1, <5>2
      <4>3. CASE j \notin 1 .. Len(r)
        <5>1. t[j] = s[k]
          <6>1. j = Len(r) + 1
            BY <3>2, <3>3, <4>3
          <6>. QED
            BY <3>2, <6>1
        <5>2. r[i] \in ToSet(r)
          BY <3>3, <4>1
        <5>3. PICK a \in 1 .. k - 1 : s[a] = r[i]
          BY <2>1, <5>2
        <5>4. a \in 1 .. k /\ k \in 1 .. k /\ a < k
          BY <2>0
        <5>. QED
          BY <4>1, <5>1, <5>3, <5>4
      <4>. QED
        BY <4>2, <4>3
    <3>6. Sub(t, k)
      BY <3>2, <3>4, <3>5
    <3>. HIDE DEF Sub
    <3>. QED
      BY <2>0, <3>6 DEF t
  <2>. QED
    BY <2>3, <2>4
<1>. HIDE DEF A
<1>10. n \in A
  <2>1. \A i \in 0 .. n : i \in A
    BY <1>0, <1>8, <1>9, UpTo
  <2>. QED
    BY <1>0, <2>1
<1>. DEFINE w == WithoutAll(s, X)
<1>11. Sub(w, n)
  BY <1>7, <1>10 DEF A
<1>. HIDE DEF w
<1>12. ToSet(w) = ToSet(s) \ X
  BY <1>u, <1>11
<1>13. Distinct(w)
  <2>. SUFFICES ASSUME NEW i \in 1 .. Len(w), NEW j \in 1 .. Len(w), i < j
                PROVE  w[i] # w[j]
    BY DEF Distinct
  <2>1. PICK a, b \in 1 .. n : a < b /\ w[i] = s[a] /\ w[j] = s[b]
    BY <1>11
  <2>. QED
    BY <2>1 DEF Distinct, n
<1>14. Pruned(S, s, X, w)
  BY <1>11, <1>12, <1>13 DEF Pruned, n
<1>. QED
  BY <1>14 DEF w
=============================================================================
