-------------------------- MODULE SeparateMemories --------------------------
(***************************************************************************)
(* What processes may assume of their memory (memory/paging.c): each has a *)
(* memory of its own, which only its own operations change, and a fork     *)
(* starts the child with a copy of the parent's.                           *)
(***************************************************************************)
CONSTANTS Proc, Virt, Value, Absent

VARIABLES memory,   \* memory[p][v]: content of page v of process p, or Absent
          epoch     \* flips when a process starts another program or ends

Memories == [Virt -> Value \cup {Absent}]

Init == memory \in [Proc -> Memories] /\ epoch \in BOOLEAN

\* Only the memory of p changes.
Own(p) ==
    /\ memory' \in [Proc -> Memories]
    /\ \A q \in Proc \ {p} : memory'[q] = memory[q]

\* p, or the kernel for p, writes x to pages it has.
Write(p, pages, x) ==
    /\ \A v \in pages : memory[p][v] # Absent
    /\ memory' = [memory EXCEPT ![p] = [v \in Virt |-> IF v \in pages THEN x ELSE @[v]]]
    /\ UNCHANGED epoch

\* Pages appear, with any content, or disappear; the others keep theirs.
Resize(p) ==
    /\ Own(p)
    /\ \A v \in Virt : memory[p][v] # Absent /\ memory'[p][v] # Absent
                       => memory'[p][v] = memory[p][v]
    /\ UNCHANGED epoch

\* c has no memory yet.
Fork(p, c) ==
    /\ \A v \in Virt : memory[c][v] = Absent
    /\ memory' = [memory EXCEPT ![c] = memory[p]]
    /\ UNCHANGED epoch

\* p starts a program, or ends.
Replace(p) == Own(p) /\ epoch' = ~epoch

Next ==
    \E p \in Proc :
        \/ \E pages \in SUBSET Virt, x \in Value : Write(p, pages, x)
        \/ Resize(p)
        \/ Replace(p)
        \/ \E c \in Proc : Fork(p, c)

Spec == Init /\ [][Next]_<<memory, epoch>>
====
