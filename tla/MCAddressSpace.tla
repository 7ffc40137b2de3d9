--------------------------- MODULE MCAddressSpace ---------------------------
(***************************************************************************)
(* Model checking instance of AddressSpace: two processes with two pages   *)
(* for programs; an executable needs no page or one, and arguments and     *)
(* environment are passed in the first page.                               *)
(***************************************************************************)
EXTENDS AddressSpace

CONSTANTS p1, p2, x1

MCProc == {p1, p2}
MCContent == {x1}
MCImages == {{}, {2}}
MCBlocks == {1}

\* Processes are interchangeable.
MCSymmetry == Permutations(MCProc)

\* Bound: a state has second threads, or written pages, or a page that the
\* kernel keeps, and no two of these. A program that was started incomplete is
\* not followed: but for failed it is one that has released the pages itself.
Focus ==
    LET second == \E p \in Proc : Len(threads[p]) > 1
        written == \E f \in Frame : data[f] # Fresh
        keeps == \E f \in Frame : kept[f] > 0
    IN  failed # "program" /\ ~(second /\ written) /\ ~(second /\ keeps) /\ ~(written /\ keeps)

\* A state up to the numbers of frames, which the allocator chooses freely: for
\* each page what its entry says, what its frame holds and who shares it, and
\* the frames that the kernel alone has. A halt changes nothing but failed and
\* no step follows it, so that halted states are told apart by failed alone.
Shape ==
    LET shows(p, v, f) == tab[p][v] # Absent /\ tab[p][v].frame = f
        about(f) == <<data[f], count[f], kept[f]>>
        entry(p, v) ==
            IF tab[p][v] = Absent THEN Absent
            ELSE LET e == tab[p][v]
                 IN  <<e.rw, e.cow, e.user, about(e.frame), {q \in Space : shows(q, v, e.frame)}>>
        alone == {f \in Frame : count[f] > 0 /\ \A q \in Space : ~shows(q, f[1], f)}
    IN  IF ~Running THEN <<failed>>
        ELSE <<[p \in Space |-> [v \in Page |-> entry(p, v)]],
               {<<f[1], about(f)>> : f \in alone}, threads, epoch, failed>>
====
