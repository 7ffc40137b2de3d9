----------------------------- MODULE Intervals -----------------------------
(***************************************************************************)
(* Sorted lists of page ranges, as the boot map (memory/paging.c) and the  *)
(* loader's list of required pages (loader/elf.c) keep them: a range is    *)
(* inserted in order and combined with those it overlaps or touches.       *)
(***************************************************************************)
EXTENDS Integers, Sequences, SequencesExt

Interval(start, stop) == [start |-> start, stop |-> stop]

\* The pages of a list of ranges.
Covered(list) == UNION {list[i].start .. list[i].stop - 1 : i \in DOMAIN list}

\* One iteration of the loop that looks for the place of start .. stop - 1: the
\* place was found; it is here; it is further on; it is included in an entry;
\* or the entry is removed and the range grows by it.
Visit(acc, it) ==
    CASE acc.done -> [acc EXCEPT !.after = Append(@, it)]
      [] ~acc.done /\ acc.stop < it.start -> [acc EXCEPT !.done = TRUE, !.after = Append(@, it)]
      [] ~acc.done /\ acc.stop >= it.start /\ it.stop < acc.start ->
            [acc EXCEPT !.before = Append(@, it)]
      [] ~acc.done /\ acc.start >= it.start /\ acc.stop <= it.stop ->
            [acc EXCEPT !.done = TRUE, !.found = TRUE]
      [] OTHER -> [acc EXCEPT !.start = IF it.start < @ THEN it.start ELSE @,
                              !.stop = IF it.stop > @ THEN it.stop ELSE @]

\* The list with start .. stop - 1 in it.
Inserted(list, start, stop) ==
    LET acc == FoldLeft(Visit, [start |-> start, stop |-> stop, done |-> FALSE,
                                found |-> FALSE, before |-> <<>>, after |-> <<>>], list)
    IN  IF acc.found THEN list
        ELSE acc.before \o <<Interval(acc.start, acc.stop)>> \o acc.after

\* Ranges are in order, do not overlap and do not touch.
Normal(list) == \A i \in 2 .. Len(list) : list[i - 1].stop < list[i].start
====
