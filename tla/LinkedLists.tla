---------------------------- MODULE LinkedLists ----------------------------
(***************************************************************************)
(* The doubly linked lists of the kernel (util/list.h), as sequences.      *)
(***************************************************************************)
EXTENDS Integers, Sequences, SequencesExt

\* ll_remove: the entry of x is unlinked from the list it is in.
Without(q, x) ==
    LET at == {i \in 1 .. Len(q) : q[i] = x}
    IN  IF at = {} THEN q ELSE RemoveAt(q, CHOOSE i \in at : TRUE)

\* ll_remove for every entry that is in S.
WithoutAll(q, S) ==
    LET left[i \in 0 .. Len(q)] ==
            IF i = 0 THEN <<>>
            ELSE IF q[i] \in S THEN left[i - 1] ELSE Append(left[i - 1], q[i])
    IN  left[Len(q)]
=============================================================================
