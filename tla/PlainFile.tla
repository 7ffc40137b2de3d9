----------------------------- MODULE PlainFile ------------------------------
(***************************************************************************)
(* What programs may assume of a file (process/filesystem.c): a sequence   *)
(* of bytes, and for everyone who opened it a position. Writing behind the *)
(* end fills the gap with zeros.                                           *)
(***************************************************************************)
EXTENDS Integers, Sequences

CONSTANTS Opened, Byte, Zero, MaxPos, MaxLen

VARIABLES content, pos, answer

vars == <<content, pos, answer>>

Strings == UNION {[1..n -> Byte] : n \in 0..MaxLen}

Init ==
    /\ content \in Seq(Byte)
    /\ pos = [h \in Opened |-> 0]
    /\ answer = <<>>

Write(h, bytes) ==
    LET at == pos[h]
        new == [i \in 1..(at + Len(bytes)) |->
                    IF i > at THEN bytes[i - at]
                    ELSE IF i <= Len(content) THEN content[i] ELSE Zero]
    IN  IF bytes = <<>> THEN UNCHANGED vars
        ELSE /\ content' = new \o SubSeq(content, Len(new) + 1, Len(content))
             /\ pos' = [pos EXCEPT ![h] = Len(new)]
             /\ UNCHANGED answer

\* The answer holds what was read, as much as there is.
Read(h, n) ==
    /\ answer' = SubSeq(content, pos[h] + 1,
                        IF pos[h] + n < Len(content) THEN pos[h] + n ELSE Len(content))
    /\ pos' = [pos EXCEPT ![h] = @ + Len(answer')]
    /\ UNCHANGED content

Truncate(h) ==
    /\ content' = IF pos[h] < Len(content) THEN SubSeq(content, 1, pos[h]) ELSE content
    /\ UNCHANGED <<pos, answer>>

Seek(h, n) == pos' = [pos EXCEPT ![h] = n] /\ UNCHANGED <<content, answer>>

\* h is opened again.
Reopen(h) == Seek(h, 0)

Next ==
    \E h \in Opened :
        \/ \E bytes \in Strings : Write(h, bytes)
        \/ \E n \in 0..MaxLen : Read(h, n)
        \/ \E n \in 0..MaxPos : Seek(h, n)
        \/ Truncate(h)
        \/ Reopen(h)

Spec == Init /\ [][Next]_vars
====
