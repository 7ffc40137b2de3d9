---- MODULE MCPipe ----
(* Model checking instance of Pipe: a buffer that doubles from 1 to 4 bytes. *)
EXTENDS Pipe, TLC

CONSTANTS t1, t2, t3

MCThreads == {t1, t2, t3}
MCByte == {0, 1}

\* Nothing, one byte, a string that needs two doublings, and one that is
\* longer than the largest buffer and is clipped.
MCWriteData == {<<>>, <<0>>, <<1, 0, 1>>, <<1, 1, 0, 0, 1>>}
MCReadLengths == {0, 1, 3, 5}

Symmetry == Permutations(MCThreads)
====
