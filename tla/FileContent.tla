---------------------------- MODULE FileContent -----------------------------
(***************************************************************************)
(* The content of a file and the positions of those who opened it          *)
(* (process/filesystem.c, openedFile): the buffer that comes from the boot *)
(* archive or from the heap, its growth, and truncation. Positions and     *)
(* sizes are unsigned numbers of Mod values. An allocation that fails      *)
(* halts the kernel in heapAlloc, so the branches for NULL are not taken.  *)
(***************************************************************************)
EXTENDS Integers, Sequences

CONSTANTS Opened,    \* those who opened the file
          Byte,      \* what can be stored
          Zero,      \* the byte 0
          Junk,      \* what fresh heap memory holds
          Static,    \* contents of files in the boot archive
          Mod,       \* 2^32
          MaxPos,    \* bound on the positions programs seek
          MaxLen,    \* bound on the length of a read or a write
          MaxSize    \* bound on the size of a file

ASSUME FileContentAssumption ==
    /\ Mod \in Nat \ {0} /\ MaxPos \in 0..(Mod - 1) /\ MaxLen \in 0..(Mod - 1) /\ MaxSize \in Nat
    /\ Zero \in Byte /\ Junk \notin Byte /\ Static \subseteq Seq(Byte)

VARIABLES buffer,    \* the memory of the file; <<>> is NULL
          isHeap,    \* the memory is from the heap
          size,      \* bytes of the file
          pos,       \* pos[h]: position in the file
          answer,    \* what the last read returned
          overrun    \* memory behind or before the buffer was written

vars == <<buffer, isHeap, size, pos, answer, overrun>>

Strings == UNION {[1..n -> Byte] : n \in 0..MaxLen}

\* fileCreate, and fileSystemInit for the files of the boot archive.
Init ==
    /\ \/ isHeap = TRUE /\ buffer = <<>>
       \/ isHeap = FALSE /\ buffer \in Static
    /\ size = Len(buffer)
    /\ pos = [h \in Opened |-> 0]
    /\ answer = <<>>
    /\ overrun = FALSE

\* heapAlloc and heapReAlloc: n bytes, of which the first are kept.
ReAlloc(old, n) == [i \in 1..n |-> IF i <= Len(old) THEN old[i] ELSE Junk]

MutCleared(buf, from, to) == buf

\* memset
Cleared(buf, from, to) == [i \in DOMAIN buf |-> IF i > from /\ i <= to THEN Zero ELSE buf[i]]

\* The buffer for a write of n bytes at pos[h]. A buffer of the archive
\* is copied, one from the heap is moved.
Grown(h, n) ==
    LET fresh == ReAlloc(IF isHeap THEN buffer ELSE SubSeq(buffer, 1, size), (pos[h] + n) % Mod)
    IN  IF pos[h] > size THEN Cleared(fresh, size, pos[h]) ELSE fresh

\* memcpy
Overwrite(buf, at, bytes) ==
    [i \in DOMAIN buf |-> IF i > at /\ i <= at + Len(bytes) THEN bytes[i - at] ELSE buf[i]]

MutGrows(h, n) == (pos[h] + n) % Mod > size + 1   \* the buffer is one byte short

Grows(h, n) == (pos[h] + n) % Mod > size

\* __openedFileWrite
Write(h, bytes) ==
    LET n == Len(bytes)
        end == (pos[h] + n) % Mod
        buf == IF Grows(h, n) THEN Grown(h, n) ELSE buffer
    IN  /\ n > 0 /\ end <= MaxSize
        /\ buffer' = Overwrite(buf, pos[h], bytes)
        /\ isHeap' = (isHeap \/ Grows(h, n))
        /\ size' = IF Grows(h, n) THEN end ELSE size
        /\ pos' = [pos EXCEPT ![h] = end]
        /\ overrun' = (overrun \/ pos[h] + n > Len(buf))
        /\ UNCHANGED answer

\* Bytes that a read of n returns.
Available(h, n) == IF n > size - pos[h] THEN size - pos[h] ELSE n

\* __openedFileRead; at the end, where it returns -1, nothing is read.
Read(h, n) ==
    LET k == IF pos[h] >= size THEN 0 ELSE Available(h, n)
    IN  /\ answer' = [i \in 1..k |-> buffer[pos[h] + i]]
        /\ pos' = [pos EXCEPT ![h] = @ + k]
        /\ UNCHANGED <<buffer, isHeap, size, overrun>>

\* __openedFileShutdown: the file ends at the position.
Truncate(h) ==
    /\ pos[h] < size
    /\ buffer' = IF isHeap THEN ReAlloc(buffer, pos[h]) ELSE buffer
    /\ size' = pos[h]
    /\ UNCHANGED <<isHeap, pos, answer, overrun>>

\* __openedFileSignal
Signal(h, n) ==
    /\ pos' = [pos EXCEPT ![h] = n]
    /\ UNCHANGED <<buffer, isHeap, size, answer, overrun>>

\* fileOpen, by someone who closed the file before.
Open(h) == Signal(h, 0)

Next ==
    \E h \in Opened :
        \/ \E bytes \in Strings : Write(h, bytes)
        \/ \E n \in 0..MaxLen : Read(h, n)
        \/ Truncate(h)
        \/ \E n \in 0..MaxPos : Signal(h, n)
        \/ Open(h)

Spec == Init /\ [][Next]_vars

-----------------------------------------------------------------------------
(* Properties                                                              *)

\* Types of the file and of the positions.
TypeOK ==
    /\ buffer \in Seq(Byte \cup {Junk})
    /\ isHeap \in BOOLEAN
    /\ size \in 0..(Mod - 1)
    /\ pos \in [Opened -> 0..(Mod - 1)]
    /\ answer \in Seq(Byte)
    /\ overrun \in BOOLEAN

\* The buffer holds the file, whoever grew or truncated it last and whatever
\* positions the others still have, and heap memory is exactly as long.
BufferHolds == size <= Len(buffer) /\ (isHeap => Len(buffer) = size)

Plain == INSTANCE PlainFile WITH content <- SubSeq(buffer, 1, size)

\* Reads return what was written, with zeros in the gaps: growing, copying
\* from the archive and truncating lose nothing and show nothing else.
ImplementsPlainFile == Plain!Spec

\* A write stays inside the buffer.
NoOverrun == ~overrun

\* The buffer holds the file, and no write leaves it, whatever positions those
\* who opened the file have when it grows or is truncated, as long as no position
\* plus a length reaches Mod.
ContentSound == TypeOK /\ BufferHolds /\ NoOverrun
====
