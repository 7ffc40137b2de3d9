------------------------------ MODULE MCMemory ------------------------------
(***************************************************************************)
(* Model checking instance of PhysMem, BootMemory and ElfLoader.  They     *)
(* share no state (PhysMem starts where the boot ends, the loader gets its *)
(* pages from paging), so a behaviour checks one part and leaves the       *)
(* others as they were: part says which.                                   *)
(*                                                                         *)
(* PhysMem has six pages in chunks of two, so that the table of one chunk  *)
(* lies in another; the boot twelve pages of two units in words of four; a *)
(* program seven pages of two units, of which page 5 is the kernel's.       *)
(***************************************************************************)
EXTENDS PhysMem

CONSTANTS WordBits, Words, LowWords, KernelPage,
          PageSize, MaxEntries, MaxProtected, ElfPages, MaxSections

VARIABLES part,
          phase, physMemMap, bootMap, mapped, tables, seen, kept,
          file, pc, index, pages, mem

bootVars == <<phase, physMemMap, bootMap, mapped, tables, seen, kept>>
elfVars == <<file, pc, index, pages, mem>>

MCReserved == {0, 3}

-----------------------------------------------------------------------------
\* Areas that start and end on and off page and word boundaries, up to the end
\* of the address space.
MCMapEntries ==
    {[addr |-> a, len |-> n, type |-> y] : a \in {0, 3, 9}, n \in {1, 8, 15}, y \in {1, 2}}
MCProtected == {[addr |-> a, len |-> n] : a \in {1, 7, 8, 13, 22}, n \in {0, 1, 9}}

B == INSTANCE BootMemory WITH MapEntries <- MCMapEntries, Protected <- MCProtected

-----------------------------------------------------------------------------
\* Sections inside a page, over a page boundary, beside each other, empty ones,
\* in front of, into and inside the kernel's page, in the last page, over the end
\* of the address space, and entries that are not loaded.
MCSections ==
    {[addr |-> a, size |-> n, nobits |-> b, inFile |-> TRUE] :
        a \in {2, 3, 6, 9}, n \in {0, 1, 3}, b \in BOOLEAN}
    \cup {[addr |-> a, size |-> n, nobits |-> FALSE, inFile |-> f] :
             a \in {0, 1, 4}, n \in {1, 5}, f \in BOOLEAN}
    \cup {[addr |-> a, size |-> n, nobits |-> FALSE, inFile |-> TRUE] :
             a \in {11, 13}, n \in {0, 2}}

MCKernelPages == {5}

E == INSTANCE ElfLoader WITH
    Sections <- MCSections, PAGE_COUNT <- ElfPages, KernelPages <- MCKernelPages

\* The file of the other parts: no sections.
NoFile == [sections |-> <<>>, shnum |-> 0]

-----------------------------------------------------------------------------
ASSUME Assumptions == B!BootAssumption /\ E!ElfAssumption

MCInit ==
    /\ part \in {"physmem", "boot", "elf"}
    /\ PhysInit /\ B!Init /\ E!Init
    /\ part # "elf" => file = NoFile

MCNext ==
    /\ UNCHANGED part
    /\ \/ part = "physmem" /\ PhysNext /\ UNCHANGED <<bootVars, elfVars>>
       \/ part = "boot" /\ B!Next /\ UNCHANGED <<physVars, elfVars>>
       \/ part = "elf" /\ E!Next /\ UNCHANGED <<physVars, bootVars>>

MCSpec == MCInit /\ [][MCNext]_<<part, physVars, bootVars, elfVars>>

-----------------------------------------------------------------------------
(* The properties of the parts, stated in their modules.                   *)

\* Bitmap and boot map are what the memory map and the protected areas say, and
\* the first page tables lie in no page whose content is still needed.
BootSound == part = "boot" => B!BootSound

====
