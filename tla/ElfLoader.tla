----------------------------- MODULE ElfLoader -----------------------------
(***************************************************************************)
(* elfLoadBinary (loader/elf.c): the sections of an executable are read    *)
(* once to find the pages they need, the pages are allocated in a process  *)
(* that has only the pages of the kernel (process.c:100-104 and            *)
(* interrupt.c:268-272), and the sections are read again and copied.       *)
(*                                                                         *)
(* An iteration of each of the three loops is a step.  A file is what the  *)
(* loops see of it: the sections they find from the second entry of the    *)
(* section table on, as far as the file reaches, and the number shnum.     *)
(* Addresses count units, PageSize of them in a page.                      *)
(***************************************************************************)
EXTENDS Integers, Sequences, FiniteSets, FiniteSetsExt, Intervals

CONSTANTS
    PageSize,    \* units in a page
    PAGE_COUNT,  \* pages of the address space
    KernelPages, \* the pages that the callers mapped for the kernel, not for user mode
    Sections,    \* addr, size, nobits, and whether offset + size is in the file
    MaxSections  \* bound: sections in a file

ElfAssumption ==
    /\ PageSize \in Nat \ {0} /\ PAGE_COUNT \in Nat \ {0} /\ MaxSections \in Nat
    /\ KernelPages \subseteq 1 .. PAGE_COUNT - 1
    /\ Sections \subseteq [addr : Nat, size : Nat, nobits : BOOLEAN, inFile : BOOLEAN]

VARIABLES
    file,     \* sections: entries 1, 2, ... of the table; shnum: number of entries
    pc,       \* the loop, "loaded" (true), "refused" (false) or "panic"
    index,    \* iterations of the loop
    pages,    \* the list of required pages
    mem       \* content of the process's memory

vars == <<file, pc, index, pages, mem>>

\* Content of a unit: the section and the place in it the value is from, or a
\* value that is zero, not defined, or the kernel's.
Value(i, k) == [section |-> i, unit |-> k]
Zero == Value(0, 0)
Undefined == Value(0, 1)
Kernel == Value(0, 2)

Units(s) == s.addr .. s.addr + s.size - 1
PagesOf(s) == {u \div PageSize : u \in Units(s)}
UnitsIn(P) == UNION {p * PageSize .. (p + 1) * PageSize - 1 : p \in P}
Mapped == {u \div PageSize : u \in DOMAIN mem}
UserPages == Mapped \ KernelPages

\* A file is an ELF file and has a header: the checks before the loops.  The
\* kernel stack, the GDT, the IDT and two pages more are mapped.
Init ==
    /\ \E n \in 0 .. MaxSections :
          /\ file \in [sections : [1 .. n -> Sections], shnum : 0 .. MaxSections]
          /\ file.shnum >= n
    /\ pc = "scan" /\ index = 0 /\ pages = <<>>
    /\ mem = [u \in UnitsIn(KernelPages) |-> Kernel]

\* The section of this iteration: the pointer is moved on before it is used.
Section == file.sections[index + 1]
IsInFile == index + 1 <= Len(file.sections)

Continue(loop) == pc = loop /\ index < file.shnum

Stop(s) ==
    LET stop == (s.addr + s.size + PageSize - 1) \div PageSize
    IN  IF stop >= PAGE_COUNT THEN PAGE_COUNT - 1 ELSE stop

\* __insertRequiredPage
InsertRequiredPage(list, start, stop) ==
    IF stop <= start THEN list ELSE Inserted(list, start, stop)

\* First loop
Scan ==
    /\ Continue("scan")
    /\ \/ /\ \/ ~IsInFile
             \/ IsInFile /\ Section.addr # 0 /\ ~Section.nobits /\ ~Section.inFile
          /\ pc' = "refused"
          /\ UNCHANGED <<index, pages>>
       \/ /\ IsInFile /\ Section.addr = 0
          /\ index' = index + 1
          /\ UNCHANGED <<pc, pages>>
       \/ /\ IsInFile /\ Section.addr # 0 /\ (Section.nobits \/ Section.inFile)
          /\ pages' = InsertRequiredPage(pages, Section.addr \div PageSize, Stop(Section))
          /\ index' = index + 1
          /\ UNCHANGED pc
    /\ UNCHANGED <<file, mem>>

ScanDone ==
    /\ pc = "scan" /\ index = file.shnum
    /\ pc' = "map"
    /\ UNCHANGED <<file, index, pages, mem>>

\* pagingAllocatePhysMemFixed: the system fails for page 0 and for a page that
\* is in use, by the kernel or by an allocation made before.
CanMap(p) == p.start # 0 /\ (p.start .. p.stop - 1) \cap Mapped = {}

\* Second loop
Map ==
    /\ pc = "map" /\ pages # <<>>
    /\ LET p == Head(pages)
           new == UnitsIn(p.start .. p.stop - 1)
       IN  IF CanMap(p)
           THEN /\ mem' = [u \in DOMAIN mem \cup new |-> IF u \in new THEN Undefined ELSE mem[u]]
                /\ pages' = Tail(pages)
                /\ UNCHANGED pc
           ELSE pc' = "panic" /\ UNCHANGED <<pages, mem>>
    /\ UNCHANGED <<file, index>>

MapDone ==
    /\ pc = "map" /\ pages = <<>>
    /\ pc' = "copy" /\ index' = 0
    /\ UNCHANGED <<file, pages, mem>>


\* What the memset or the memcpy puts at u.
Content(s, i, u) == IF s.nobits THEN Zero ELSE Value(i, u - s.addr)

\* Third loop: ACCESS_USER_MEMORY fails when a page is not there or is not for
\* user mode.
CopySection ==
    /\ Continue("copy")
    /\ IF ~IsInFile \/ (Section.addr # 0 /\ ~(PagesOf(Section) \subseteq UserPages))
       THEN pc' = "refused" /\ UNCHANGED <<index, mem>>
       ELSE /\ mem' = IF Section.addr = 0 THEN mem
                      ELSE [u \in DOMAIN mem |-> IF u \in Units(Section)
                               THEN Content(Section, index + 1, u) ELSE mem[u]]
            /\ index' = index + 1
            /\ UNCHANGED pc
    /\ UNCHANGED <<file, pages>>

CopyDone ==
    /\ pc = "copy" /\ index = file.shnum
    /\ pc' = "loaded"
    /\ UNCHANGED <<file, index, pages, mem>>

Next == Scan \/ ScanDone \/ Map \/ MapDone \/ CopySection \/ CopyDone

Spec == Init /\ [][Next]_vars

-----------------------------------------------------------------------------
(* Properties *)

\* Types of the loader's state.
TypeOK ==
    /\ pc \in {"scan", "map", "copy", "loaded", "refused", "panic"}
    /\ index \in 0 .. MaxSections
    /\ \A i \in DOMAIN pages : pages[i].start < pages[i].stop /\ pages[i].stop < PAGE_COUNT
    /\ Mapped \subseteq 0 .. PAGE_COUNT - 1

Loaded == {i \in 1 .. file.shnum : file.sections[i].addr # 0}

\* A program that was loaded has, besides the kernel's pages, the pages its
\* sections need and no others (an empty section inside of a page has that page,
\* unless it is the last one), and in each unit of a section the content of the
\* last section that has it, whatever order the sections come in and however they
\* overlap.
ImageExact ==
    pc = "loaded" =>
        /\ UserPages = UNION {PagesOf(file.sections[i]) : i \in Loaded} \cup
                          ({file.sections[i].addr \div PageSize :
                              i \in {j \in Loaded : file.sections[j].addr % PageSize # 0}}
                           \ {PAGE_COUNT - 1})
        /\ \A i \in Loaded : \A u \in Units(file.sections[i]) :
              LET last == Max({j \in Loaded : u \in Units(file.sections[j])})
              IN  mem[u] = IF file.sections[last].nobits THEN Zero
                           ELSE Value(last, u - file.sections[last].addr)

\* Each page is allocated once: the list of required pages stays in order, so that
\* no allocation of the loader meets an earlier one of its own.  The system fails
\* only when a file has a section in page 0 or in a page of the kernel.
NoCollision ==
    /\ Normal(pages)
    /\ pc = "panic" => LET p == Head(pages)
                       IN  p.start = 0 \/ (p.start .. p.stop - 1) \cap KernelPages # {}

\* No file changes what is in the kernel's pages.
KernelKept == \A u \in UnitsIn(KernelPages) : mem[u] = Kernel

\* elfLoadBinary returns true or false for every file.
Returns == pc # "panic"

\* shnum entries, the first of which is the empty one, all sections in the file,
\* and the file ends behind the table.
WellFormed ==
    /\ file.shnum = Len(file.sections) + 1
    /\ \A i \in DOMAIN file.sections :
          /\ file.sections[i].inFile /\ file.sections[i].addr >= PageSize
          /\ file.sections[i].addr + file.sections[i].size < (PAGE_COUNT - 1) * PageSize

\* elfLoadBinary loads every file that is well formed.
LoadsExecutables == WellFormed => pc # "refused"

====
