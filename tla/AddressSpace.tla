---------------------------- MODULE AddressSpace ----------------------------
(***************************************************************************)
(* The address spaces of processes: page tables whose pages a fork shares  *)
(* until one side writes (memory/paging.c), and the system calls, faults   *)
(* and thread and process ends that change them (interrupt/interrupt.c,    *)
(* process/thread.c, process/process.c).                                   *)
(*                                                                         *)
(* A physical page is never mapped at two addresses, so physical pages are *)
(* named by the address: <<v, k>> is the k-th page that can be mapped at v *)
(* (PhysMem models which one the allocator takes; without any the kernel   *)
(* halts). The pages that kernel and process share (kernel stack,          *)
(* descriptor tables) are one page, KPage; the stack and the thread local  *)
(* block of a thread, allocated and released together, are one as well.    *)
(***************************************************************************)
EXTENDS Integers, FiniteSets, FiniteSetsExt, SequencesExt

CONSTANTS Proc,        \* processes
          Pages,       \* pages of an address space below the kernel's
          Content,     \* what programs write
          Images,      \* sets of pages that executables ask for
          Blocks,      \* pages of the arguments and the environment that are passed
          MaxThreads,  \* bound on the threads of a process
          MaxKept,     \* bound on searches whose mapping the kernel keeps
          Room,        \* consecutive pages the kernel has room for
          Absent       \* no page table entry

Virt == 1..Pages
KPage == Pages + 1
Page == Virt \cup {KPage}

\* Content of a page nobody has written to since it was allocated.
Fresh == "fresh"
Value == Content \cup {Fresh}

\* The saved address space of the program that SYSCALL_EXECUTE_PROGRAM replaces.
OldSpace == "old_p"
Space == Proc \cup {OldSpace}

KernelFrame == <<KPage, 1>>
Frame == Page \X (1..(Cardinality(Space) + MaxKept))

Entry == [frame : Frame, rw : BOOLEAN, cow : BOOLEAN, user : BOOLEAN]

ASSUME AddressSpaceAssumption ==
    /\ IsFiniteSet(Proc) /\ OldSpace \notin Proc
    /\ Pages \in Nat \ {0} /\ MaxThreads \in Nat \ {0}
    /\ MaxKept \in Nat /\ Room \in Nat
    /\ Images \subseteq SUBSET Virt /\ Blocks \subseteq Virt
    /\ Absent \notin Entry /\ Absent \notin Value

VARIABLES tab,      \* tab[p][v]: page table entry
          count,    \* references to a frame
          data,     \* content of a frame
          threads,  \* stack pages of the threads of p; <<>>: no process
          kept,     \* kept[f]: mappings of a frame in the kernel that are never removed
          epoch,    \* flips whenever a process starts another program or ends
          failed    \* what went wrong: all but "program" halt the kernel

vars == <<tab, count, data, threads, kept, epoch, failed>>

-----------------------------------------------------------------------------
(* Page tables, on a record m of tab, count and data.  What happens to the *)
(* pages of a range does not depend on their order, as each has frames of  *)
(* its own: an operation is applied to a set s of pages.                   *)

Mem == [tab |-> tab, count |-> count, data |-> data]

Becomes(m) == tab' = m.tab /\ count' = m.count /\ data' = m.data

\* p has frame f, at the only page it can be mapped at.
Shows(m, p, f) == m.tab[p][f[1]] # Absent /\ m.tab[p][f[1]].frame = f

Unused(m, v) == {f \in Frame : f[1] = v /\ m.count[f] = 0}
NewFrame(m, v) == CHOOSE f \in Unused(m, v) : TRUE
NewEntry(f) == [frame |-> f, rw |-> TRUE, cow |-> FALSE, user |-> TRUE]
Blank == [v \in Page |-> Fresh]

\* g with the values of h in its place.
Over(h, g) == [x \in DOMAIN g |-> IF x \in DOMAIN h THEN h[x] ELSE g[x]]

\* The frames of mapped pages s.
FramesOf(m, p, s) == {m.tab[p][v].frame : v \in s}

\* Map new frames at s; content[v] is what the one at v holds.
MapNew(m, p, s, content) ==
    LET new == {NewFrame(m, v) : v \in s}
    IN  [tab |-> [m.tab EXCEPT ![p] = Over([v \in s |-> NewEntry(NewFrame(m, v))], @)],
         count |-> Over([f \in new |-> 1], m.count),
         data |-> Over([f \in new |-> content[f[1]]], m.data)]

MutUnmap(m, p, s) ==   \* a shared page keeps its reference
    LET gone == {f \in FramesOf(m, p, s) : m.count[f] = 1 \/ m.tab[p][f[1]].rw}
        last == {f \in gone : m.count[f] = 1}
    IN  [tab |-> [m.tab EXCEPT ![p] = Over([v \in s |-> Absent], @)],
         count |-> Over([f \in gone |-> m.count[f] - 1], m.count),
         data |-> Over([f \in last |-> Fresh], m.data)]

\* Release the mapped pages s. A frame without a reference loses its content.
Unmap(m, p, s) ==
    LET gone == FramesOf(m, p, s)
        last == {f \in gone : m.count[f] = 1}
    IN  [tab |-> [m.tab EXCEPT ![p] = Over([v \in s |-> Absent], @)],
         count |-> Over([f \in gone |-> m.count[f] - 1], m.count),
         data |-> Over([f \in last |-> Fresh], m.data)]

Unlocked(e) == [e EXCEPT !.rw = TRUE, !.cow = FALSE]

MutDuplicate(m, p, s) ==   \* shared pages become writable themselves
    [m EXCEPT !.tab[p] = Over([v \in s |-> Unlocked(m.tab[p][v])], @)]

\* Pages s marked for duplication become writable: each itself, or a copy of it.
Duplicate(m, p, s) ==
    LET shared == {v \in s : m.count[m.tab[p][v].frame] # 1}
        left == FramesOf(m, p, shared)
        copied == MapNew(m, p, shared, [v \in shared |-> m.data[m.tab[p][v].frame]])
    IN  [tab |-> [copied.tab EXCEPT ![p] = Over([v \in s \ shared |-> Unlocked(m.tab[p][v])], @)],
         count |-> Over([f \in left |-> m.count[f] - 1], copied.count),
         data |-> copied.data]

Mapped(m, p) == {v \in Page : m.tab[p][v] # Absent}
UserPage(m, p, v) == m.tab[p][v] # Absent /\ m.tab[p][v].user

\* Starts of n consecutive unused pages.
Areas(m, p, n) ==
    {v \in Virt : v + n - 1 \in Virt /\ \A k \in v..(v + n - 1) : m.tab[p][k] = Absent}

TryAllocate(m, p, n) ==
    IF n = 0 \/ Areas(m, p, n) = {} THEN m
    ELSE LET v == Min(Areas(m, p, n)) IN MapNew(m, p, v..(v + n - 1), Blank)

\* What p may release of pages; the others are skipped.
ReleaseUser(m, p, pages) == Unmap(m, p, {k \in pages : UserPage(m, p, k)})

ReleaseTable(m, p) == Unmap(m, p, Mapped(m, p))

\* The kernel maps pages of p for writing, up to the first one p may not write.
Writable(m, p, v) == UserPage(m, p, v) /\ (m.tab[p][v].rw \/ m.tab[p][v].cow)

MapUser(m, p, pages) ==
    LET valid == {k \in pages : \A j \in pages : j <= k => Writable(m, p, j)}
    IN  Duplicate(m, p, {k \in valid : ~m.tab[p][k].rw})

KernelPage(rw) == [frame |-> KernelFrame, rw |-> rw, cow |-> ~rw, user |-> FALSE]

EmptyTable == [v \in Page |-> Absent]

\* The table of p, empty so far, gets the pages of the kernel.
NewTable(m, p) ==
    [tab |-> [m.tab EXCEPT ![p] = [EmptyTable EXCEPT ![KPage] = KernelPage(TRUE)]],
     count |-> [m.count EXCEPT ![KernelFrame] = @ + 1],
     data |-> m.data]

Load(m, p, image) == MapNew(m, p, image, Blank)

MutForked(e) == e

\* The entry that parent and child have after a fork.
Forked(e) ==
    IF e # Absent /\ e.rw /\ ~e.cow THEN [e EXCEPT !.rw = FALSE, !.cow = TRUE] ELSE e

ForkTable(m, p, c) ==
    LET shared == [v \in Page |-> Forked(m.tab[p][v])]
    IN  [tab |-> [m.tab EXCEPT ![p] = shared, ![c] = shared],
         count |-> Over([f \in FramesOf(m, p, Mapped(m, p)) |-> m.count[f] + 1], m.count),
         data |-> m.data]

-----------------------------------------------------------------------------
(* Threads and programs.                                                   *)

Running == failed \in {"none", "program"}
Live(p) == threads[p] # <<>>

\* An assertion or a system failure: nothing happens any more.
Halt(why) == failed' = why /\ UNCHANGED <<tab, count, data, threads, kept, epoch>>

\* The shutdowns of threads with stacks s meet an assertion: a stack is not
\* there, or no longer after the shutdown of another thread.
StackMissing(m, p, s) ==
    \E i \in DOMAIN s : m.tab[p][s[i]] = Absent \/ \E j \in DOMAIN s \ {i} : s[j] = s[i]

ReleaseStacks(m, p, s) == Unmap(m, p, {s[i] : i \in DOMAIN s})

StackPage(m, p) == Min(Areas(m, p, 1))

\* A block at v of the old program is copied to the new one; 0 is no block.
CopyBlock(m, p, v) ==
    IF v = 0 \/ ~Writable(m, OldSpace, v) THEN m
    ELSE LET d == MapUser(m, OldSpace, {v})
             x == d.data[d.tab[OldSpace][v].frame]
         IN  IF Areas(d, p, 1) = {} THEN d
             ELSE MapNew(d, p, {Min(Areas(d, p, 1))}, [k \in Page |-> x])

NewMachine(p, image) ==
    Load(NewTable([tab |-> [q \in Space |-> EmptyTable],
                   count |-> [f \in Frame |-> IF f = KernelFrame THEN 1 ELSE 0],
                   data |-> [f \in Frame |-> Fresh]], p), p, image)

\* The kernel has started the first program.
Init ==
    \E p \in Proc, image \in Images :
        LET m == NewMachine(p, image)
            n == TryAllocate(m, p, 1)
        IN  /\ Areas(m, p, 1) # {}
            /\ tab = n.tab /\ count = n.count /\ data = n.data
            /\ threads = [q \in Proc |-> IF q = p THEN <<StackPage(m, p)>> ELSE <<>>]
            /\ kept = [f \in Frame |-> 0]
            /\ epoch = FALSE /\ failed = "none"

-----------------------------------------------------------------------------
(* System calls, faults, and the ends of threads and processes.            *)

AllocateMemory(p, n) ==
    /\ Running /\ Live(p)
    /\ Becomes(TryAllocate(Mem, p, n))
    /\ UNCHANGED <<threads, kept, epoch, failed>>

ReleaseMemory(p, v, n) ==
    /\ Running /\ Live(p) /\ v + n - 1 \in Page
    /\ Becomes(ReleaseUser(Mem, p, v..(v + n - 1)))
    /\ UNCHANGED <<threads, kept, epoch, failed>>

\* A system call gives the kernel n pages from v on: all, or none if p may not
\* write to one of them.
Access(p, v, n) == MapUser(Mem, p, v..(v + n - 1))

Accessed(p, v, n) ==
    IF \A k \in v..(v + n - 1) : Writable(Mem, p, k)
    THEN FramesOf(Access(p, v, n), p, v..(v + n - 1)) ELSE {}

\* The kernel halts when it has no room for the mapping.
NoRoom(p, v, n) ==
    /\ Running /\ Live(p) /\ v + n - 1 \in Page
    /\ n > Room /\ Halt("room")

\* A system call lets the kernel write x to n pages from v on, if it may.
KernelWrite(p, v, n, x) ==
    /\ Running /\ Live(p) /\ v + n - 1 \in Page /\ n <= Room
    /\ LET m == Access(p, v, n)
       IN  /\ tab' = m.tab /\ count' = m.count
           /\ data' = Over([f \in Accessed(p, v, n) |-> x], m.data)
    /\ UNCHANGED <<threads, kept, epoch, failed>>

\* SYSCALL_FILESYSTEM_SEARCH_FILE and _DIRECTORY keep the pages of the path mapped.
SearchPath(p, v, n) ==
    /\ Running /\ Live(p) /\ v + n - 1 \in Page /\ n <= Room
    /\ Cardinality({f \in Frame : kept[f] > 0}) < MaxKept
    /\ LET m == Access(p, v, n)
           more == Accessed(p, v, n)
       IN  /\ tab' = m.tab /\ data' = m.data
           /\ count' = Over([f \in more |-> m.count[f] + 1], m.count)
           /\ kept' = Over([f \in more |-> kept[f] + 1], kept)
    /\ UNCHANGED <<threads, epoch, failed>>

\* The instruction of p that writes to v is not disturbed.
UserWrite(p, v, x) ==
    /\ Running /\ Live(p) /\ UserPage(Mem, p, v) /\ tab[p][v].rw
    /\ data' = [data EXCEPT ![tab[p][v].frame] = x]
    /\ UNCHANGED <<tab, count, threads, kept, epoch, failed>>

\* interrupt_0x0E for a write to a shared page; the instruction is repeated.
Fault(p, v) ==
    /\ Running /\ Live(p) /\ UserPage(Mem, p, v) /\ ~tab[p][v].rw /\ tab[p][v].cow
    /\ Becomes(Duplicate(Mem, p, {v}))
    /\ UNCHANGED <<threads, kept, epoch, failed>>

CreateThread(p) ==
    /\ Running /\ Live(p) /\ Len(threads[p]) < MaxThreads
    /\ Areas(Mem, p, 1) # {}
    /\ Becomes(TryAllocate(Mem, p, 1))
    /\ threads' = [threads EXCEPT ![p] = Append(@, StackPage(Mem, p))]
    /\ UNCHANGED <<kept, epoch, failed>>

\* __processShutdown: the threads, then the page table.
End(p) ==
    IF StackMissing(Mem, p, threads[p]) THEN Halt("stack")
    ELSE /\ Becomes(ReleaseTable(ReleaseStacks(Mem, p, threads[p]), p))
         /\ threads' = [threads EXCEPT ![p] = <<>>]
         /\ epoch' = ~epoch
         /\ UNCHANGED <<kept, failed>>

\* A process exits, is shut down by another one or has an unhandled fault.
ExitProcess(p) == Running /\ Live(p) /\ End(p)

\* __threadShutdown; the process ends with its last thread.
ExitThread(p, i) ==
    /\ Running /\ Live(p)
    /\ IF Len(threads[p]) = 1 THEN End(p)
       ELSE IF StackMissing(Mem, p, <<threads[p][i]>>) THEN Halt("stack")
       ELSE /\ Becomes(ReleaseStacks(Mem, p, <<threads[p][i]>>))
            /\ threads' = [threads EXCEPT ![p] = RemoveAt(@, i)]
            /\ UNCHANGED <<kept, epoch, failed>>

\* Thread i of p forks; the child starts with that thread alone.
Fork(p, i, c) ==
    /\ Running /\ Live(p) /\ ~Live(c)
    /\ Becomes(ForkTable(Mem, p, c))
    /\ threads' = [threads EXCEPT ![c] = <<threads[p][i]>>]
    /\ UNCHANGED <<kept, epoch, failed>>

\* p has no page table while the one of its program is saved.
Saved(m, p) ==
    [tab |-> [m.tab EXCEPT ![OldSpace] = m.tab[p], ![p] = EmptyTable],
     count |-> m.count, data |-> m.data]

\* The new address space of p with the image, the arguments and the environment.
Replaced(p, image, args, env) ==
    LET loaded == Load(NewTable(Saved(Mem, p), p), p, image)
    IN  ReleaseTable(CopyBlock(CopyBlock(loaded, p, args), p, env), OldSpace)

\* The other threads are shut down when the address space is the new one: each
\* takes a page of the program with it, if there is one where its stack was.
ExecuteProgram(p, i, image, args, env) ==
    /\ Running /\ Live(p)
    /\ LET new == Replaced(p, image, args, env)
           others == RemoveAt(threads[p], i)
           m == ReleaseStacks(new, p, others)
       IN  IF StackMissing(new, p, others) THEN Halt("execute")
           ELSE /\ Areas(m, p, 1) # {}
                /\ Becomes(TryAllocate(m, p, 1))
                /\ threads' = [threads EXCEPT ![p] = <<StackPage(m, p)>>]
                /\ failed' = IF others # <<>> THEN "program" ELSE failed
                /\ epoch' = ~epoch
                /\ UNCHANGED kept

Next ==
    \E p \in Proc :
        \/ \E n \in 0..Pages : AllocateMemory(p, n)
        \/ \E v \in Page, n \in 1..Pages : ReleaseMemory(p, v, n)
        \/ \E v \in Page, n \in 1..Room, x \in Content : KernelWrite(p, v, n, x)
        \/ \E v \in Page, n \in 1..(Room + 1) : SearchPath(p, v, n) \/ NoRoom(p, v, n)
        \/ \E v \in Virt, x \in Content : UserWrite(p, v, x)
        \/ \E v \in Virt : Fault(p, v)
        \/ CreateThread(p)
        \/ ExitProcess(p)
        \/ \E i \in DOMAIN threads[p] :
            \/ ExitThread(p, i)
            \/ \E c \in Proc : Fork(p, i, c)
            \/ \E image \in Images, args, env \in {0} \cup Blocks :
                  ExecuteProgram(p, i, image, args, env)

Spec == Init /\ [][Next]_vars

-----------------------------------------------------------------------------
(* Properties                                                              *)

\* Types of the page tables, the counts and the threads; a frame is mapped at
\* its own address only.
TypeOK ==
    /\ tab \in [Space -> [Page -> Entry \cup {Absent}]]
    /\ \A p \in Space, v \in Page : tab[p][v] # Absent => tab[p][v].frame[1] = v
    /\ count \in [Frame -> Nat]
    /\ data \in [Frame -> Value]
    /\ threads \in [Proc -> Seq(Virt)]
    /\ kept \in [Frame -> Nat]
    /\ epoch \in BOOLEAN
    /\ failed \in {"none", "program", "stack", "execute", "room"}

\* A frame is counted once for every process that shows it, whatever was
\* forked, duplicated, released, replaced or ended before: none is freed
\* while a process has it and none is kept when none has.
CountsMappings ==
    \A f \in Frame :
        count[f] = Cardinality({p \in Space : Shows(Mem, p, f)}) + kept[f]
                   + (IF f = KernelFrame THEN 1 ELSE 0)

\* Nobody can write to a frame that two processes show: the fork made both
\* read only, and the fault or the kernel duplicates before the first write.
NoSharedWrite ==
    \A f \in Frame \ {KernelFrame} : \A p, q \in Space :
        p # q /\ Shows(Mem, p, f) /\ Shows(Mem, q, f) => ~tab[p][f[1]].rw

\* Every process has the pages the kernel needs to enter it, and no program
\* can reach them or lose them with SYSCALL_RELEASE_MEMORY.  No address space
\* is left of a process that has ended or of a program that was replaced.
KernelPagesKept ==
    /\ \A p \in Proc :
          IF Live(p) THEN tab[p][KPage] # Absent /\ tab[p][KPage].frame = KernelFrame
                          /\ ~tab[p][KPage].user
          ELSE tab[p] = EmptyTable
    /\ tab[OldSpace] = EmptyTable

Memories == INSTANCE SeparateMemories WITH
    memory <- [p \in Proc |-> [v \in Virt |->
                  IF tab[p][v] = Absent THEN Absent ELSE data[tab[p][v].frame]]]

\* Sharing is invisible: every process sees a memory of its own.
Isolation == Memories!Spec

\* When a thread ends its stack is still there, as pagingReleasePhysMem asserts.
StackThere == failed # "stack"

\* A program that starts another one with several threads gets there.
ExecuteReturns == failed # "execute"

\* The program that was started has all its pages.
ExecuteComplete == failed # "program"

\* The kernel reaches user memory without a system failure, whatever the length.
AccessReturns == failed # "room"

\* No system call leaves user memory mapped in the kernel.
AccessEnds == \A f \in Frame : kept[f] = 0

\* Frames are counted exactly, and every process can enter the kernel.
MappingsSound == TypeOK /\ CountsMappings /\ KernelPagesKept
====
