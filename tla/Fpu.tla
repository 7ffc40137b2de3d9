-------------------------------- MODULE Fpu --------------------------------
(***************************************************************************)
(* Lazy switching of the FPU (interrupt/interrupt.c, process/thread.c,     *)
(* hardware/gdt.c).  The registers keep the state of the last thread that  *)
(* used them.  When another thread uses the FPU the processor traps, and   *)
(* the handler saves them for the old thread and loads them for the new.   *)
(*                                                                         *)
(* The content of the registers is a model value: Fresh after fninit, and  *)
(* after fnsave, which initializes them as well.                           *)
(***************************************************************************)
EXTENDS Integers, FiniteSets

CONSTANTS
    Tasks,   \* struct thread objects
    Contents,  \* results of computations
    Fresh,     \* an initialized FPU
    None       \* NULL

ASSUME FpuAssumption == Fresh \notin Contents /\ None \notin Tasks

VARIABLES
    regs,            \* the registers of the FPU
    ts,              \* the flag TS: an FPU instruction traps
    current,         \* the thread that is running
    alive,           \* threads that exist
    lastFPUthread,   \* the thread regs belong to, or None
    fpuInitialized,  \* fpuInitialized[t]: t->fpuInitialized
    fpu,             \* fpu[t]: t->fpu, the saved registers
    expect,          \* history: what thread t left in its registers
    cause,           \* history: what happened to t in a way that damages it
    wrong            \* history: causes for which a thread found other content

fpuVars == <<regs, ts, current, alive, lastFPUthread, fpuInitialized, fpu, expect, cause, wrong>>

Causes == {"none", "fork", "execute"}

FpuInit ==
    /\ regs = Fresh /\ ts = TRUE
    /\ \E t \in Tasks : alive = {t} /\ current = t
    /\ lastFPUthread = None
    /\ fpuInitialized = [t \in Tasks |-> FALSE]
    /\ fpu = [t \in Tasks |-> Fresh]
    /\ expect = [t \in Tasks |-> Fresh]
    /\ cause = [t \in Tasks |-> "none"]
    /\ wrong = {}

\* The hardware switch to a task sets TS, and tssRunUsermodeThread clears it for
\* the thread the registers belong to.
TrapsFor(t) == t # lastFPUthread

\* tssRunUsermodeThread: t is given the processor.
Run(t) ==
    /\ t \in alive /\ t # current
    /\ current' = t
    /\ ts' = TrapsFor(t)
    /\ UNCHANGED <<regs, alive, lastFPUthread, fpuInitialized, fpu, expect, cause, wrong>>

\* The program computes: it goes on from its registers to other content.
Compute(t, v) ==
    /\ t = current /\ t \in alive /\ ~ts
    /\ wrong' = IF regs = expect[t] THEN wrong ELSE wrong \cup {cause[t]}
    /\ regs' = v
    /\ expect' = [expect EXCEPT ![t] = v]
    /\ cause' = [cause EXCEPT ![t] = IF @ = "fork" THEN "none" ELSE @]
    /\ UNCHANGED <<ts, current, alive, lastFPUthread, fpuInitialized, fpu>>

MutSaved ==   \* the state of the last thread is not saved
    fpu
\* fnsave to the last thread, if there is one
Saved == IF lastFPUthread = None THEN fpu ELSE [fpu EXCEPT ![lastFPUthread] = regs]

\* interrupt_0x07
NotAvailable(t) ==
    /\ t = current /\ t \in alive /\ ts
    /\ fpu' = Saved
    /\ regs' = IF fpuInitialized[t] THEN fpu[t] ELSE Fresh
    /\ fpuInitialized' = [fpuInitialized EXCEPT ![t] = TRUE]
    /\ lastFPUthread' = t
    /\ ts' = FALSE
    /\ UNCHANGED <<current, alive, expect, cause, wrong>>

MutForget(t) ==   \* the pointer stays behind the thread's end
    lastFPUthread
\* __threadShutdown, __threadDestroy
Forget(t) == IF lastFPUthread = t THEN None ELSE lastFPUthread

\* A thread ends: it exits, or another one shuts it down.
Exit(t) ==
    /\ t \in alive /\ Cardinality(alive) > 1
    /\ alive' = alive \ {t}
    /\ lastFPUthread' = Forget(t)
    /\ cause' = [cause EXCEPT ![t] = "none"]
    /\ expect' = [expect EXCEPT ![t] = Fresh]
    /\ UNCHANGED <<regs, ts, current, fpuInitialized, fpu, wrong>>

\* interrupt_0x10: the state is saved and the process ends.
Exception(t) ==
    /\ t = current /\ t \in alive /\ ~ts /\ Cardinality(alive) > 1
    /\ fpu' = Saved /\ regs' = Fresh
    /\ alive' = alive \ {t}
    /\ lastFPUthread' = Forget(t)
    /\ cause' = [cause EXCEPT ![t] = "none"]
    /\ expect' = [expect EXCEPT ![t] = Fresh]
    /\ UNCHANGED <<ts, current, fpuInitialized, wrong>>

\* SYSCALL_CREATE_THREAD: threadCreate without an original
Create(t, c) ==
    /\ t = current /\ t \in alive /\ c \notin alive
    /\ alive' = alive \cup {c}
    /\ fpuInitialized' = [fpuInitialized EXCEPT ![c] = FALSE]
    /\ expect' = [expect EXCEPT ![c] = Fresh]
    /\ cause' = [cause EXCEPT ![c] = "none"]
    /\ UNCHANGED <<regs, ts, current, lastFPUthread, fpu, wrong>>

\* The state a fork copies: the registers if they belong to the original.
Copied(t) == IF lastFPUthread = t THEN regs ELSE fpu[t]

\* SYSCALL_FORK: threadCreate with an original.  If it has to save the registers
\* they are initialized, and the original still counts as their owner.
Fork(t, c) ==
    /\ t = current /\ t \in alive /\ c \notin alive
    /\ alive' = alive \cup {c}
    /\ fpuInitialized' = [fpuInitialized EXCEPT ![c] = fpuInitialized[t]]
    /\ expect' = [expect EXCEPT ![c] = expect[t]]
    /\ LET saves == fpuInitialized[t] /\ lastFPUthread = t
       IN  /\ fpu' = IF fpuInitialized[t]
                     THEN [fpu EXCEPT ![t] = Copied(t), ![c] = Copied(t)] ELSE fpu
           /\ regs' = IF saves THEN Fresh ELSE regs
           /\ cause' = [cause EXCEPT ![c] = cause[t],
                                     ![t] = IF saves /\ @ = "none" THEN "fork" ELSE @]
    /\ UNCHANGED <<ts, current, lastFPUthread, wrong>>

\* SYSCALL_EXECUTE_PROGRAM: a new program starts in t.
Execute(t) ==
    /\ t = current /\ t \in alive
    /\ fpuInitialized' = [fpuInitialized EXCEPT ![t] = FALSE]
    /\ expect' = [expect EXCEPT ![t] = Fresh]
    /\ cause' = [cause EXCEPT ![t] = IF lastFPUthread = t THEN "execute" ELSE "none"]
    /\ UNCHANGED <<regs, ts, current, alive, lastFPUthread, fpu, wrong>>

FpuNext ==
    \/ \E t \in Tasks : Run(t) \/ NotAvailable(t) \/ Exit(t) \/ Exception(t) \/ Execute(t)
    \/ \E t \in Tasks, v \in Contents : Compute(t, v)
    \/ \E t, c \in Tasks : Create(t, c) \/ Fork(t, c)

FpuSpec == FpuInit /\ [][FpuNext]_fpuVars

-----------------------------------------------------------------------------
(* Properties *)

\* Types, and the flag TS: only the owner of the registers runs without it.
FpuTyped ==
    /\ regs \in Contents \cup {Fresh} /\ ts \in BOOLEAN
    /\ current \in Tasks /\ alive \subseteq Tasks
    /\ lastFPUthread \in alive \cup {None}
    /\ fpuInitialized \in [Tasks -> BOOLEAN]
    /\ fpu \in [Tasks -> Contents \cup {Fresh}]
    /\ expect \in [Tasks -> Contents \cup {Fresh}]
    /\ cause \in [Tasks -> Causes] /\ wrong \subseteq Causes

\* A thread that has neither forked nor been given a new program while it owned
\* the registers always finds what it left in them, over any switches, forks and
\* ends of other threads: the damage the two below do stays with the thread.
DamageConfined == "none" \notin wrong

\* A thread that forks finds what it left in its registers: the handler saves
\* the content so that "the current task can safely alter the content".
ForkKeepsState == "fork" \notin wrong

\* A new program finds an initialized FPU and then what it left in it.
ExecuteStartsFresh == "execute" \notin wrong

-----------------------------------------------------------------------------
(* The inductive invariant behind DamageConfined *)

\* Wherever a thread's state is, registers or memory, it is what the thread left.
StateKept ==
    \A t \in alive : cause[t] = "none" =>
        IF lastFPUthread = t THEN regs = expect[t]
        ELSE expect[t] = IF fpuInitialized[t] THEN fpu[t] ELSE Fresh

\* The thread the registers belong to runs without the trap, and no other.
OwnerRuns == current \in alive => ts = TrapsFor(current)

\* The FPU was initialized for the thread the registers belong to, unless it was
\* given a new program meanwhile.
OwnerInitialized ==
    lastFPUthread # None /\ cause[lastFPUthread] # "execute" => fpuInitialized[lastFPUthread]

FpuInv == FpuTyped /\ DamageConfined /\ StateKept /\ OwnerRuns /\ OwnerInitialized
====
