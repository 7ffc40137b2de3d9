---------------------------- MODULE MCInterrupts ----------------------------
(***************************************************************************)
(* Model checking instance of Timer, Pic and Keyboard: what interrupts     *)
(* drive.  The timers, the interrupt controllers and the decoder of the    *)
(* keyboard share no state, so a behaviour checks one of them and leaves   *)
(* the others as they were: part says which.                               *)
(*                                                                         *)
(* Two threads and two timers, one of which wakes all its threads; the     *)
(* lines of the timer and the keyboard, a line that picInit leaves open,   *)
(* and two lines of the slave, one of which picInit masks; all keys.       *)
(***************************************************************************)
EXTENDS Timer, Pic

CONSTANTS t1, t2, all, one, Fake, NoChar

VARIABLES part,
          down, wire, ext1Code, ext2Code, modifiers, out

keyVars == <<down, wire, ext1Code, ext2Code, modifiers, out>>

MCThreads == {t1, t2}
MCTimers == {all, one}
MCWakeupAll == [x \in MCTimers |-> x = all]

\* Expiry at once, between two interrupts and on one; one-shot timers, periods
\* shorter and longer than the time between two interrupts.
MCTimeouts == {0, 1, 4}
MCIntervals == {0, 1, 3}

MCDevices == {0, 1, 4, 8, 12}
MCKeys == {"shiftl", "shiftr", "ctrll", "ctrlr", "alt", "altgr", "caps", "a", "pause"}

K == INSTANCE Keyboard WITH Keys <- MCKeys, None <- NoChar

ASSUME KeyAssumption == K!KeyboardAssumption

MCInit ==
    /\ part \in {"timer", "pic", "keyboard"}
    /\ Init /\ PicInit /\ K!Init

MCNext ==
    /\ UNCHANGED part
    /\ \/ part = "timer" /\ Next /\ UNCHANGED <<picVars, keyVars>>
       \/ part = "pic" /\ PicNext /\ UNCHANGED <<vars, keyVars>>
       \/ part = "keyboard" /\ K!Next /\ UNCHANGED <<vars, picVars>>

\* timer_irq runs until it returns, and the processor takes an interrupt that
\* stays signalled.
MCSpec ==
    /\ MCInit /\ [][MCNext]_<<part, vars, picVars, keyVars>>
    /\ WF_vars(IrqExpire \/ IrqEnd)
    /\ WF_picVars(Handle)

-----------------------------------------------------------------------------
(* The property of the keyboard, stated in its module.                     *)

\* After the last byte of a scan code the decoder waits for a new one, and a
\* modifier that is on belongs to a key that is down.
DecoderSound == part = "keyboard" => K!DecoderSound
====
