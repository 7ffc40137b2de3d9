-------------------------------- MODULE Pic --------------------------------
(***************************************************************************)
(* The interrupt controller (hardware/pic.c): sixteen lines on two chips,  *)
(* of which the second, the slave, reports on line 2 of the first; the     *)
(* mask register of each chip; the table of callbacks; and the handler     *)
(* that runs a callback and acknowledges. The kernel runs with interrupts  *)
(* off, so a handler is one step. A set stands for a register's bits.      *)
(***************************************************************************)
EXTENDS Integers, FiniteSets

CONSTANTS Devices,    \* lines that some device is connected to
          MaxRaises   \* how often a device asks for an interrupt (bound)

IRQ_COUNT == 16
IRQ_SLAVE == 2
Irqs == 0..(IRQ_COUNT - 1)

ASSUME PicAssumption == Devices \subseteq Irqs \ {IRQ_SLAVE} /\ MaxRaises \in Nat

VARIABLES irqTable,    \* lines with a callback
          mask,        \* masked lines, of both chips
          pending,     \* lines the chips have seen and not delivered
          inService,   \* lines delivered and not acknowledged
          raises,      \* interrupts each device has asked for
          unhandled,   \* lines reported as unhandled
          reserved     \* history: lines that had a callback at some time

picVars == <<irqTable, mask, pending, inService, raises, unhandled, reserved>>

-----------------------------------------------------------------------------
(* The chips.                                                              *)

Line(irq) == IF irq >= 8 THEN IRQ_SLAVE ELSE irq
Blocked(irq) == \E s \in inService : Line(s) <= Line(irq)
\* A line of the slave passes the masks of both chips.
Signalled(irq) == irq \in pending /\ irq \notin mask /\ Line(irq) \notin mask /\ ~Blocked(irq)
Before(i, j) == Line(i) < Line(j) \/ (Line(i) = Line(j) /\ i < j)

Raise(irq) ==
    /\ raises[irq] < MaxRaises
    /\ raises' = [raises EXCEPT ![irq] = @ + 1]
    /\ pending' = pending \cup {irq}
    /\ UNCHANGED <<irqTable, mask, inService, unhandled, reserved>>

-----------------------------------------------------------------------------
(* The driver.                                                             *)

Bits(value) == {b \in 0..7 : (value \div 2^b) % 2 = 1}

MutMaskBit(irq) == {irq} \cap 0..7

\* 1 << irq in the eight bits of its chip's register; the slave's are 8 to 15.
MaskBit(irq) == IF irq < 8 THEN {irq} ELSE {8 + bit : bit \in {irq - 8} \cap 0..7}

PicReserveIRQ(irq) ==
    /\ irq \notin irqTable
    /\ irqTable' = irqTable \cup {irq}
    /\ mask' = mask \ MaskBit(irq)
    /\ reserved' = reserved \cup {irq}
    /\ UNCHANGED <<pending, inService, raises, unhandled>>

MutPicFreeIRQ(irq) ==
    /\ irq \in irqTable
    /\ irqTable' = irqTable \ {irq}
    /\ UNCHANGED <<mask, pending, inService, raises, unhandled, reserved>>

PicFreeIRQ(irq) ==
    /\ irq \in irqTable
    /\ irqTable' = irqTable \ {irq}
    /\ mask' = mask \cup MaskBit(irq)
    /\ UNCHANGED <<pending, inService, raises, unhandled, reserved>>

MutAcknowledged(irq, service) == IF irq >= 8 THEN service \ {irq} ELSE service

\* Each chip an EOI goes to ends what it delivered last; the slave gets one
\* for its own lines only.
Acknowledged(irq, service) == service \ {irq}

\* interrupt_irq
InterruptIrq(irq) ==
    /\ Signalled(irq) /\ \A other \in Irqs : Signalled(other) => ~Before(other, irq)
    /\ pending' = pending \ {irq}
    /\ inService' = Acknowledged(irq, inService \cup {irq})
    /\ unhandled' = IF irq \in irqTable THEN unhandled ELSE unhandled \cup {irq}
    /\ UNCHANGED <<irqTable, mask, raises, reserved>>

\* picInit: 0xF & (~IRQ_SLAVE) for the master, 0xF for the slave.
PicInit ==
    /\ irqTable = {}
    /\ mask = (Bits(15) \ Bits(IRQ_SLAVE)) \cup {b + 8 : b \in Bits(15)}
    /\ pending = {} /\ inService = {}
    /\ raises = [irq \in Devices |-> 0]
    /\ unhandled = {} /\ reserved = {}

Handle == \E irq \in Irqs : InterruptIrq(irq)

PicNext ==
    \/ Handle
    \/ \E irq \in Devices : Raise(irq) \/ PicReserveIRQ(irq) \/ PicFreeIRQ(irq)

\* The processor takes an interrupt that stays signalled: the kernel idles
\* and programs run with interrupts on.
PicSpec == PicInit /\ [][PicNext]_picVars /\ WF_picVars(Handle)

-----------------------------------------------------------------------------
(* Properties                                                              *)

\* Types of the masks and of the lines; only lines of devices are ever used.
LinesTyped ==
    /\ irqTable \subseteq Devices /\ mask \subseteq Irqs /\ pending \subseteq Devices
    /\ inService \subseteq Devices /\ unhandled \subseteq Devices
    /\ irqTable \subseteq reserved /\ reserved \subseteq Devices
    /\ raises \in [Devices -> 0..MaxRaises]

\* picReserveIRQ and picFreeIRQ, in any order, keep every line with a
\* callback open in the register of its own chip.
ReservedOpen == irqTable \cap mask = {}

\* No interrupt arrives without a callback on a line that once had one:
\* picFreeIRQ closes it, although the device may have asked before, and may
\* ask later. (pic.c:40-41 offers picFreeIRQ to drivers; the kernel's own do
\* not call it.)
FreedQuiet == [][(unhandled' \ unhandled) \cap reserved = {}]_picVars

\* An interrupt of the master with a callback is delivered or loses the
\* callback, whatever other lines do: every handler acknowledges what it got.
Served ==
    \A irq \in Devices \cap 0..7 :
        irq \in pending /\ irq \in irqTable ~> irq \notin pending \/ irq \notin irqTable

\* All lines but the slave's are closed until somebody reserves them.
NoneUnhandled == unhandled = {}

\* A device driver gets notified on the line it reserved, on either chip.
ServedAll ==
    \A irq \in Devices :
        irq \in pending /\ irq \in irqTable ~> irq \notin pending \/ irq \notin irqTable

\* The masks of both chips agree with the table of callbacks.
LinesSound == LinesTyped /\ ReservedOpen
====
