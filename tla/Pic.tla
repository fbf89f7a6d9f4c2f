-------------------------------- MODULE Pic ---------------------------------
(***************************************************************************)
(* The two interrupt controllers as pic_init (kernel/core/pic.c) sets them *)
(* up: cascaded on the master's line 2, edge triggered, every line open,   *)
(* normal end of interrupt, fully nested.  IRQ 0-7 are the master's lines, *)
(* 8-15 the slave's.  What the 8259 does of itself is modelled from its    *)
(* use in kernel/core/idt.s and the comments of kernel/include/pic.h.      *)
(***************************************************************************)
EXTENDS Integers, FiniteSets

CONSTANT Irqs       \* the lines that devices drive

IrqBase1 == 32          \* ICW2
IrqBase2 == 32 + 8
Cascade == 2            \* ICW3

ASSUME IrqsAssumption == Irqs \subseteq (0 .. 15) \ {Cascade}

VARIABLES
    irr,    \* the requests latched
    isr1,   \* the lines in service, of the master
    isr2    \* and of the slave

pics == <<irr, isr1, isr2>>

PicInit == irr = {} /\ isr1 = {} /\ isr2 = {}

\* Lower lines come first
Least(s) == CHOOSE i \in s : \A j \in s : i <= j
Before(i, s) == \A j \in s : i < j

\* A line is heard if no line as urgent or more is in service
Heard(s, isr) == s # {} /\ Before(Least(s), isr)

SlaveLines == {i - 8 : i \in {k \in irr : k >= 8}}
SlaveAsserts == Heard(SlaveLines, isr2)
MasterLines == {k \in irr : k < 8} \cup (IF SlaveAsserts THEN {Cascade} ELSE {})

\* The INTR line of the processor
Asserts == Heard(MasterLines, isr1)

\* A request that the master, or the slave, made and that may vanish
MasterMayVanish == \E i \in Irqs : i < 8 /\ Before(i, isr1)
SlaveMayVanish == \E i \in Irqs : i >= 8 /\ Before(i - 8, isr2) /\ Before(Cascade, isr1)

\* A device raises its line
Raise(i) == irr' = irr \cup {i} /\ UNCHANGED <<isr1, isr2>>

\* The acknowledge cycle: the line heard goes in service, and gives its vector
Acknowledged ==
    IF Least(MasterLines) = Cascade THEN 8 + Least(SlaveLines) ELSE Least(MasterLines)

VectorOf(i) == IF i < 8 THEN IrqBase1 + i ELSE IrqBase2 + (i - 8)

Acknowledge ==
    /\ irr' = irr \ {Acknowledged}
    /\ isr1' = isr1 \cup {IF Acknowledged < 8 THEN Acknowledged ELSE Cascade}
    /\ isr2' = isr2 \cup (IF Acknowledged < 8 THEN {} ELSE {Acknowledged - 8})

\* A non-specific end of interrupt retires the most urgent line in service
Retire(isr) == IF isr = {} THEN {} ELSE isr \ {Least(isr)}
=============================================================================
