------------------------------ MODULE Startup -------------------------------
(***************************************************************************)
(* From GRUB to the tps: pic_init (kernel/core/pic.c) word by word,        *)
(* intr_init (kernel/core/intr.c) gate by gate, and the handler that tp2   *)
(* or tp5 then writes in a gate of the loaded table.  Devices call and     *)
(* non-maskable interrupts come at any time; the kernel runs with its      *)
(* interrupts off (entry.s).                                               *)
(***************************************************************************)
EXTENDS Pic, Trampolines, Sequences

CONSTANTS
    idt_trampoline,     \* where the linker puts it
    Installs            \* what a tp may install: [nr, handler, ring]

InstallsAssumption ==
    /\ idt_trampoline \in Nat
    /\ Installs \subseteq [nr : (0 .. 255) \ {2}, handler : Nat, ring : {0, 3}]

VARIABLES
    chip,       \* the two 8259s, by their ports
    out,        \* words that pic_init has written
    gate,       \* IDT
    built,      \* gates that intr_init has built
    idtr,       \* the limit of the table that is loaded, -1 for GRUB's
    install,    \* what the tp installs, and the step it is at
    event       \* the last event: its vector, and where the processor went

vars == <<pics, chip, out, gate, built, idtr, install, event>>

Weight == << 1, 2, 4, 8, 16, 32, 64, 128 >>
Bits(n) == {k \in 0 .. 7 : (n \div Weight[k + 1]) % 2 = 1}

Half == 65536       \* an offset is in two halves
Null == [offset_1 |-> 0, offset_2 |-> 0, type |-> 0, dpl |-> 0, p |-> 0]
NoEvent == [by |-> "none", nr |-> -1, to |-> -1]

\* The BIOS set the chips up for real mode, GRUB may have masked them
Init ==
    /\ \E imr \in {{}, 0 .. 7} :
           chip = [c \in {PIC1, PIC2} |->
                      [step |-> "ready", icw4 |-> FALSE, auto |-> FALSE, imr |-> imr,
                       base |-> IF c = PIC1 THEN 8 ELSE 112,
                       cascade |-> IF c = PIC1 THEN Weight[Cascade + 1] ELSE Cascade]]
    /\ PicInit
    /\ out = 0 /\ built = 0 /\ idtr = -1 /\ event = NoEvent
    /\ gate = [v \in Vector |-> Null]
    /\ \E i \in Installs : install = [what |-> i, step |-> "low"]

-----------------------------------------------------------------------------
(* The 8259 *)

\* ICW1 has bit 4, and starts the sequence of the words that follow
ICW1(c, d) ==
    /\ 4 \in Bits(d)
    /\ chip' = [chip EXCEPT ![c].step = "icw2", ![c].imr = {}, ![c].auto = FALSE,
                            ![c].icw4 = 0 \in Bits(d)]
    /\ irr' = {i \in irr : IF c = PIC1 THEN i >= 8 ELSE i < 8}
    /\ IF c = PIC1 THEN isr1' = {} /\ UNCHANGED isr2 ELSE isr2' = {} /\ UNCHANGED isr1

Data(c, d) ==
    /\ LET k == chip[c] IN
       chip' = [chip EXCEPT ![c] =
          CASE k.step = "icw2" -> [k EXCEPT !.step = "icw3", !.base = 8 * (d \div 8)]
            [] k.step = "icw3" ->
                  [k EXCEPT !.step = IF k.icw4 THEN "icw4" ELSE "ready", !.cascade = d]
            [] k.step = "icw4" -> [k EXCEPT !.step = "ready", !.auto = 1 \in Bits(d)]
            [] OTHER -> [k EXCEPT !.imr = Bits(d)]]
    /\ UNCHANGED pics

(* pic_init: the chip, its line A0, the word.  (A definition whose name starts with
   Bad is a faulty variant of the one that follows, a bug the properties must notice.) *)
BadWords ==
    << <<PIC1, 0, 17>>, <<PIC2, 0, 17>>, <<PIC1, 1, 32>>, <<PIC1, 1, 32 + 8>>,
       <<PIC2, 1, 4>>, <<PIC2, 1, 2>>, <<PIC1, 1, 1>>, <<PIC2, 1, 1>> >>
Words ==
    << <<PIC1, 0, 17>>, <<PIC2, 0, 17>>, <<PIC1, 1, 32>>, <<PIC2, 1, 32 + 8>>,
       <<PIC1, 1, 4>>, <<PIC2, 1, 2>>, <<PIC1, 1, 1>>, <<PIC2, 1, 1>> >>

pic_init ==
    /\ out < Len(Words)
    /\ LET w == Words[out + 1]
       IN  IF w[2] = 0 THEN ICW1(w[1], w[3]) ELSE Data(w[1], w[3])
    /\ out' = out + 1
    /\ UNCHANGED <<gate, built, idtr, install, event>>

-----------------------------------------------------------------------------
(* intr_init *)

IDT_ISR_ALGN == 16
INTR_GATE == 14         \* SEG_DESC_SYS_INTR_GATE_32

build_int_desc(isr) ==
    [offset_1 |-> isr % Half, offset_2 |-> isr \div Half, type |-> INTR_GATE, dpl |-> 0,
     p |-> 1]

intr_init ==
    /\ out = Len(Words) /\ idtr = -1
    /\ IF built < IDT_NR_DESC
       THEN /\ gate' = [gate EXCEPT ![built] =
                            build_int_desc(idt_trampoline + built * IDT_ISR_ALGN)]
            /\ built' = built + 1 /\ UNCHANGED idtr
       ELSE idtr' = 8 * IDT_NR_DESC - 1 /\ UNCHANGED <<gate, built>>
    /\ UNCHANGED <<pics, chip, out, install, event>>

-----------------------------------------------------------------------------
(* tp() of tp2 and tp5: the halves of an address, then the ring *)

install_low ==
    /\ idtr # -1 /\ install.step = "low"
    /\ gate' = [gate EXCEPT ![install.what.nr].offset_1 = install.what.handler % Half]
    /\ install' = [install EXCEPT !.step = "high"]
    /\ UNCHANGED <<pics, chip, out, built, idtr, event>>

install_high ==
    /\ install.step = "high"
    /\ gate' = [gate EXCEPT ![install.what.nr].offset_2 = install.what.handler \div Half]
    /\ install' = [install EXCEPT !.step = IF install.what.ring = 3 THEN "dpl" ELSE "done"]
    /\ UNCHANGED <<pics, chip, out, built, idtr, event>>

\* dsc->dpl = 3
install_dpl ==
    /\ install.step = "dpl"
    /\ gate' = [gate EXCEPT ![install.what.nr].dpl = 3]
    /\ install' = [install EXCEPT !.step = "done"]
    /\ UNCHANGED <<pics, chip, out, built, idtr, event>>

-----------------------------------------------------------------------------
(* Events *)

\* Through GRUB's table, if there is one, to nobody knows where
Target(v) ==
    IF idtr = -1 \/ gate[v].p = 0 \/ gate[v].type # INTR_GATE THEN -1
    ELSE gate[v].offset_2 * Half + gate[v].offset_1

Take(by, v) == event' = [by |-> by, nr |-> v, to |-> Target(v)]

\* Its handler returns; without one the processor resets
NMI ==
    /\ event = NoEvent
    /\ Take("nmi", 2)
    /\ UNCHANGED <<pics, chip, out, gate, built, idtr, install>>

\* int, of what is installed, from the ring that its tp is in by then
SoftwareInterrupt ==
    /\ event = NoEvent /\ install.step = "done"
    /\ Take("int",
            IF gate[install.what.nr].dpl >= install.what.ring THEN install.what.nr ELSE 13)
    /\ UNCHANGED <<pics, chip, out, gate, built, idtr, install>>

Return ==
    /\ event # NoEvent /\ event.to # -1
    /\ event' = NoEvent
    /\ UNCHANGED <<pics, chip, out, gate, built, idtr, install>>

RaiseLine ==
    /\ \E i \in Irqs \ irr : Raise(i)
    /\ UNCHANGED <<chip, out, gate, built, idtr, install, event>>

Run == event = NoEvent /\
       (pic_init \/ intr_init \/ install_low \/ install_high \/ install_dpl)
Next == Run \/ NMI \/ SoftwareInterrupt \/ Return \/ RaiseLine

Spec == Init /\ [][Next]_vars

-----------------------------------------------------------------------------
(* Properties *)

\* The vector that the chips give for a line; the slave answers to its cascade number
VectorGiven(i) ==
    IF i < 8 THEN chip[PIC1].base + i
    ELSE IF chip[PIC2].cascade \in Bits(chip[PIC1].cascade) THEN chip[PIC2].base + (i - 8)
    ELSE -1

\* pic_init leaves the chips as the rest of the kernel takes them to be: nothing masked,
\* nothing in service, no automatic end of interrupt, the vectors and the cascade of
\* pic.c's comments (module Pic), whatever the BIOS and GRUB left and lines called.
ControllersReady ==
    out = Len(Words) =>
        /\ \A c \in {PIC1, PIC2} :
              chip[c].step = "ready" /\ chip[c].imr = {} /\ ~chip[c].auto
        /\ \A i \in 0 .. 15 : VectorGiven(i) = VectorOf(i)
        /\ isr1 = {} /\ isr2 = {}

Place(v) == idt_trampoline + StartOf[v]

\* From lidt on every vector has a gate; it leads to the trampoline that pushes that
\* vector, in the midst of the jumps of another if the alignments of intr.h and idt.s
\* differ, unless a tp has changed it.
GatesLead == idtr # -1 => \A v \in Vector \ {install.what.nr} : Target(v) = Place(v)

\* The vector whose trampoline is at an address
TrampolineAt(a) == CHOOSE v \in Vector : Place(v) = a

\* A device's line leads, through the chips, its gate and its trampoline, to the end of
\* interrupt of exactly the chips that have it in service.
LinesAcknowledged ==
    idtr # -1 =>
        \A i \in (0 .. 15) \ {Cascade} :
            VectorGiven(i) # install.what.nr =>
                AcksOf(TrampolineAt(Target(VectorGiven(i))))
                    = IF i < 8 THEN {PIC1} ELSE {PIC1, PIC2}

\* The handler that a tp installs is the one that its int reaches, from the ring that its
\* tp is in; an NMI goes to its own trampoline, also between the writes of that gate.
HandlerReached ==
    idtr # -1 =>
        /\ event.by = "int" => event.nr = install.what.nr /\ event.to = install.what.handler
        /\ event.by = "nmi" /\ event.to # -1 => event.to = Place(2)
=============================================================================
