----------------------------- MODULE Interrupts -----------------------------
(***************************************************************************)
(* From an event to the handler and back: the gates of intr_init, the      *)
(* trampolines of kernel/core/idt.s, the vectors' dispatch by intr_hdlr    *)
(* and excp_hdlr, and the handlers that tp2 and tp5 install in the IDT.    *)
(*                                                                         *)
(* Code of ring 0 (the kernel's, or a tp's) or of ring 3 runs, and is      *)
(* interrupted by its own exceptions and `int` instructions, by the lines  *)
(* of the PICs when it has interrupts on, and by non-maskable interrupts,  *)
(* which interrupt the trampolines and the handlers too.  The eight        *)
(* general registers are one value; a stack holds words that know which    *)
(* register was pushed.                                                    *)
(***************************************************************************)
EXTENDS Pic, Sequences

CONSTANTS
    Vectors,    \* the exceptions the processor may raise
    IntVectors, \* the vectors of the `int` instructions of the code
    Gpr,        \* the values of the registers the code may hold
    MaxRaise, MaxNMI    \* bounds on the lines raised and on the NMIs

\* The exceptions for which the processor pushes an error code
ProcessorCodes == {8, 10, 11, 12, 13, 14, 17}

ASSUME BoundsAssumption == MaxRaise \in Nat /\ MaxNMI \in Nat
ASSUME GprAssumption == Gpr \subseteq Nat \ {0}
ASSUME VectorsAssumption == Vectors \subseteq (0 .. 19) \ {2}
\* No code makes an `int` of a vector with an error code, or of an IRQ's
ASSUME IntAssumption ==
    IntVectors \subseteq ({3, 4, 5} \cup 20 .. 31 \cup 48 .. 255)

VARIABLES
    cpu,            \* the registers: eip, cs (the ring), flags (1 if interrupts are on), gpr
    stack,          \* the stack of ring 0, the last word pushed first
    idt,            \* the vectors whose gate was changed, and to what
    event,          \* the vector and error code last delivered, per handler under way
    interrupted,    \* what each handler under way interrupted: history
    raises, nmis    \* the bounded events so far

kernel == <<idt, raises, nmis>>
vars == <<cpu, stack, irr, isr1, isr2, event, interrupted, kernel>>

\* An instruction address: a label, and the vector for the trampolines' own
Code(k) == <<"code", k>>
At(label) == <<label, 0>>
Word(reg, val) == [reg |-> reg, val |-> val]
Push(w) == stack' = w \o stack
Drop(n) == stack' = SubSeq(stack, n + 1, Len(stack))

\* The word at a depth, or a value no context has if another register is there
Read(i, reg, junk) ==
    IF i <= Len(stack) /\ stack[i].reg = reg THEN stack[i].val ELSE junk

running == cpu.eip \in {Code(0), Code(1)}

\* The code's next instruction runs when the processor has no interrupt to take
Execute == running /\ ~(cpu.flags = 1 /\ Asserts)

Goto(label) == [cpu EXCEPT !.eip = At(label)]

\* After intr_init; a tp may then have installed its own handler.  Ring 0 runs,
\* with interrupts off (entry.s).
Init ==
    /\ cpu \in [eip : {Code(0)}, cs : {0}, flags : {0}, gpr : Gpr]
    /\ idt \in {[v \in {} |-> ""], [v \in {3} |-> "bp_handler"],
                [v \in {48} |-> "syscall_isr"]}
    /\ stack = << >> /\ event = << >> /\ interrupted = << >>
    /\ PicInit
    /\ raises = 0 /\ nmis = 0

-----------------------------------------------------------------------------
(* Delivery, by the processor through the IDT *)

\* The gates are interrupt gates: they turn interrupts off.  (A definition whose
\* name starts with Bad is a faulty variant of the one that follows, a bug the
\* properties must notice.)
BadGateFlags == cpu.flags
GateFlags == 0

Handler(v) == IF v \in DOMAIN idt THEN <<idt[v], v>> ELSE <<"idt_trampoline", v>>

\* An event with vector v, that will resume at eip.  From ring 3 the processor
\* changes to the stack of the TSS, which is empty.
Deliver(v, codes, eip) ==
    /\ stack' = codes
                \o <<Word("eip", eip), Word("cs", cpu.cs), Word("eflags", cpu.flags)>>
                \o (IF cpu.cs = 3 THEN <<Word("esp", 3), Word("ss", 3)>> ELSE stack)
    /\ cpu' = [eip |-> Handler(v), cs |-> 0, flags |-> GateFlags, gpr |-> cpu.gpr]
    /\ event' = <<[nr |-> v, err |-> IF codes = << >> THEN -1 ELSE codes[1].val]>> \o event
    /\ interrupted' = <<[cpu |-> [cpu EXCEPT !.eip = eip], stack |-> stack]>> \o interrupted

\* A selector or page fault code
ErrorCode == 16

Exception ==
    /\ Execute
    /\ \E v \in Vectors :
           Deliver(v, IF v \in ProcessorCodes THEN <<Word("err", ErrorCode)>> ELSE << >>,
                   cpu.eip)
    /\ UNCHANGED <<pics, kernel>>

\* `int v`: from ring 3 only through a gate opened to it, else a protection fault
SoftwareInterrupt ==
    /\ Execute
    /\ \E v \in IntVectors :
          IF cpu.cs = 0 \/ (v \in DOMAIN idt /\ idt[v] = "syscall_isr")
          THEN Deliver(v, << >>, Code(1 - cpu.eip[2]))
          ELSE Deliver(13, <<Word("err", ErrorCode)>>, cpu.eip)
    /\ UNCHANGED <<pics, kernel>>

\* Blocked from one NMI to the iret of its handler
NMI ==
    /\ nmis < MaxNMI
    /\ \A i \in DOMAIN event : event[i].nr # 2
    /\ nmis' = nmis + 1
    /\ Deliver(2, << >>, cpu.eip)
    /\ UNCHANGED <<pics, idt, raises>>

IRQ ==
    /\ cpu.flags = 1 /\ Asserts
    /\ Deliver(VectorOf(Acknowledged), << >>, cpu.eip)
    /\ Acknowledge
    /\ UNCHANGED kernel

\* The request vanished before the acknowledge cycle: the controller that made
\* it gives its last vector, with nothing of its own in service
Spurious ==
    /\ cpu.flags = 1 /\ raises < MaxRaise
    /\ raises' = raises + 1
    /\ \/ MasterMayVanish /\ Deliver(VectorOf(7), << >>, cpu.eip) /\ UNCHANGED isr1
       \/ /\ SlaveMayVanish
          /\ Deliver(VectorOf(15), << >>, cpu.eip) /\ isr1' = isr1 \cup {Cascade}
    /\ UNCHANGED <<irr, isr2, idt, nmis>>

-----------------------------------------------------------------------------
(* idt.s *)

\* The trampolines push -1 where the processor pushes no error code
BadErrorCodes == {8, 10, 11, 12, 13, 14}
ErrorCodes == {8, 10, 11, 12, 13, 14, 17}

Reserved == 20 .. 31

Trampoline ==
    /\ cpu.eip[1] = "idt_trampoline"
    /\ LET v == cpu.eip[2]
       IN  IF v \in Reserved
           THEN cpu' = Goto("iret") /\ UNCHANGED stack
           ELSE /\ Push(<<Word("nr", v)>> \o
                        IF v \in ErrorCodes THEN << >> ELSE <<Word("err", -1)>>)
                /\ cpu' = Goto(CASE v \in 32 .. 39 -> "ack_pic1"
                                 [] v \in 40 .. 47 -> "ack_pic2"
                                 [] OTHER -> "idt_common")
    /\ UNCHANGED <<pics, event, interrupted, kernel>>

\* The faulty variant is ack_pic1's: the slave's line stays in service
Badack_pic2 ==
    /\ cpu.eip = At("ack_pic2")
    /\ Push(<<Word("eax", cpu.gpr)>>)
    /\ cpu' = [Goto("eoi_pic1") EXCEPT !.gpr = 0]
    /\ UNCHANGED <<pics, event, interrupted, kernel>>
ack_pic2 ==
    /\ cpu.eip = At("ack_pic2")
    /\ Push(<<Word("eax", cpu.gpr)>>)
    /\ isr2' = Retire(isr2)
    /\ cpu' = [Goto("eoi_pic1") EXCEPT !.gpr = 0]
    /\ UNCHANGED <<irr, isr1, event, interrupted, kernel>>

ack_pic1 ==
    /\ cpu.eip = At("ack_pic1")
    /\ Push(<<Word("eax", cpu.gpr)>>)
    /\ cpu' = [Goto("eoi_pic1") EXCEPT !.gpr = 0]
    /\ UNCHANGED <<pics, event, interrupted, kernel>>

\* The faulty variant leaves the master's line in service
Badeoi_pic1 ==
    /\ cpu.eip = At("eoi_pic1")
    /\ cpu' = [Goto("idt_common") EXCEPT !.gpr = Read(1, "eax", 0)]
    /\ Drop(1)
    /\ UNCHANGED <<pics, event, interrupted, kernel>>
eoi_pic1 ==
    /\ cpu.eip = At("eoi_pic1")
    /\ isr1' = Retire(isr1)
    /\ cpu' = [Goto("idt_common") EXCEPT !.gpr = Read(1, "eax", 0)]
    /\ Drop(1)
    /\ UNCHANGED <<irr, isr2, event, interrupted, kernel>>

\* pusha, and the context given to intr_hdlr
idt_common ==
    /\ cpu.eip = At("idt_common")
    /\ Push(<<Word("gpr", cpu.gpr)>>)
    /\ cpu' = [Goto("intr_hdlr") EXCEPT !.gpr = 0]
    /\ UNCHANGED <<pics, event, interrupted, kernel>>

\* What intr_hdlr makes of the vector it finds in the context: an exception but
\* the NMI ends in panic, an IRQ is ignored
NR_EXCP == 32
NMI_EXCP == 2
ctxNr == Read(2, "nr", 0)

intr_hdlr ==
    /\ cpu.eip = At("intr_hdlr")
    /\ cpu' = IF ctxNr < NR_EXCP /\ ctxNr # NMI_EXCP
              THEN Goto("panic") ELSE Goto("resume_from_intr")
    /\ UNCHANGED <<stack, pics, event, interrupted, kernel>>

BadDiscard == 1
Discard == 2            \* add $8, %esp: the vector and the error code

resume_from_intr ==
    /\ cpu.eip = At("resume_from_intr")
    /\ cpu' = [Goto("iret") EXCEPT !.gpr = Read(1, "gpr", 0)]
    /\ Drop(1 + Discard)
    /\ UNCHANGED <<pics, event, interrupted, kernel>>

\* Back to what was interrupted, on the stack it had
iret ==
    /\ cpu.eip = At("iret")
    /\ cpu' = [eip |-> Read(1, "eip", At("lost")), cs |-> Read(2, "cs", 0),
               flags |-> Read(3, "eflags", 0), gpr |-> cpu.gpr]
    /\ Drop(IF Read(2, "cs", 0) = 3 THEN 5 ELSE 3)
    /\ event' = Tail(event) /\ interrupted' = Tail(interrupted)
    /\ UNCHANGED <<pics, kernel>>

-----------------------------------------------------------------------------
(* The handlers of tp2 and tp5, compiled functions that end in iret *)

\* The prologue's push of ebp, pusha, and the prints
bp_handler ==
    /\ cpu.eip[1] = "bp_handler"
    /\ Push(<<Word("gpr", cpu.gpr), Word("ebp", cpu.gpr)>>)
    /\ cpu' = [Goto("bp_body") EXCEPT !.gpr = 0]
    /\ UNCHANGED <<pics, event, interrupted, kernel>>

\* It prints the word above ebp as the eip it returns to; popa, then leave; iret
bp_body ==
    /\ cpu.eip = At("bp_body")
    /\ cpu' = [Goto("bp_leave") EXCEPT !.gpr = Read(1, "gpr", 0)]
    /\ Drop(1)
    /\ UNCHANGED <<pics, event, interrupted, kernel>>

\* The faulty variant goes back with the ebp of the prologue still on the stack
Badbp_leave ==
    /\ cpu.eip = At("bp_leave")
    /\ cpu' = Goto("iret")
    /\ UNCHANGED <<stack, pics, event, interrupted, kernel>>
bp_leave ==
    /\ cpu.eip = At("bp_leave")
    /\ cpu' = Goto("iret")
    /\ Drop(1)
    /\ UNCHANGED <<pics, event, interrupted, kernel>>

\* leave undoes the prologue; pusha; the handler gets the stack for its context
syscall_isr ==
    /\ cpu.eip[1] = "syscall_isr"
    /\ Push(<<Word("gpr", cpu.gpr)>>)
    /\ cpu' = [Goto("syscall_handler") EXCEPT !.gpr = 0]
    /\ UNCHANGED <<pics, event, interrupted, kernel>>

syscall_handler ==
    /\ cpu.eip = At("syscall_handler")
    /\ cpu' = Goto("syscall_end")
    /\ UNCHANGED <<stack, pics, event, interrupted, kernel>>

syscall_end ==
    /\ cpu.eip = At("syscall_end")
    /\ cpu' = [Goto("iret") EXCEPT !.gpr = Read(1, "gpr", 0)]
    /\ Drop(1)
    /\ UNCHANGED <<pics, event, interrupted, kernel>>

-----------------------------------------------------------------------------
(* The code that is interrupted, and the devices *)

Instruction ==
    /\ Execute
    /\ \E g \in Gpr : cpu' = [cpu EXCEPT !.eip = Code(1 - @[2]), !.gpr = g]
    /\ UNCHANGED <<stack, pics, event, interrupted, kernel>>

force_interrupts_on ==
    /\ running /\ cpu.cs = 0 /\ cpu.flags = 0
    /\ cpu' = [cpu EXCEPT !.flags = 1]
    /\ UNCHANGED <<stack, pics, event, interrupted, kernel>>

\* The iret by which a tp goes to ring 3, for good: its kernel stack is left.
\* The flags are those of the kernel (pushf).
ToRing3 ==
    /\ Execute /\ cpu.cs = 0
    /\ cpu' = [cpu EXCEPT !.cs = 3]
    /\ stack' = << >>
    /\ UNCHANGED <<pics, event, interrupted, kernel>>

RaiseLine ==
    /\ raises < MaxRaise
    /\ raises' = raises + 1
    /\ \E i \in Irqs : Raise(i)
    /\ UNCHANGED <<cpu, stack, event, interrupted, idt, nmis>>

idt_s == Trampoline \/ ack_pic2 \/ ack_pic1 \/ eoi_pic1 \/ idt_common
         \/ resume_from_intr \/ iret
Handlers == intr_hdlr \/ bp_handler \/ bp_body \/ bp_leave
            \/ syscall_isr \/ syscall_handler \/ syscall_end
Cpu == idt_s \/ Handlers \/ IRQ \/ Instruction

Next == Cpu \/ Exception \/ SoftwareInterrupt \/ NMI \/ Spurious
        \/ force_interrupts_on \/ ToRing3 \/ RaiseLine

Spec == Init /\ [][Next]_vars

\* The processor goes on.  Nothing makes code fault, devices call, or the code
\* turn interrupts on.
FairSpec == Spec /\ WF_vars(Cpu)

-----------------------------------------------------------------------------
(* Properties *)

\* The values the variables range over; the processor always runs code that exists.
TypeOK ==
    /\ cpu.eip # At("lost")
    /\ cpu.cs \in {0, 3} /\ cpu.flags \in {0, 1} /\ cpu.gpr \in Gpr \cup {0}
    /\ irr \subseteq Irqs /\ isr1 \subseteq 0 .. 7 /\ isr2 \subseteq 0 .. 7
    /\ Len(event) = Len(interrupted)
    /\ raises \in 0 .. MaxRaise /\ nmis \in 0 .. MaxNMI

\* The words of the context of what was interrupted, as cpu_ctx_t has them from eip
Frame(i) ==
    <<Word("eip", i.cpu.eip), Word("cs", i.cpu.cs), Word("eflags", i.cpu.flags)>>
    \o (IF i.cpu.cs = 3 THEN <<Word("esp", 3), Word("ss", 3)>> ELSE << >>)
    \o i.stack

\* When a handler looks at its context (intr_hdlr at int_ctx_t, syscall_handler at
\* the registers, bp_handler at the return address above ebp), each field holds
\* what its name says of the event and of the code it interrupted, for every
\* vector, ring and nesting.
ContextNamed ==
    LET i == Head(interrupted)
        e == Head(event)
    IN  /\ cpu.eip = At("intr_hdlr") =>
               stack = <<Word("gpr", i.cpu.gpr), Word("nr", e.nr), Word("err", e.err)>>
                       \o Frame(i)
        /\ cpu.eip = At("syscall_handler") =>
               stack = <<Word("gpr", i.cpu.gpr)>> \o Frame(i)
        /\ cpu.eip = At("bp_body") => Read(3, "eip", At("lost")) = i.cpu.eip

\* excp_hdlr indexes exception_names, of 20 entries, with the vector: it is never
\* called for a vector without a name.
NamesInBounds == cpu.eip = At("intr_hdlr") => ctxNr < 20 \/ ctxNr >= NR_EXCP

\* A handler is called with a context it can use: the one its structure declares, and a
\* vector it has a name for.
HandlerContext == ContextNamed /\ NamesInBounds

\* An iret gives the interrupted code its instruction, ring, flags, registers and
\* stack back, whatever broke into the trampoline or the handler meanwhile.
ContextRestored ==
    [][Len(interrupted') < Len(interrupted) =>
          /\ cpu' = Head(interrupted).cpu
          /\ stack' = Head(interrupted).stack]_vars

\* When intr_hdlr runs for a line, both PICs have had their end of interrupt:
\* nothing stays in service behind the handler's back.
LinesEnded == cpu.eip = At("intr_hdlr") /\ ctxNr \in 32 .. 47 => isr1 = {} /\ isr2 = {}

\* An end of interrupt is non-specific, yet it only ever retires the line of the
\* handler that sends it, and not that of a handler it broke into: on the master, where
\* a slave's line is the cascade's, and on the slave.
EoiExact ==
    [][/\ \A i \in isr1 \ isr1' :
             VectorOf(i) = Head(event).nr \/ (i = Cascade /\ Head(event).nr >= IrqBase2)
       /\ \A i \in isr2 \ isr2' : VectorOf(8 + i) = Head(event).nr]_vars

\* Once the code has interrupts on, every line raised is served, unless the
\* kernel panics: no line stays blocked behind one that was not ended.
enabled == IF interrupted = << >> THEN cpu.flags = 1
           ELSE interrupted[Len(interrupted)].cpu.flags = 1
LineServed ==
    \A i \in Irqs : (i \in irr /\ enabled) ~> (i \notin irr \/ cpu.eip = At("panic"))
=============================================================================
