---------------------------- MODULE Trampolines -----------------------------
(***************************************************************************)
(* The trampolines of kernel/core/idt.s, as the assembler lays them out,   *)
(* one for each vector of the IDT.                                         *)
(***************************************************************************)
EXTENDS Integers, FiniteSets

IDT_NR_DESC == 256
Vector == 0 .. IDT_NR_DESC - 1

PIC1 == 32
PIC2 == 160

ErrorCodes == {8, 10, 11, 12, 13, 14, 17}
Reserved == 20 .. 31

\* iret; or pushl $-1, pushl of the vector, jmp to another section
SizeOf(v) ==
    IF v \in Reserved THEN 1
    ELSE (IF v \in ErrorCodes THEN 0 ELSE 2) + (IF v < 128 THEN 2 ELSE 5) + 5

\* .align 16.  (A definition whose name starts with Bad is a faulty variant of the one
\* that follows, a bug the properties must notice.)
BadAligned(n) == 8 * ((n + 7) \div 8)
Aligned(n) == 16 * ((n + 15) \div 16)

\* Where each is, from idt_trampoline: after the bytes of those before it
BytesBefore(v) == {b \in (0 .. v - 1) \X (1 .. 16) : b[2] <= Aligned(SizeOf(b[1]))}
StartOf == [v \in Vector |-> Cardinality(BytesBefore(v))]

\* The chips that a trampoline sends an end of interrupt
AcksOf(v) ==
    CASE v \in 32 .. 39 -> {PIC1}
      [] v \in 40 .. 47 -> {PIC1, PIC2}
      [] OTHER -> {}
=============================================================================
