---------------------------- MODULE Segmentation ----------------------------
(***************************************************************************)
(* Segments: the tables that tp1, tp3, tp5 and the exam build, the segment *)
(* registers and the task register they load from them, and the way to     *)
(* ring 3 and back through the TSS.                                        *)
(*                                                                         *)
(* A program is a sequence of instructions, run by a processor that checks *)
(* every load as the hardware does and keeps what it loaded in the hidden  *)
(* part of the register.  A non-maskable interrupt may come before every   *)
(* instruction: its gate has the code selector of GRUB's table (intr.c:18),*)
(* whatever table is in use.                                               *)
(***************************************************************************)
EXTENDS Descriptors

CONSTANTS
    Programs,   \* the programs to run
    MaxNMI      \* bound on the non-maskable interrupts

ProgramsAssumption == Programs \subseteq DOMAIN Code

VARIABLES
    prog, pc,   \* the program, its next instruction
    grub,       \* the table in use is GRUB's, not the program's own
    gdt, size,  \* the program's table, and the entries of GDTR.limit
    seg,        \* per segment register, the selector and what was loaded
    tr,         \* the task register: the index of the TSS's descriptor, or 0
    tss,        \* TSS.s0
    esp, ram,   \* the stack pointer, in words, and the stacks
    handlers,   \* what each handler under way interrupted: history
    fault,      \* the vector of a fault nobody planned, or 0
    nmis

table == <<grub, gdt, size>>
vars == <<prog, pc, table, seg, tr, tss, esp, ram, handlers, fault, nmis>>

now == Code[prog][pc]

-----------------------------------------------------------------------------
(* The processor *)

Registers == {"cs", "ss", "ds", "es", "fs", "gs"}
DataRegisters == {"ds", "es", "fs", "gs"}

\* A word of a stack, and what it is
Word(what, val) == <<what, val>>
Val(word) == word[2]

Loaded(sel, x) == [sel |-> sel, dsc |-> x]
cpl == Rpl(seg.cs.sel)

InTable(sel) == Index(sel) \in 1 .. (IF grub THEN 4 ELSE size - 1)
Entry(sel) == IF grub THEN GrubGdt[Index(sel) + 1] ELSE gdt[Index(sel)]

Larger(a, b) == IF a > b THEN a ELSE b

\* Which descriptors a selector may load, into a data register, ss, and cs
DataLoads(sel) ==
    InTable(sel) /\ IsData(Entry(sel)) /\ Entry(sel).dpl >= Larger(cpl, Rpl(sel))
StackLoads(sel, ring) ==
    InTable(sel) /\ IsData(Entry(sel)) /\ Entry(sel).dpl = ring /\ Rpl(sel) = ring
CodeLoads(sel, ring) == InTable(sel) /\ IsCode(Entry(sel)) /\ Entry(sel).dpl = ring

\* What the memory of a table on the stack, or of the heap, held before
Before == {Null, [Null EXCEPT !.d = 1]}

Init ==
    /\ prog \in Programs /\ pc = 1
    /\ grub = TRUE /\ size = 0
    /\ \E x \in Before : gdt = [i \in 0 .. 6 |-> IF prog = "tp1" THEN x ELSE Null]
    /\ seg = [r \in Registers |->
                 IF r = "cs" THEN Loaded(8, GrubGdt[2]) ELSE Loaded(16, GrubGdt[3])]
    /\ tr = 0 /\ tss = [ss0 |-> 0, esp0 |-> 0]
    /\ esp = EBP - 4
    /\ ram = [w \in 0 .. UStack |-> Word("before", 0)]
    /\ handlers = << >> /\ fault = 0 /\ nmis = 0

Running == handlers = << >> /\ fault = 0

\* The program's next instruction is `op`
At(op) == Running /\ pc <= Len(Code[prog]) /\ now.op = op
Step == pc' = pc + 1

DescribeEntry ==
    /\ At("describe")
    /\ gdt' = [gdt EXCEPT ![now.i] =
                   [f \in DOMAIN @ |-> IF f \in DOMAIN now.dsc THEN now.dsc[f] ELSE @[f]]]
    /\ Step
    /\ UNCHANGED <<prog, grub, size, seg, tr, tss, esp, ram, handlers, fault, nmis>>

Lgdt ==
    /\ At("lgdt")
    /\ grub' = FALSE /\ size' = now.n
    /\ Step
    /\ UNCHANGED <<prog, gdt, seg, tr, tss, esp, ram, handlers, fault, nmis>>

\* A load that is refused is a protection fault
Try(allowed, r, sel) ==
    IF allowed
    THEN seg' = [seg EXCEPT ![r] = Loaded(sel, Entry(sel))] /\ UNCHANGED fault
    ELSE fault' = 13 /\ UNCHANGED seg

Load ==
    /\ At("load")
    /\ Try(IF now.reg = "ss" THEN StackLoads(now.sel, cpl) ELSE DataLoads(now.sel),
           now.reg, now.sel)
    /\ Step
    /\ UNCHANGED <<prog, table, tr, tss, esp, ram, handlers, nmis>>

FarJump ==
    /\ At("jump")
    /\ Try(CodeLoads(now.sel, cpl) /\ Rpl(now.sel) <= cpl, "cs", now.sel)
    /\ Step
    /\ UNCHANGED <<prog, table, tr, tss, esp, ram, handlers, nmis>>

\* ltr takes an available TSS and makes it busy
Ltr ==
    /\ At("ltr")
    /\ LET x == Entry(now.sel)
       IN  IF InTable(now.sel) /\ x.p = 1 /\ x.s = 0 /\ x.type = TSS_AVL
           THEN /\ tr' = Index(now.sel)
                /\ gdt' = [gdt EXCEPT ![tr'].type = TSS_BUSY]
                /\ UNCHANGED fault
           ELSE fault' = 13 /\ UNCHANGED <<tr, gdt>>
    /\ Step
    /\ UNCHANGED <<prog, grub, size, seg, tss, esp, ram, handlers, nmis>>

SetTss ==
    /\ At("tss")
    /\ tss' = [ss0 |-> gdt_krn_seg_sel(d0_idx), esp0 |-> now.esp0]
    /\ Step
    /\ UNCHANGED <<prog, table, seg, tr, esp, ram, handlers, fault, nmis>>

\* A string instruction stores through es
StringStore ==
    /\ At("string")
    /\ fault' = IF seg.es.dsc.p = 1 /\ (IsFlat(seg.es.dsc) \/ now.from + now.n - 1 <= seg.es.dsc.limit)
                THEN 0 ELSE 13
    /\ Step
    /\ UNCHANGED <<prog, table, seg, tr, tss, esp, ram, handlers, nmis>>

\* Words pushed, the first one first, from `top` down
Pushed(top, words) ==
    [w \in DOMAIN ram |->
        IF w < top /\ w >= top - Len(words) THEN words[top - w] ELSE ram[w]]

\* What the processor pops: back to a ring, and its stack if it is another ring.
\* The data registers the ring may not use are cleared.
ReturnTo(cs, ss, w) ==
    IF Rpl(cs) = cpl
    THEN /\ Try(CodeLoads(cs, cpl), "cs", cs)
         /\ esp' = w
    ELSE /\ IF CodeLoads(cs, Rpl(cs)) /\ StackLoads(ss, Rpl(cs))
            THEN seg' = [r \in Registers |->
                            CASE r = "cs" -> Loaded(cs, Entry(cs))
                              [] r = "ss" -> Loaded(ss, Entry(ss))
                              [] r \in DataRegisters /\ seg[r].dsc.dpl < Rpl(cs) -> Loaded(0, Null)
                              [] OTHER -> seg[r]]
                 /\ UNCHANGED fault
            ELSE fault' = 13 /\ UNCHANGED seg
         /\ esp' = w

\* The five pushes and the iret
EnterRing3 ==
    /\ At("iret")
    /\ ram' = Pushed(esp, <<Word("ss", now.ss), Word("esp", now.esp), Word("eflags", 0),
                          Word("cs", now.cs), Word("eip", 0)>>)
    /\ ReturnTo(now.cs, now.ss, now.esp)
    /\ Step
    /\ UNCHANGED <<prog, table, tr, tss, handlers, nmis>>

PushWord ==
    /\ At("push")
    /\ ram' = Pushed(esp, <<Word("user", 0)>>) /\ esp' = esp - 1
    /\ Step
    /\ UNCHANGED <<prog, table, seg, tr, tss, handlers, fault, nmis>>

\* The end of tp(); start() calls panic, whose frames take the place of tp's
ReturnFromTp ==
    /\ At("return")
    /\ esp' = EBP
    /\ Step
    /\ UNCHANGED <<prog, table, seg, tr, tss, ram, handlers, fault, nmis>>

\* A word of a table that lay there becomes whatever panic stores
Panic ==
    /\ At("panic")
    /\ gdt' \in IF prog = "tp1" THEN {gdt, [i \in DOMAIN gdt |-> Null]} ELSE {gdt}
    /\ Step
    /\ UNCHANGED <<prog, grub, size, seg, tr, tss, esp, ram, handlers, fault, nmis>>

-----------------------------------------------------------------------------
(* Interrupts *)

\* The selector of every gate: intr_init re-uses GRUB's code descriptor
GateSelector == gdt_krn_seg_sel(1)

Snapshot(v) == [nr |-> v, seg |-> seg, esp |-> esp, ram |-> ram]

\* Delivery of v, by a gate to ring 0: on the same stack from ring 0, on that of
\* the TSS from ring 3
Deliver(v) ==
    LET outer == cpl = 3
        top == IF outer THEN tss.esp0 ELSE esp
        words == (IF outer THEN <<Word("ss", seg.ss.sel), Word("esp", esp)>> ELSE << >>)
                 \o <<Word("eflags", 0), Word("cs", seg.cs.sel), Word("eip", 0), Word("context", 0)>>
    IN  IF CodeLoads(GateSelector, 0) /\ (outer => tr # 0 /\ StackLoads(tss.ss0, 0))
        THEN /\ seg' = [seg EXCEPT !.cs = Loaded(GateSelector, Entry(GateSelector)),
                                   !.ss = IF outer THEN Loaded(tss.ss0, Entry(tss.ss0)) ELSE @]
             /\ ram' = Pushed(top, words)
             /\ esp' = top - Len(words)
             /\ handlers' = <<Snapshot(v)>> \o handlers
             /\ UNCHANGED fault
        ELSE fault' = 10 /\ UNCHANGED <<seg, ram, esp, handlers>>

NMI ==
    /\ nmis < MaxNMI /\ fault = 0
    /\ \A i \in DOMAIN handlers : handlers[i].nr # 2
    /\ nmis' = nmis + 1
    /\ Deliver(2)
    /\ UNCHANGED <<prog, pc, table, tr, tss>>

\* `int $48` through the gate opened to ring 3; a privileged instruction
Trap ==
    /\ \/ At("int48") /\ Deliver(48) /\ Step
       \/ At("privileged") /\ Deliver(13) /\ UNCHANGED pc
    /\ UNCHANGED <<prog, table, tr, tss, nmis>>

\* A handler's iret; that of an exception panics instead
Iret ==
    /\ handlers # << >> /\ fault = 0 /\ Head(handlers).nr \in {2, 48}
    /\ LET cs == Val(ram[esp + 2])
       IN  IF Rpl(cs) = 3 THEN ReturnTo(cs, Val(ram[esp + 5]), Val(ram[esp + 4]))
                          ELSE ReturnTo(cs, 0, esp + 4)
    /\ handlers' = Tail(handlers)
    /\ UNCHANGED <<prog, pc, table, tr, tss, ram, nmis>>

Next ==
    \/ DescribeEntry \/ Lgdt \/ Load \/ FarJump \/ Ltr \/ SetTss \/ StringStore
    \/ EnterRing3 \/ PushWord \/ ReturnFromTp \/ Panic
    \/ NMI \/ Trap \/ Iret

Spec == Init /\ [][Next]_vars

-----------------------------------------------------------------------------
(* Properties *)

\* tp() has not returned
InTp == \A i \in 1 .. pc - 1 : Code[prog][i].op # "return"

\* No load, jump, string store or interrupt of a tp faults, but for the privileged
\* instruction at the end of tp3 that means to: whatever moment an NMI comes at,
\* the half-made table, the selectors of GRUB still loaded and the TSS will do.
\* After the tp, an NMI still finds a usable gate, but for tp1: its table is a local.
NoFault == InTp \/ prog # "tp1" => fault = 0

\* C code needs flat code, stack and data: so have the kernel and, in ring 0 on
\* top of ring 3, its handlers, which never load ds (idt.s).
FlatKernel ==
    cpl = 0 /\ fault = 0 => \A r \in {"cs", "ss", "ds"} : IsFlat(seg[r].dsc)

\* The same segment, whether accessed yet or not
Alike(x, y) == [x EXCEPT !.type = @ \div 2] = [y EXCEPT !.type = @ \div 2]

\* A selector that is popped or loaded again gives the segment it gave before: the
\* table in use still says what was loaded from it, or from GRUB's at that index.
SelectorsReload ==
    InTp /\ fault = 0 =>
        \A r \in Registers :
            seg[r].sel >= 4 => InTable(seg[r].sel) /\ Alike(seg[r].dsc, Entry(seg[r].sel))

\* An interrupted program goes on with its segments, its stack pointer and, on its
\* own stack, the words it had: a handler's stack is not the program's.  (In ring 3 of
\* tp3 it is: TSS.s0.esp and the esp pushed for ring 3 are the same.)
RestoredStep ==
    Len(handlers') < Len(handlers) /\ fault' = 0 =>
        LET i == Head(handlers)
        IN  /\ \A r \in Registers : /\ seg'[r].sel = i.seg[r].sel
                                    /\ Alike(seg'[r].dsc, i.seg[r].dsc)
            /\ esp' = i.esp
            /\ prog # "tp3" \/ Rpl(i.seg.cs.sel) = 0 =>
                  \A w \in i.esp .. UStack - 1 : ram'[w] = i.ram[w]
=============================================================================
