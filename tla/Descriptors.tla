----------------------------- MODULE Descriptors -----------------------------
(***************************************************************************)
(* The descriptors and selectors of segmem.h, and the programs that tp1,   *)
(* tp3, tp5 and the exam are for the segment registers: sequences of       *)
(* instructions.  The bits avl, l and accessed are left out.               *)
(***************************************************************************)
EXTENDS Integers, Sequences

(* segmem.h *)

gdt_krn_seg_sel(i) == 8 * i
gdt_usr_seg_sel(i) == 8 * i + 3
Index(sel) == sel \div 8
Rpl(sel) == sel % 4

DATA_RW == 2
DATA_RWA == 3
CODE_XR == 10
CODE_XRA == 11
TSS_AVL == 9
TSS_BUSY == 11

Descriptor(s, type, dpl, d, g, base, limit) ==
    [s |-> s, type |-> type, dpl |-> dpl, p |-> 1, d |-> d, g |-> g,
     base |-> base, limit |-> limit]
Null == [s |-> 0, type |-> 0, dpl |-> 0, p |-> 0, d |-> 0, g |-> 0, base |-> 0, limit |-> 0]

FLAT == 1048575     \* 0xfffff, the greatest limit

gdt_flat_dsc(dpl, type) == Descriptor(1, type, dpl, 1, 1, 0, FLAT)

\* A TSS at an address: its limit is its size, one more than its last byte
TSS_ADDR == 3
SizeofTss == 8329
tss_dsc == Descriptor(0, TSS_AVL, 0, 0, 0, TSS_ADDR, SizeofTss)

\* initialize_segment_descriptor leaves `d` as it was
initialize_segment_descriptor(base, limit, type, dpl, g, s, p) ==
    [s |-> s, type |-> type, dpl |-> dpl, p |-> p, g |-> g, base |-> base, limit |-> limit]

\* A segment of the whole memory, at 0, of 32-bit words
IsFlat(x) == x.p = 1 /\ x.base = 0 /\ x.g = 1 /\ x.limit = FLAT /\ x.d = 1
IsCode(x) == x.p = 1 /\ x.s = 1 /\ x.type >= 8
IsData(x) == x.p = 1 /\ x.s = 1 /\ x.type < 8 /\ x.type \in {2, 3, 6, 7}

\* GRUB's table, as tp1/tp.c:67 prints it
GrubGdt == <<Null, Descriptor(1, CODE_XRA, 0, 1, 1, 0, FLAT),
             Descriptor(1, DATA_RWA, 0, 1, 1, 0, FLAT),
             Descriptor(1, 15, 0, 0, 0, 0, 65535), Descriptor(1, DATA_RWA, 0, 0, 0, 0, 65535)>>

-----------------------------------------------------------------------------
(* Instructions, and the programs *)

Describe(i, x) == [op |-> "describe", i |-> i, dsc |-> x]
set_gdtr(n)    == [op |-> "lgdt", n |-> n]
set(r, sel)    == [op |-> "load", reg |-> r, sel |-> sel]
set_cs(sel)    == [op |-> "jump", sel |-> sel]
set_tr(sel)    == [op |-> "ltr", sel |-> sel]
set_tss(w)     == [op |-> "tss", esp0 |-> w]
rep(from, n)   == [op |-> "string", from |-> from, n |-> n]
iret(cs, ss, w) == [op |-> "iret", cs |-> cs, ss |-> ss, esp |-> w]
Op(name)       == [op |-> name]

c0_idx == 1
d0_idx == 2
c3_idx == 3
d3_idx == 4
ts_idx == 5

\* The addresses of stacks, in words: the frame pointer of tp(), 0x201000, 0x600000
EBP == 30
PHY_KERNEL_STACK == 50
UStack == 60

SetAll(regs, sel) == [i \in 1 .. Len(regs) |-> set(regs[i], sel)]

\* (A definition whose name starts with Bad is a faulty variant of the one that
\* follows, a bug the properties must notice.)  The faulty variant has the kernel's
\* data before its code.
BadFlatTable ==
    <<Describe(0, Null),
      Describe(d0_idx, gdt_flat_dsc(0, CODE_XR)), Describe(c0_idx, gdt_flat_dsc(0, DATA_RW)),
      Describe(c3_idx, gdt_flat_dsc(3, CODE_XR)), Describe(d3_idx, gdt_flat_dsc(3, DATA_RW))>>
FlatTable ==
    <<Describe(0, Null),
      Describe(c0_idx, gdt_flat_dsc(0, CODE_XR)), Describe(d0_idx, gdt_flat_dsc(0, DATA_RW)),
      Describe(c3_idx, gdt_flat_dsc(3, CODE_XR)), Describe(d3_idx, gdt_flat_dsc(3, DATA_RW))>>

init_gdt ==
    FlatTable
    \o <<set_gdtr(6), set_cs(gdt_krn_seg_sel(c0_idx))>>
    \o SetAll(<<"ss", "ds", "es", "fs", "gs">>, gdt_krn_seg_sel(d0_idx))

ToRing3(w) ==
    SetAll(<<"ds", "es", "fs", "gs">>, gdt_usr_seg_sel(d3_idx))
    \o <<set_tss(EBP), Describe(ts_idx, tss_dsc), set_tr(gdt_krn_seg_sel(ts_idx)),
         iret(gdt_usr_seg_sel(c3_idx), gdt_usr_seg_sel(d3_idx), w)>>

\* tp1: memset of src, the segment of 32 bytes for es and the copy to its start.
\* Its own stack holds the table.
tp1 ==
    <<Describe(0, Null),
      Describe(1, Descriptor(1, CODE_XRA, 0, 1, 1, 0, FLAT)),
      Describe(2, Descriptor(1, DATA_RWA, 0, 1, 1, 0, FLAT)),
      set_gdtr(7), set("ds", gdt_krn_seg_sel(2)), set_cs(gdt_krn_seg_sel(1)),
      rep(EBP, 64),
      Describe(3, Descriptor(1, DATA_RWA, 0, 1, 0, 6, 31)),
      set("es", gdt_krn_seg_sel(3)), rep(0, 32),
      Describe(4, Descriptor(1, CODE_XRA, 3, 1, 1, 0, FLAT)),
      Describe(5, Descriptor(1, DATA_RWA, 3, 1, 1, 0, FLAT))>>
    \o SetAll(<<"ds", "es", "fs", "gs">>, gdt_usr_seg_sel(5))
    \o <<Op("return"), Op("panic")>>

\* userland: the prologue, then an instruction of ring 0
tp3 == init_gdt \o ToRing3(EBP) \o <<Op("push"), Op("privileged")>>

\* userland: the prologue, a system call, and a loop for ever
Badtp5_stack == EBP - 4
tp5_stack == UStack
tp5 == init_gdt \o ToRing3(tp5_stack) \o <<Op("push"), Op("int48"), Op("loop")>>

\* init_tss: the descriptor, the memset of the TSS by string stores, then s0
init_tss ==
    <<Describe(ts_idx, initialize_segment_descriptor(TSS_ADDR, SizeofTss, TSS_AVL, 0, 0, 0, 1)),
      rep(TSS_ADDR, SizeofTss), set_tss(PHY_KERNEL_STACK), set_tr(gdt_krn_seg_sel(ts_idx))>>
tp_exam == init_gdt \o init_tss \o <<Op("return"), Op("panic")>>

Code == [tp1 |-> tp1, tp3 |-> tp3, tp5 |-> tp5, exam |-> tp_exam]
==============================================================================
