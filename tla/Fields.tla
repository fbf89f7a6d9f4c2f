------------------------------- MODULE Fields -------------------------------
(***************************************************************************)
(* The registers, descriptors and structures of kernel/include, which the  *)
(* kernel describes twice: as bit-fields, and as masks, shifts and         *)
(* constants that it ors together; and which the processor and the chips   *)
(* read at places of their own.                                            *)
(*                                                                         *)
(* A layout is the sequence of its fields with their widths, in bits for a *)
(* register and in bytes for a structure in memory.                        *)
(***************************************************************************)
EXTENDS Naturals, SequencesExt

(* cr.h *)
CrLayouts ==
    [cr0 |-> << <<"pe",1>>, <<"mp",1>>, <<"em",1>>, <<"ts",1>>, <<"et",1>>, <<"ne",1>>,
                <<"r1",10>>, <<"wp",1>>, <<"r2",1>>, <<"am",1>>, <<"r3",10>>, <<"nw",1>>,
                <<"cd",1>>, <<"pg",1>> >>,
     cr3 |-> << <<"r1",3>>, <<"pwt",1>>, <<"pcd",1>>, <<"r2",7>>, <<"addr",20>> >>,
     cr4 |-> << <<"vme",1>>, <<"pvi",1>>, <<"tsd",1>>, <<"de",1>>, <<"pse",1>>, <<"pae",1>>,
                <<"mce",1>>, <<"pge",1>>, <<"pce",1>>, <<"osfxsr",1>>, <<"osxmmexcpt",1>>,
                <<"r1",2>>, <<"vmxe",1>>, <<"smxe",1>>, <<"r2",2>>, <<"pcide",1>>,
                <<"osxsave",1>>, <<"r3",1>>, <<"smep",1>>, <<"r4",11>> >>]

CrMasks ==
    [cr0 |-> [pe |-> 0, mp |-> 1, em |-> 2, ts |-> 3, et |-> 4, ne |-> 5, wp |-> 16,
              am |-> 18, nw |-> 29, cd |-> 30, pg |-> 31],
     cr4 |-> [vme |-> 0, pvi |-> 1, tsd |-> 2, de |-> 3, pse |-> 4, pae |-> 5, mce |-> 6,
              pge |-> 7, pce |-> 8, osfxsr |-> 9, osxmmexcpt |-> 10, vmxe |-> 13,
              smxe |-> 14, pcide |-> 17, osxsave |-> 18, smep |-> 20]]

(* gpr.h *)
GprLayouts ==
    [eflags |-> << <<"cf",1>>, <<"r1",1>>, <<"pf",1>>, <<"r2",1>>, <<"af",1>>, <<"r3",1>>,
                   <<"zf",1>>, <<"sf",1>>, <<"tf",1>>, <<"it",1>>, <<"df",1>>, <<"of",1>>,
                   <<"iopl",2>>, <<"nt",1>>, <<"r4",1>>, <<"rf",1>>, <<"vm",1>>, <<"ac",1>>,
                   <<"vit",1>>, <<"vip",1>>, <<"id",1>>, <<"r5",10>> >>]

GprMasks ==
    [eflags |-> [cf |-> 0, pf |-> 2, af |-> 4, zf |-> 6, sf |-> 7, tf |-> 8, it |-> 9,
                 df |-> 10, of |-> 11, iopl |-> 12, vm |-> 17, vit |-> 19, vip |-> 20]]

\* gpr_ctx_t, from the last register that pusha pushes, and gpr_t, as in a TSS
gpr_ctx == << <<"edi",4>>, <<"esi",4>>, <<"ebp",4>>, <<"esp",4>>,
              <<"ebx",4>>, <<"edx",4>>, <<"ecx",4>>, <<"eax",4>> >>
gpr == Reverse(gpr_ctx)

(* pagemem.h: pde32_t as the entry of a table and as a large page, pte32_t *)
PageLayouts ==
    [pde |-> << <<"p",1>>, <<"rw",1>>, <<"lvl",1>>, <<"pwt",1>>, <<"pcd",1>>, <<"acc",1>>,
                <<"mbz",3>>, <<"avl",3>>, <<"addr",20>> >>,
     pde_page |-> << <<"p",1>>, <<"rw",1>>, <<"lvl",1>>, <<"pwt",1>>, <<"pcd",1>>,
                     <<"acc",1>>, <<"d",1>>, <<"ps",1>>, <<"g",1>>, <<"avl",3>>, <<"pat",1>>,
                     <<"rsv",9>>, <<"addr",10>> >>,
     pte |-> << <<"p",1>>, <<"rw",1>>, <<"lvl",1>>, <<"pwt",1>>, <<"pcd",1>>, <<"acc",1>>,
                <<"d",1>>, <<"pat",1>>, <<"g",1>>, <<"avl",3>>, <<"addr",20>> >>]

PG == [p |-> 0, rw |-> 1, lvl |-> 2, pwt |-> 3, pcd |-> 4, acc |-> 5]
\* (A definition whose name starts with Bad is a faulty variant of the one that follows,
\* a bug the properties must notice.)
BadPageMasks ==
    [pde |-> PG,
     pde_page |-> PG @@ [d |-> 6, ps |-> 7, g |-> 8, pat |-> 7],
     pte |-> PG @@ [d |-> 6, pat |-> 7, g |-> 8]]
PageMasks ==
    [pde |-> PG,
     pde_page |-> PG @@ [d |-> 6, ps |-> 7, g |-> 8, pat |-> 12],
     pte |-> PG @@ [d |-> 6, pat |-> 7, g |-> 8]]

(* uart.h *)
ControlLayouts ==
    [efr |-> << <<"flow_ctl",4>>, <<"ctl",1>>, <<"spc",1>>, <<"a_rts",1>>, <<"a_cts",1>> >>,
     ier |-> << <<"recv",1>>, <<"thre",1>>, <<"lsr",1>>, <<"msr",1>>, <<"sleep",1>>,
                <<"xoff",1>>, <<"rts",1>>, <<"cts",1>> >>,
     iir |-> << <<"no_int_pending",1>>, <<"info",3>>, <<"reserved",2>>, <<"fifo",2>> >>]
LineLayouts ==
    [fcr |-> << <<"enable",1>>, <<"rx",1>>, <<"tx",1>>, <<"dma",1>>, <<"tx_trigger",2>>,
                <<"rx_trigger",2>> >>,
     lcr |-> << <<"word_len",2>>, <<"stop",1>>, <<"parity",3>>, <<"brk",1>>, <<"dla",1>> >>]
StatusLayouts ==
    [mcr |-> << <<"data",1>>, <<"req",1>>, <<"aux1",1>>, <<"aux2",1>>, <<"loop",1>>,
                <<"auto_flow",1>>, <<"reserved",2>> >>,
     lsr |-> << <<"data",1>>, <<"overrun",1>>, <<"parity",1>>, <<"fram",1>>, <<"brk",1>>,
                <<"thre",1>>, <<"tsre",1>>, <<"fifo",1>> >>,
     msr |-> << <<"dcts",1>>, <<"ddsr",1>>, <<"teri",1>>, <<"ddcd",1>>, <<"cts",1>>,
                <<"dsr",1>>, <<"ri",1>>, <<"cd",1>> >>,
     dla |-> << <<"lsb",8>>, <<"msb",8>> >>]

UartMasks ==
    [ier |-> [recv |-> 0, thre |-> 1, lsr |-> 2, msr |-> 3, sleep |-> 4, xoff |-> 5],
     lsr |-> [data |-> 0, overrun |-> 1, parity |-> 2, fram |-> 3, brk |-> 4, thre |-> 5,
              tsre |-> 6, fifo |-> 7]]

(* pic.h *)
IcwLayouts ==
    [icw1 |-> << <<"icw4",1>>, <<"single",1>>, <<"unused",1>>, <<"ltim",1>>, <<"one",1>>,
                 <<"vect",3>> >>,
     icw2 |-> << <<"zero",3>>, <<"irq_base",5>> >>,
     icw3_slave |-> << <<"id",3>>, <<"zero",5>> >>,
     icw4 |-> << <<"x86",1>>, <<"aeoi",1>>, <<"ms",1>>, <<"buff",1>>, <<"sfnm",1>>,
                 <<"zero",3>> >>]
OcwLayouts ==
    [ocw2 |-> << <<"lvl",3>>, <<"zero",2>>, <<"cmd",3>> >>,
     ocw3 |-> << <<"reg",2>>, <<"poll",1>>, <<"one",1>>, <<"zero",1>>, <<"smm",2>>,
                 <<"zero2",1>> >>]

(* segmem.h *)
SegmentLayouts ==
    [seg_sel |-> << <<"rpl",2>>, <<"ti",1>>, <<"index",13>> >>,
     seg_desc |-> << <<"limit_1",16>>, <<"base_1",16>>, <<"base_2",8>>, <<"type",4>>, <<"s",1>>,
                     <<"dpl",2>>, <<"p",1>>, <<"limit_2",4>>, <<"avl",1>>, <<"l",1>>, <<"d",1>>,
                     <<"g",1>>, <<"base_3",8>> >>,
     gdt_reg |-> << <<"limit",2>>, <<"addr",4>> >>,
     ldt_reg |-> << <<"sel",2>>, <<"limit",2>>, <<"addr",4>> >>,
     tss |-> << <<"back_link",2>>, <<"r1",2>>, <<"esp0",4>>, <<"ss0",2>>, <<"pad0",2>>,
                <<"esp1",4>>, <<"ss1",2>>, <<"pad1",2>>, <<"esp2",4>>, <<"ss2",2>>, <<"pad2",2>>,
                <<"cr3",4>>, <<"eip",4>>, <<"eflags",4>> >> \o gpr \o
             << <<"es",2>>, <<"r5",2>>, <<"cs",2>>, <<"r6",2>>, <<"ss",2>>, <<"r7",2>>,
                <<"ds",2>>, <<"r8",2>>, <<"fs",2>>, <<"r9",2>>, <<"gs",2>>, <<"r10",2>>,
                <<"ldt",2>>, <<"r11",2>>, <<"trap",2>>, <<"maps_addr",2>> >>]

(* intr.h and excp.h *)
InterruptLayouts ==
    [int_desc |-> << <<"offset_1",16>>, <<"selector",16>>, <<"ist",3>>, <<"zero_1",5>>,
                     <<"type",4>>, <<"zero_2",1>>, <<"dpl",2>>, <<"p",1>>, <<"offset_2",16>> >>,
     idt_reg |-> << <<"limit",2>>, <<"addr",4>> >>,
     int_ctx |-> gpr_ctx \o << <<"nr",4>>, <<"err",4>>, <<"eip",4>>, <<"cs",4>>,
                               <<"eflags",4>>, <<"esp_user",4>>, <<"ss_user",4>> >>]
ErrorLayouts ==
    [sl_err |-> << <<"ext",1>>, <<"idt",1>>, <<"ti",1>>, <<"idx",13>>, <<"r",16>> >>,
     pf_err |-> << <<"p",1>>, <<"wr",1>>, <<"us",1>>, <<"rsv",1>>, <<"id",1>>, <<"r",27>> >>]

(* types.h: a far pointer, and the fast access to the parts of 32 and 64 bits *)
TypeLayouts ==
    [fptr |-> << <<"offset",4>>, <<"segment",2>> >>,
     raw32 |-> << <<"blow",8>>, <<"bhigh",8>>, <<"whigh",16>> >>,
     raw64 |-> << <<"blow",8>>, <<"bhigh",8>>, <<"whigh",16>>, <<"high",32>> >>]

Layout ==
    CrLayouts @@ GprLayouts @@ PageLayouts @@ ControlLayouts @@ LineLayouts @@ StatusLayouts
    @@ IcwLayouts @@ OcwLayouts @@ SegmentLayouts @@ InterruptLayouts @@ ErrorLayouts
    @@ TypeLayouts

\* Where the processor, in a chip's or a manual's words, finds what has no mask
ByProcessor ==
    [cr3 |-> [pwt |-> 3, pcd |-> 4, addr |-> 12],
     efr |-> [ctl |-> 4, a_rts |-> 6, a_cts |-> 7],
     fcr |-> [enable |-> 0, rx |-> 1, tx |-> 2, dma |-> 3, rx_trigger |-> 6],
     lcr |-> [word_len |-> 0, stop |-> 2, parity |-> 3, brk |-> 6, dla |-> 7],
     icw2 |-> [irq_base |-> 3],
     seg_sel |-> [rpl |-> 0, ti |-> 2, index |-> 3],
     seg_desc |-> [limit_1 |-> 0, base_1 |-> 16, base_2 |-> 32, type |-> 40, s |-> 44, dpl |-> 45,
                   p |-> 47, limit_2 |-> 48, l |-> 53, d |-> 54, g |-> 55, base_3 |-> 56],
     int_desc |-> [offset_1 |-> 0, selector |-> 16, type |-> 40, dpl |-> 45, p |-> 47,
                   offset_2 |-> 48],
     gdt_reg |-> [limit |-> 0, addr |-> 2], idt_reg |-> [limit |-> 0, addr |-> 2],
     fptr |-> [offset |-> 0, segment |-> 4],
     tss |-> [esp0 |-> 4, ss0 |-> 8, esp1 |-> 12, ss1 |-> 16, esp2 |-> 20, ss2 |-> 24, cr3 |-> 28,
              eip |-> 32, eflags |-> 36, eax |-> 40, ecx |-> 44, edx |-> 48, ebx |-> 52,
              esp |-> 56, ebp |-> 60, esi |-> 64, edi |-> 68, es |-> 72, cs |-> 76, ss |-> 80,
              ds |-> 84, fs |-> 88, gs |-> 92, ldt |-> 96, trap |-> 100, maps_addr |-> 102],
     int_ctx |-> [edi |-> 0, esi |-> 4, ebp |-> 8, ebx |-> 16, edx |-> 20, ecx |-> 24, eax |-> 28,
                  nr |-> 32, err |-> 36, eip |-> 40, cs |-> 44, eflags |-> 48, esp_user |-> 52,
                  ss_user |-> 56],
     sl_err |-> [ext |-> 0, idt |-> 1, ti |-> 2, idx |-> 3],
     pf_err |-> [p |-> 0, wr |-> 1, us |-> 2, rsv |-> 3, id |-> 4],
     raw32 |-> [whigh |-> 16], raw64 |-> [whigh |-> 16, high |-> 32]]

Masks == CrMasks @@ GprMasks @@ PageMasks @@ UartMasks
Places == Masks @@ ByProcessor

(* Whole values the kernel writes, and what its comments and names say they are *)
Whole(bits, means) == [bits |-> bits, means |-> means]
Constants ==
    [lcr |-> {Whole({7}, [dla |-> {0}])},                               \* 0x80
     icw1 |-> {Whole({0, 4}, [icw4 |-> {0}, one |-> {0}])},             \* 0x11
     icw2 |-> {Whole({5}, [irq_base |-> {2}]),                          \* 32
               Whole({3, 5}, [irq_base |-> {0, 2}])},                   \* 32 + 8
     icw4 |-> {Whole({0}, [x86 |-> {0}])},                              \* 1
     ocw2 |-> {Whole({5}, [cmd |-> {0}])}]                              \* PIC_EOI

-----------------------------------------------------------------------------
(* The fields of a layout by name, as functions that TLC computes once *)
WidthOf ==
    [t \in DOMAIN Layout |->
        [f \in {x[1] : x \in Range(Layout[t])} |->
            (CHOOSE x \in Range(Layout[t]) : x[1] = f)[2]]]
OffsetOf ==
    [t \in DOMAIN Layout |->
        [f \in {x[1] : x \in Range(Layout[t])} |->
            LET n == CHOOSE i \in 1 .. Len(Layout[t]) : Layout[t][i][1] = f
            IN  FoldLeft(LAMBDA sum, x : sum + x[2], 0, SubSeq(Layout[t], 1, n - 1))]]
Names(t) == DOMAIN WidthOf[t]
Width(t, f) == WidthOf[t][f]
Offset(t, f) == OffsetOf[t][f]

\* The widths of the registers, in bits, and of the structures, in bytes
Sizeof ==
    [t \in DOMAIN Layout |->
        CASE t \in {"fptr", "gdt_reg", "idt_reg"} -> 6
          [] t = "ldt_reg" -> 8 [] t = "tss" -> 104 [] t = "int_ctx" -> 60
          [] t \in {"seg_sel", "dla"} -> 16
          [] t \in {"seg_desc", "int_desc", "raw64"} -> 64
          [] t \in DOMAIN (ControlLayouts @@ LineLayouts @@ IcwLayouts @@ OcwLayouts)
                \union {"mcr", "lsr", "msr"} -> 8
          [] OTHER -> 32]

Shift(s, n) == {u + n : u \in s}
Span(t, f) == Shift(0 .. Width(t, f) - 1, Offset(t, f))
=============================================================================
