------------------------------ MODULE GdtReport ------------------------------
(***************************************************************************)
(* initialize_segment_descriptor, which cuts a base and a limit into the   *)
(* fields of a descriptor, and print_gdt_content with display_type         *)
(* (tp_exam/src/utils.c, and before it tp1/tp.c), which put them together  *)
(* again and print the table.                                              *)
(*                                                                         *)
(* The fields keep their places and not their widths: LOW, MID and HIGH    *)
(* stand for the 2^16, 2^8 and 2^8 values of base_1, base_2 and base_3,    *)
(* LIM for the 2^4 of limit_2, PAGE for the 4096 bytes of a page.          *)
(***************************************************************************)
EXTENDS Integers, Sequences, FiniteSets

CONSTANTS
    LOW, MID, HIGH, LIM, PAGE,  \* the sizes of the fields, and of a page
    Tables                      \* the tables: what was asked of each descriptor

\* Memory is what the fields of a base can say, and what the greatest limit covers
RadixAssumption ==
    /\ {LOW, MID, HIGH, LIM, PAGE} \subseteq Nat \ {0}
    /\ LOW * MID * HIGH = LOW * LIM * PAGE

W == LOW * MID * HIGH       \* 2^32

\* The indexes of a table go from 0 on, and what is asked fits in a descriptor
Requests == [base : 0 .. W - 1, limit : 0 .. LOW * LIM - 1, g : {0, 1}, s : {0, 1},
             type : 0 .. 15, dpl : 0 .. 3]
TablesAssumption ==
    \A t \in Tables : LET n == Cardinality(DOMAIN t)
                      IN  n \in Nat /\ t \in [0 .. n - 1 -> Requests]

VARIABLES
    asked,      \* the requests the table was made of, by index from 0
    gdt,        \* the table
    limit,      \* gdtr_ptr.limit, in bytes
    i,          \* the loop's index; gdt_ptr is 8 bytes further each turn
    printed     \* the lines

vars == <<asked, gdt, limit, i, printed>>

\* desc->base_1, _2, _3 and limit_1, _2.  (A definition whose name starts with Bad
\* is a faulty variant of the one that follows, a bug the properties must notice.)
initialize_segment_descriptor(r) ==
    [base_1 |-> r.base % LOW, base_2 |-> (r.base \div LOW) % MID,
     base_3 |-> (r.base \div (LOW * MID)) % HIGH,
     limit_1 |-> r.limit % LOW, limit_2 |-> (r.limit \div LOW) % LIM,
     g |-> r.g, s |-> r.s, type |-> r.type, dpl |-> r.dpl]

SizeofDesc == 8

Init ==
    /\ asked \in Tables
    /\ gdt = [k \in DOMAIN asked |-> initialize_segment_descriptor(asked[k])]
    /\ limit = SizeofDesc * Cardinality(DOMAIN asked) - 1
    /\ i = 0 /\ printed = << >>

Base(d) == d.base_3 * (LOW * MID) + d.base_2 * LOW + d.base_1
Limit(d) == d.limit_2 * LOW + d.limit_1

\* The last byte of the segment, in 32 bits
BadEnd(d) == IF d.g = 1 THEN (Base(d) + Limit(d) * PAGE) % W ELSE (Base(d) + Limit(d)) % W
End(d) == IF d.g = 1 THEN (Base(d) + Limit(d) * PAGE + (PAGE - 1)) % W
                     ELSE (Base(d) + Limit(d)) % W

Bit(n, b) == (n \div b) % 2 = 1

\* display_type, for a system segment and for code and data
SystemName ==
    [t \in 0 .. 15 |->
        << "reserved", "TSS available 16", "LDT", "TSS busy 16", "call gate 16", "task gate",
           "interrupt gate 16", "trap gate 16", "reserved", "TSS available 32", "reserved",
           "TSS busy 32", "call gate 32", "reserved", "interrupt gate 32",
           "trap gate 32" >>[t + 1]]

display_type(d) ==
    IF d.s = 0 THEN [system |-> SystemName[d.type]]
    ELSE [code |-> Bit(d.type, 8), special |-> Bit(d.type, 4), rw |-> Bit(d.type, 2),
          accessed |-> Bit(d.type, 1)]

\* gdt_ptr is below gdtr_ptr.addr + gdtr_ptr.limit
More == SizeofDesc * i < limit

PrintEntry ==
    /\ More
    /\ printed' = Append(printed, [i |-> i, start |-> Base(gdt[i]), end |-> End(gdt[i]),
                                   type |-> display_type(gdt[i]), priv |-> gdt[i].dpl])
    /\ i' = i + 1
    /\ UNCHANGED <<asked, gdt, limit>>

Next == PrintEntry

Spec == Init /\ [][Next]_vars

-----------------------------------------------------------------------------
(* Properties *)

\* The names segmem.h gives to the types
SEG_DESC_SYS ==
    [t \in {1, 2, 3, 4, 5, 6, 7, 9, 11, 12, 14, 15} |->
        << "TSS available 16", "LDT", "TSS busy 16", "call gate 16", "task gate",
           "interrupt gate 16", "trap gate 16", "", "TSS available 32", "", "TSS busy 32",
           "call gate 32", "", "interrupt gate 32", "trap gate 32" >>[t]]

DATA_W == {2, 3, 6, 7}
DATA_E == 4 .. 7
CODE_R == {10, 11, 14, 15}
CODE_C == 12 .. 15

\* A line says of its entry what was asked of the descriptor: the base, the last
\* byte, which may lie past the end of memory and come round again, the ring, and
\* the kind of segment, in the words of segmem.h.
LinesExact ==
    \A k \in 1 .. Len(printed) :
        LET l == printed[k]
            r == asked[l.i]
        IN  /\ l.start = r.base /\ l.priv = r.dpl
            /\ (l.end + 1) % W = (r.base + (r.limit + 1) * (IF r.g = 1 THEN PAGE ELSE 1)) % W
            /\ IF r.s = 1
               THEN l.type = [code |-> r.type \in 8 .. 15, special |-> r.type \in DATA_E \cup CODE_C,
                              rw |-> r.type \in DATA_W \cup CODE_R, accessed |-> r.type % 2 = 1]
               ELSE r.type \in DOMAIN SEG_DESC_SYS => l.type.system = SEG_DESC_SYS[r.type]

\* The whole table is printed, one line per entry in order, and nothing behind it,
\* although the bound the loop compares with is that of the last byte.
WholeTable ==
    /\ ~More
    /\ [k \in 1 .. Len(printed) |-> printed[k].i] = [k \in 1 .. Cardinality(DOMAIN asked) |-> k - 1]
=============================================================================
