------------------------------ MODULE Layouts -------------------------------
(***************************************************************************)
(* Writes to the registers and structures of module Fields, in every way   *)
(* the kernel has.  A value is the set of the units that are set (a byte   *)
(* of a structure stands for all its bits).                                *)
(***************************************************************************)
EXTENDS Fields, FiniteSetsExt

CONSTANT MaxWrites      \* how many writes follow one another (a bound)

VARIABLES
    type,   \* whose layout it is
    raw,    \* the units that are set
    meant,  \* what each field is meant to hold
    writes

vars == <<type, raw, meant, writes>>

\* The ends of a field tell its place and its width
Values(t, f) == {{}, {0}, {Width(t, f) - 1}}

Init ==
    /\ type \in DOMAIN Layout
    /\ raw \in {{}, 0 .. Sizeof[type] - 1}      \* cleared, or what the stack held
    /\ meant = [f \in Names(type) |-> IF raw = {} THEN {} ELSE 0 .. Width(type, f) - 1]
    /\ writes = 0

Written == writes < MaxWrites /\ writes' = writes + 1 /\ UNCHANGED type

\* x.field = v
Assigned(t, r, f, v) == (r \ Span(t, f)) \union Shift(v, Offset(t, f))
Assign(f, v) ==
    /\ Written
    /\ raw' = Assigned(type, raw, f, v)
    /\ meant' = [meant EXCEPT ![f] = v]

\* x.raw |= MASK
Mask(t, f) == Shift(0 .. Width(t, f) - 1, Masks[t][f])
OrMask(f) ==
    /\ Written
    /\ raw' = raw \union Mask(type, f)
    /\ meant' = [meant EXCEPT ![f] = 0 .. Width(type, f) - 1]

\* x.raw = constant
Only(means) == [f \in Names(type) |-> IF f \in DOMAIN means THEN means[f] ELSE {}]
SetRaw(w) == Written /\ raw' = w.bits /\ meant' = Only(w.means)

\* pg_set_entry and pg_set_large_entry: the attributes are masks
PgSet(attr, pfn) ==
    /\ Written
    /\ LET flags == attr \union {"p"} \union (IF type = "pde_page" THEN {"ps"} ELSE {})
       IN  /\ raw' = Assigned(type, UNION {Mask(type, f) : f \in flags}, "addr", pfn)
           /\ meant' = Only([f \in flags \union {"addr"} |-> IF f = "addr" THEN pfn ELSE {0}])

\* gdt_seg_sel(idx, rpl), with SEG_SEL_GDT: (idx << 3) | (ti << 2) | rpl
SegSel(idx, rpl) ==
    /\ Written
    /\ raw' = Shift(idx, 3) \union rpl
    /\ meant' = Only([index |-> idx, rpl |-> rpl])

\* build_int_desc(dsc, cs, isr): the raw write clears the rest of the descriptor
BuildIntDesc(cs, isr) ==
    /\ Written
    /\ LET low == {u \in isr : u < 16}
           high == {u \in 0 .. 15 : u + 16 \in isr}
           gate == {1, 2, 3}        \* SEG_DESC_SYS_INTR_GATE_32
           a(r, f, v) == Assigned(type, r, f, v)
       IN  /\ raw' = a(a(a(a(low, "selector", cs), "type", gate), "offset_2", high), "p", {0})
           /\ meant' = Only([offset_1 |-> low, selector |-> cs, type |-> gate, p |-> {0},
                             offset_2 |-> high])

Next ==
    \/ \E f \in Names(type) : \E v \in Values(type, f) : Assign(f, v)
    \/ type \in DOMAIN Masks /\ \E f \in DOMAIN Masks[type] : OrMask(f)
    \/ type \in DOMAIN Constants /\ \E w \in Constants[type] : SetRaw(w)
    \/ /\ type \in DOMAIN PageMasks
       /\ \E attr \in SUBSET {"rw", "lvl"}, pfn \in Values(type, "addr") : PgSet(attr, pfn)
    \/ type = "seg_sel" /\ \E idx \in Values(type, "index"), rpl \in {{}, {0, 1}} : SegSel(idx, rpl)
    \/ type = "int_desc" /\ \E cs \in Values(type, "selector"), isr \in {{0}, {15, 16}, {31}} :
                                BuildIntDesc(cs, isr)

Spec == Init /\ [][Next]_vars

-----------------------------------------------------------------------------
(* Properties *)

\* After any sequence of writes, by fields, masks, constants and macros, the masks and
\* the processor find in each field what was meant for it.
SeenAsMeant ==
    type \in DOMAIN Places =>
        \A f \in DOMAIN Places[type] :
            {u \in 0 .. Width(type, f) - 1 : u + Places[type][f] \in raw} = meant[f]

\* A field, reserved or not, keeps what was meant for it whatever is written to the
\* others, and no write is wider than the register.
FieldsHold ==
    /\ raw \subseteq 0 .. Sizeof[type] - 1
    /\ \A f \in Names(type) :
          {u \in 0 .. Width(type, f) - 1 : u + Offset(type, f) \in raw} = meant[f]
=============================================================================
