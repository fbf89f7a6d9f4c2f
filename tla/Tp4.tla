-------------------------------- MODULE Tp4 ---------------------------------
(***************************************************************************)
(* tp4/tp.c: identity tables filled through physical addresses, paging     *)
(* turned on, then the tables changed through the mapping they themselves  *)
(* make, under a TLB that nothing tells about it.                          *)
(*                                                                         *)
(* Addresses are pages, in megabytes as in InitPaging: with tables of 1024 *)
(* entries they are the code's.                                            *)
(***************************************************************************)
EXTENDS Naturals, Sequences

CONSTANT
    E           \* ENTRIES_PER_PTE

\* The four tables lie between the first 6 MB and the strings at 7 MB
ScaleAssumption == E \in Nat /\ E % 4 = 0 /\ E >= 16

MB == E \div 4
pgd  == 6 * MB              \* 0x600000
ptb  == 6 * MB + 1
ptb2 == 6 * MB + 2
ptb3 == 6 * MB + 3
target == 3 * E * MB        \* 0xc0000000
v1 == 7 * MB                \* 0x700000
v2 == 8 * MB - 1            \* 0x7ff000
Shared == 2                 \* the frame 0x2000
Kernel == {3 * MB, 3 * MB + 1}      \* pages of its code and its stack

\* Frame 0 holds the BIOS's vectors, and is no table but by mistake
Tables == {0, pgd, ptb, ptb2, ptb3}
T == INSTANCE PageTables WITH Frame <- Tables

KRN_RW == [rw |-> TRUE, usr |-> FALSE]

-----------------------------------------------------------------------------
(* The program.  A step accesses memory at the page "at". *)

Op(op, at, i, pfn) == [op |-> op, at |-> at, i |-> i, pfn |-> pfn]

\* pg_set_entry writes the entry twice: the attributes, then the frame
Set(table, i, pfn) == << Op("raw", table, i, 0), Op("addr", table, i, pfn) >>
Loop(table, from) ==
    [n \in 1 .. 2 * E |->
        LET i == (n - 1) \div 2 IN Set(table, i, from + i)[IF n % 2 = 1 THEN 1 ELSE 2]]
Clear(table) == << Op("clear", table, 0, 0) >>
Do(op) == << Op(op, 3 * MB, 0, 0) >>
Read(v) == << Op("read", v, 0, 0) >>

Q5 == Loop(ptb, 0) \o Clear(pgd) \o Set(pgd, 0, ptb)

Q6 == Loop(ptb2, E) \o Set(pgd, 1, ptb2) \o Do("pg")

Q7 ==
    Clear(ptb3) \o Set(ptb3, T!pt32_get_idx(target), pgd)
    \o Set(pgd, T!pd32_get_idx(target), ptb3) \o Read(pgd) \o Read(target)

\* (A definition whose name starts with Bad is a faulty variant of the one that
\* follows, a bug the properties must notice.)
BadQ8 ==
    Set(ptb, T!pt32_get_idx(v1), Shared)
    \o Set(ptb, T!pt32_get_idx(v2), Shared) \o Read(v1) \o Read(v2)
Q8 ==
    Set(ptb2, T!pt32_get_idx(v1), Shared)
    \o Set(ptb2, T!pt32_get_idx(v2), Shared) \o Read(v1) \o Read(v2)

\* *target = 0, its invalidation commented out
Q9 == << Op("store", target, 0, 0) >>

tp == Do("cr3") \o Q5 \o Q6 \o Q7 \o Q8 \o Q9

-----------------------------------------------------------------------------
VARIABLES
    speculates, \* whether the processor may cache a translation that nothing has used
    mem,    \* the tables
    cr3, pg,
    tlb,    \* the translations cached, Zero for none, of the pages that matter
    pc,     \* the next step; past the last, tp has returned to start
    shown,  \* the frames the strings at v1 and v2 were read from
    fault   \* a page fault was raised, by a kernel whose handler may be gone

vars == <<speculates, mem, cr3, pg, tlb, pc, shown, fault>>

Watched == Kernel \union {pgd, ptb2, ptb3, target, v1, v2}

Junk == T!pg_set_entry(KRN_RW, 9 * MB)

Init ==
    /\ speculates \in BOOLEAN
    /\ \E j \in {T!Zero, Junk} : mem = [f \in Tables |-> [i \in 0 .. E - 1 |-> j]]
    /\ cr3 = 0 /\ pg = FALSE
    /\ tlb = [w \in Watched |-> T!Zero]
    /\ pc = 1 /\ shown = {} /\ fault = FALSE

\* A cached translation is used, whatever the tables say
Cached(w) == w \in Watched /\ tlb[w].p
Translation(w) ==
    IF ~pg THEN T!pg_set_entry(KRN_RW, w)
    ELSE IF Cached(w) THEN tlb[w] ELSE T!Walk(mem, cr3, w)

\* The pages a step needs: its code, its stack and what it accesses
Needed == Kernel \union (IF pc <= Len(tp) THEN {tp[pc].at} ELSE {})
Served == \A w \in Needed : Translation(w).p

Fault ==
    /\ ~fault /\ ~Served
    /\ fault' = TRUE
    /\ UNCHANGED <<speculates, mem, cr3, pg, tlb, pc, shown>>

Using ==
    LET n == Needed
    IN  [w \in Watched |-> IF pg /\ w \in n THEN Translation(w) ELSE tlb[w]]

\* A write into a frame that is no table changes no table
Put(f, i, e) == IF f \in Tables THEN [mem EXCEPT ![f][i] = e] ELSE mem

Step ==
    /\ ~fault /\ Served /\ pc <= Len(tp)
    /\ LET o == tp[pc]
           f == Translation(o.at).pfn
       IN  /\ mem' = CASE o.op = "raw" -> Put(f, o.i, T!pg_set_entry(KRN_RW, 0))
                       [] o.op = "addr" -> Put(f, o.i, T!pg_set_entry(KRN_RW, o.pfn))
                       [] o.op = "store" -> Put(f, o.i, T!Zero)
                       [] o.op = "clear" /\ f \in Tables ->
                              [mem EXCEPT ![f] = [i \in 0 .. E - 1 |-> T!Zero]]
                       [] OTHER -> mem
           /\ cr3' = IF o.op = "cr3" THEN pgd ELSE cr3
           /\ pg' = (pg \/ o.op = "pg")
           /\ shown' = IF o.op = "read" /\ o.at \in {v1, v2} THEN shown \union {f} ELSE shown
    /\ tlb' = Using
    /\ pc' = pc + 1
    /\ UNCHANGED <<speculates, fault>>

\* start goes on, in its panic
RunOn ==
    /\ ~fault /\ Served /\ pc > Len(tp)
    /\ tlb' = Using
    /\ UNCHANGED <<speculates, mem, cr3, pg, pc, shown, fault>>

\* What the processor does of itself
Evict(w) ==
    /\ ~fault /\ Cached(w)
    /\ tlb' = [tlb EXCEPT ![w] = T!Zero]
    /\ UNCHANGED <<speculates, mem, cr3, pg, pc, shown, fault>>

Speculate(w) ==
    /\ speculates /\ ~fault /\ pg /\ ~Cached(w) /\ T!Walk(mem, cr3, w).p
    /\ tlb' = [tlb EXCEPT ![w] = T!Walk(mem, cr3, w)]
    /\ UNCHANGED <<speculates, mem, cr3, pg, pc, shown, fault>>

Next == Fault \/ Step \/ RunOn \/ \E w \in Watched : Evict(w) \/ Speculate(w)

Spec == Init /\ [][Next]_vars

-----------------------------------------------------------------------------
(* Properties *)

Cleared == pc > Len(tp)

\* The kernel turns paging on, and changes the tables through the mapping they make,
\* without a fault: the tables, the code and the stack are mapped at every step.  What
\* loses them is Q9, which clears the entry of the first 4 MB, and only once the TLB
\* forgets a page of the kernel.
OnlyQ9Faults == fault => Cleared /\ \E w \in Kernel : ~Cached(w)

\* With a processor that caches what it uses only, until Q9 no entry is changed after it
\* was used: no cached translation is stale, although nothing is ever invalidated, and
\* what Q8 displays is at 0x2000 (tp4/README.md).  The write at 0xc0000000 changes the
\* directory (Q7): so Q9 has cleared its first entry, and no other.  (Cached ahead, the
\* translations of these pages may be the old ones, or those of a half-written entry.)
Coherent ==
    ~speculates =>
        /\ shown \subseteq {Shared}
        /\ Cleared => /\ mem[pgd][0] = T!Zero
                      /\ mem[pgd][1] = T!pg_set_entry(KRN_RW, ptb2)
                      /\ mem[pgd][T!pd32_get_idx(target)] = T!pg_set_entry(KRN_RW, ptb3)
        /\ ~Cleared => \A w \in Watched : Cached(w) => tlb[w] = T!Walk(mem, cr3, w)
=============================================================================
