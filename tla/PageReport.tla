----------------------------- MODULE PageReport -----------------------------
(***************************************************************************)
(* analyze_page_mapping of tp_exam/src/utils.c: reads a page directory and *)
(* its tables and reports the mapped memory as blocks, runs of pages with  *)
(* the same flags and consecutive frames.  One action per turn of its      *)
(* loops.                                                                  *)
(*                                                                         *)
(* Addresses are page numbers.  The ten flag bits of an entry are one      *)
(* value of Attr; the report is the sequence of the calls of               *)
(* print_block_info, with the ranges it prints.                            *)
(***************************************************************************)
EXTENDS Integers, Sequences

CONSTANTS
    E,              \* entries of a directory and of a table (1024)
    Attr,           \* what the flag bits of an entry may be
    Directories,    \* the directories the function may be given
    Tables          \* the contents their tables may have

NPAGES == E * E
Index == 0 .. E - 1
Page == 0 .. NPAGES - 1

Absent == [p |-> FALSE]
Pte == {Absent} \cup [p : {TRUE}, attr : Attr, pfn : Page]
\* A directory entry: none, a 4 MB page, or a table
LargePde == [p : {TRUE}, ps : {TRUE}, attr : Attr, pfn : Page]
TablePde == [p : {TRUE}, ps : {FALSE}, table : Nat]

ASSUME EAssumption == E \in Nat \ {0}
ASSUME AttrAssumption == Attr # {}
\* A 4 MB page does not go past the end of memory, and the tables of a directory exist
ASSUME EntriesAssumption ==
    \A d \in Directories, tab \in Tables, i \in Index :
        \/ d[i] = Absent
        \/ d[i] \in LargePde /\ d[i].pfn + (E - 1) \in Page
        \/ d[i] \in TablePde /\ \A j \in Index : tab[d[i].table][j] \in Pte

Block == [from : Page, to : Page, phys : Page, attr : Attr]

VARIABLES
    dir, tables,    \* the directory, and its tables: only read
    pc,             \* "pde", "pte": at the head of that loop; "done"
    pde_idx, pte_idx,
    block_start_pte,    \* -1 when no block is open
    last_phys, last_attr,
    report

vars == <<dir, tables, pc, pde_idx, pte_idx, block_start_pte,
          last_phys, last_attr, report>>

NoAttr == CHOOSE a \in Attr : TRUE

Init ==
    /\ dir \in Directories /\ tables \in Tables
    /\ pc = "pde" /\ pde_idx = 0 /\ pte_idx = 0
    /\ block_start_pte = -1
    /\ last_phys = 0 /\ last_attr = NoAttr
    /\ report = << >>

\* print_block_info for the open block, which ends before the entry `end`.
\* (A definition whose name starts with Bad is a faulty variant of the one that
\* follows, a bug the properties must notice.)
BadPhysicalStart(end) == last_phys - (end - block_start_pte)
PhysicalStart(end) == last_phys - (end - 1 - block_start_pte)

LastEntry(end) == end - 1

OpenBlock(end) ==
    [from |-> pde_idx * E + block_start_pte,
     to   |-> pde_idx * E + LastEntry(end),
     phys |-> PhysicalStart(end) % NPAGES,
     attr |-> last_attr]

Reported(end) ==
    IF block_start_pte # -1 THEN Append(report, OpenBlock(end)) ELSE report

SkipPde ==
    /\ pc = "pde" /\ pde_idx < E
    /\ ~dir[pde_idx].p
    /\ pde_idx' = pde_idx + 1
    /\ UNCHANGED <<dir, tables, pc, pte_idx, block_start_pte, last_phys, last_attr, report>>

LargePage ==
    /\ pc = "pde" /\ pde_idx < E
    /\ dir[pde_idx].p /\ dir[pde_idx].ps
    /\ report' = Append(report,
                    [from |-> pde_idx * E, to |-> pde_idx * E + (E - 1),
                     phys |-> dir[pde_idx].pfn, attr |-> dir[pde_idx].attr])
    /\ pde_idx' = pde_idx + 1
    /\ UNCHANGED <<dir, tables, pc, pte_idx, block_start_pte, last_phys, last_attr>>

EnterTable ==
    /\ pc = "pde" /\ pde_idx < E
    /\ dir[pde_idx].p /\ ~dir[pde_idx].ps
    /\ pc' = "pte" /\ pte_idx' = 0
    /\ block_start_pte' = -1 /\ last_phys' = 0 /\ last_attr' = NoAttr
    /\ UNCHANGED <<dir, tables, pde_idx, report>>

\* The entry under the loop
pte == tables[dir[pde_idx].table][pte_idx]

\* An absent entry closes the block that is open
AbsentEntry ==
    /\ pc = "pte" /\ pte_idx < E
    /\ ~pte.p
    /\ report' = Reported(pte_idx)
    /\ block_start_pte' = -1
    /\ pte_idx' = pte_idx + 1
    /\ UNCHANGED <<dir, tables, pc, pde_idx, last_phys, last_attr>>

\* A present entry goes on with the block, or closes it and opens the next
BadContinues ==
    /\ block_start_pte # -1
    /\ pte.attr = last_attr
    /\ pte.pfn = last_phys

Continues ==
    /\ block_start_pte # -1
    /\ pte.attr = last_attr
    /\ pte.pfn = (last_phys + 1) % NPAGES

PresentEntry ==
    /\ pc = "pte" /\ pte_idx < E
    /\ pte.p
    /\ IF Continues
       THEN UNCHANGED <<report, block_start_pte>>
       ELSE /\ report' = Reported(pte_idx)
            /\ block_start_pte' = pte_idx
    /\ last_phys' = pte.pfn /\ last_attr' = pte.attr
    /\ pte_idx' = pte_idx + 1
    /\ UNCHANGED <<dir, tables, pc, pde_idx>>

\* The end of a table closes the block that is open
TableEnd ==
    /\ pc = "pte" /\ pte_idx = E
    /\ report' = Reported(E)
    /\ pde_idx' = pde_idx + 1
    /\ pc' = "pde"
    /\ UNCHANGED <<dir, tables, pte_idx, block_start_pte, last_phys, last_attr>>

Finish ==
    /\ pc = "pde" /\ pde_idx = E
    /\ pc' = "done"
    /\ UNCHANGED <<dir, tables, pde_idx, pte_idx, block_start_pte,
                   last_phys, last_attr, report>>

Next == SkipPde \/ LargePage \/ EnterTable \/ AbsentEntry \/ PresentEntry
        \/ TableEnd \/ Finish

Spec == Init /\ [][Next]_vars

-----------------------------------------------------------------------------
(* Properties *)

\* The values the variables range over: every range reported lies in memory.
TypeOK ==
    /\ pc \in {"pde", "pte", "done"}
    /\ pde_idx \in 0 .. E /\ pte_idx \in 0 .. E
    /\ block_start_pte \in -1 .. E - 1
    /\ last_phys \in Page /\ last_attr \in Attr
    /\ report \in Seq(Block)

\* What the directory translates a page to
Translation(w) ==
    LET pde == dir[w \div E]
    IN  IF ~pde.p THEN Absent
        ELSE IF pde.ps THEN [p |-> TRUE, attr |-> pde.attr,
                             pfn |-> pde.pfn + (w % E)]
        ELSE tables[pde.table][w % E]

\* The blocks of the report that hold a page, and what one says of it
BlocksOf(w) == {k \in DOMAIN report : w \in report[k].from .. report[k].to}
Said(b, w) == [p |-> TRUE, attr |-> b.attr, pfn |-> (b.phys + (w - b.from)) % NPAGES]

\* The pages the function has read, less those of the block still open
Passed ==
    CASE pc = "done" -> NPAGES
      [] pc = "pde"  -> pde_idx * E
      [] pc = "pte"  -> pde_idx * E +
                        IF block_start_pte = -1 THEN pte_idx ELSE block_start_pte

\* At every moment the report says of each page passed exactly what the
\* directory translates it to, in one block, and nothing of an absent one or
\* of one not passed yet.
ReportExact ==
    \A w \in Page :
        IF w < Passed /\ Translation(w).p
        THEN \E k \in BlocksOf(w) : /\ BlocksOf(w) = {k}
                                    /\ Said(report[k], w) = Translation(w)
        ELSE BlocksOf(w) = {}

\* Two blocks that follow one another inside a table are two because their
\* flags or their frames differ: a run is never cut in pieces.
BlocksMaximal ==
    \A k \in 1 .. Len(report) - 1 :
        LET a == report[k]
            b == report[k + 1]
        IN  a.to < b.from /\
            (a.to + 1 = b.from /\ a.to \div E = b.from \div E =>
                a.attr # b.attr \/ b.phys # (a.phys + (a.to - a.from) + 1) % NPAGES)
=============================================================================
