----------------------------- MODULE PageTables -----------------------------
(***************************************************************************)
(* The two-level page tables of the 32-bit x86, as                         *)
(* kernel/include/pagemem.h lays them out, and the walk the MMU makes.     *)
(*                                                                         *)
(* An address is abstracted to its page number (the address >> 12): 32-bit *)
(* arithmetic on page-aligned addresses is arithmetic modulo E * E on page *)
(* numbers, the 2^20 pages of the real machine.  The bits of an entry that *)
(* SECOS sets are kept (present, writable, user level, address); the       *)
(* others (accessed, dirty, cache control) play no part.                   *)
(***************************************************************************)
EXTENDS Integers

CONSTANTS
    E,      \* ENTRIES_PER_PTE: entries of a table, and of a directory
    Frame   \* the frames of RAM that hold directories and tables

ASSUME EAssumption == E \in Nat /\ E > 0

NPAGES == E * E             \* 2^32 bytes, in pages
Page == 0 .. NPAGES - 1
Index == 0 .. E - 1

ASSUME FrameAssumption == Frame \subseteq Page

\* pde32_t and pte32_t
Entry == [p : BOOLEAN, rw : BOOLEAN, usr : BOOLEAN, pfn : Page]

\* an entry whose raw word is 0
Zero == [p |-> FALSE, rw |-> FALSE, usr |-> FALSE, pfn |-> 0]

\* the attributes of a mapping: PG_RW or not, PG_USR or PG_KRN
Flags == [rw : BOOLEAN, usr : BOOLEAN]

\* pg_set_entry: raw = attr | PG_P, then the frame number
pg_set_entry(attr, pfn) ==
    [p |-> TRUE, rw |-> attr.rw, usr |-> attr.usr, pfn |-> pfn]

\* A memory image gives each frame its E entries
Memory == [Frame -> [Index -> Entry]]

pd32_get_idx(v) == v \div E
pt32_get_idx(v) == v % E

\* The entry that decides the page v under directory d; Zero when the
\* directory has no table for it
Pte(m, d, v) ==
    LET pde == m[d][pd32_get_idx(v)]
    IN  IF pde.p /\ pde.pfn \in Frame
        THEN m[pde.pfn][pt32_get_idx(v)]
        ELSE Zero

\* The MMU's walk: a page is present when both levels are, and a right is
\* granted when both levels grant it
Walk(m, d, v) ==
    LET pde == m[d][pd32_get_idx(v)]
        pte == Pte(m, d, v)
    IN  [p   |-> pde.p /\ pte.p,
         rw  |-> pde.rw /\ pte.rw,
         usr |-> pde.usr /\ pte.usr,
         pfn |-> pte.pfn]
=============================================================================
