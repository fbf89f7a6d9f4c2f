--------------------------- MODULE PageReportProof ---------------------------
(***************************************************************************)
(* analyze_page_mapping reports exactly what the directory translates, for *)
(* every size of the tables, every directory and every content of its      *)
(* tables.                                                                 *)
(***************************************************************************)
EXTENDS PageReport, TLAPS

-----------------------------------------------------------------------------
(* Arithmetic of pages *)

\* There is a page.
LEMMA Sizes == E \in Nat /\ E > 0 /\ NPAGES \in Nat /\ NPAGES > 0
  BY EAssumption, SMT DEF NPAGES

\* Quotient and remainder.
LEMMA DivMod ==
  ASSUME NEW m \in Nat, m > 0, NEW x \in Int
  PROVE  /\ x \div m \in Int /\ x % m \in 0 .. m - 1
         /\ x = m * (x \div m) + (x % m)
  BY SMT

\* A multiple of the modulus makes no difference.
LEMMA ModMultiple ==
  ASSUME NEW m \in Nat, m > 0, NEW q \in Int, NEW y \in Int
  PROVE  (m * q + y) % m = y % m
<1> DEFINE d == y \div m
           r == y % m
<1>1. d \in Int /\ r \in 0 .. m - 1 /\ y = m * d + r
  BY DivMod
<1> HIDE DEF d, r
<1>2. m * q + y = (q + d) * m + r /\ q + d \in Int
  BY <1>1, SMT
<1>3. ((q + d) * m + r) % m = r
  BY <1>1, <1>2, SMT
<1> QED
  BY <1>2, <1>3 DEF r

\* What is taken modulo NPAGES before an addition makes no difference.
LEMMA ModAdd ==
  ASSUME NEW x \in Int, NEW d \in Int
  PROVE  ((x % NPAGES) + d) % NPAGES = (x + d) % NPAGES
<1> DEFINE n == NPAGES
           q == x \div n
           r == x % n
<1>1. n \in Nat /\ n > 0 /\ q \in Int /\ r \in Int /\ x = n * q + r
  BY Sizes, DivMod
<1> HIDE DEF n, q, r
<1>2. x + d = n * q + (r + d) /\ r + d \in Int
  BY <1>1, SMT
<1>3. (n * q + (r + d)) % n = (r + d) % n
  BY <1>1, <1>2, ModMultiple
<1> QED
  BY <1>2, <1>3 DEF n, r

\* A page number is its own.
LEMMA ModPage ==
  ASSUME NEW x \in Int
  PROVE  x % NPAGES \in Page /\ (x \in Page => x % NPAGES = x)
  BY Sizes, SMT DEF Page

\* The page of two indexes.
LEMMA PageOf ==
  ASSUME NEW i \in Index, NEW j \in Index
  PROVE  /\ i * E + j \in Page
         /\ (i * E + j) \div E = i /\ (i * E + j) % E = j
<1>1. i * E + j >= 0 /\ i * E + j \in Int
  BY Sizes, SMT DEF Index
<1>2. i * E <= (E - 1) * E
  BY Sizes, SMT DEF Index
<1>3. (E - 1) * E = E * E - E
  BY Sizes, SMT
<1>4. i * E + j < E * E
  BY Sizes, <1>1, <1>2, <1>3, SMT DEF Index
<1> QED
  BY Sizes, <1>1, <1>4, SMT DEF Index, Page, NPAGES

\* Every page is one of two indexes.
LEMMA IndexesOf ==
  ASSUME NEW w \in Page
  PROVE  w \div E \in Index /\ w % E \in Index /\ w = (w \div E) * E + (w % E)
<1>1. w \in Int /\ w >= 0 /\ w < E * E
  BY Sizes, SMT DEF Page, NPAGES
<1>2. w \div E \in 0 .. E - 1
  BY <1>1, Sizes, SMT
<1>3. w % E \in 0 .. E - 1 /\ w = E * (w \div E) + (w % E)
  BY <1>1, Sizes, DivMod
<1>4. E * (w \div E) = (w \div E) * E
  BY <1>2, Sizes, SMT
<1> QED
  BY <1>2, <1>3, <1>4 DEF Index

\* The pages of one directory entry.
LEMMA PagesOf ==
  ASSUME NEW w \in Page, NEW i \in Index, i * E <= w, w < i * E + E
  PROVE  w - i * E \in Index /\ w \div E = i /\ w % E = w - i * E
<1>1. w - i * E \in Index /\ w = i * E + (w - i * E)
  BY Sizes, SMT DEF Page, Index
<1> QED
  BY <1>1, PageOf

-----------------------------------------------------------------------------
(* What a directory translates *)

Given == dir \in Directories /\ tables \in Tables

\* The cases of a directory entry, and of an entry of its table.
LEMMA Entries ==
  ASSUME Given, NEW i \in Index
  PROVE  \/ ~dir[i].p
         \/ /\ dir[i].p /\ dir[i].ps
            /\ dir[i].attr \in Attr /\ dir[i].pfn \in Page
            /\ dir[i].pfn + (E - 1) \in Page
         \/ /\ dir[i].p /\ ~dir[i].ps
            /\ \A j \in Index : tables[dir[i].table][j] \in Pte
<1>1. CASE dir[i] = Absent
  BY <1>1 DEF Absent
<1>2. CASE dir[i] \in LargePde /\ dir[i].pfn + (E - 1) \in Page
  BY <1>2 DEF LargePde
<1>3. CASE dir[i] \in TablePde /\ \A j \in Index : tables[dir[i].table][j] \in Pte
  BY <1>3 DEF TablePde
<1> QED
  BY <1>1, <1>2, <1>3, EntriesAssumption DEF Given

\* A present entry is its fields.
LEMMA PresentPte ==
  ASSUME NEW e \in Pte, e.p
  PROVE  e.attr \in Attr /\ e.pfn \in Page /\ e = [p |-> TRUE, attr |-> e.attr, pfn |-> e.pfn]
<1>1. e \in [p : {TRUE}, attr : Attr, pfn : Page]
  <2>1. Absent.p = FALSE
    BY DEF Absent
  <2>2. e # Absent
    BY <2>1
  <2> QED
    BY <2>2 DEF Pte
<1> QED
  BY <1>1

\* What the directory's entry for a page makes of its translation.
LEMMA TranslationOf ==
  ASSUME NEW w \in Page, NEW i \in Index, i * E <= w, w < i * E + E
  PROVE  /\ ~dir[i].p => ~Translation(w).p
         /\ dir[i].p /\ dir[i].ps =>
                Translation(w) = [p |-> TRUE, attr |-> dir[i].attr,
                                  pfn |-> dir[i].pfn + (w - i * E)]
         /\ dir[i].p /\ ~dir[i].ps => Translation(w) = tables[dir[i].table][w - i * E]
<1>1. w \div E = i /\ w % E = w - i * E
  BY PagesOf
<1> QED
  BY <1>1 DEF Translation, Absent

-----------------------------------------------------------------------------
(* Exact reports *)

\* A block of pages before n that says of each what the directory does
Good(b, n) ==
    /\ b \in Block /\ b.from <= b.to /\ b.to < n
    /\ \A w \in b.from .. b.to : Translation(w).p /\ Said(b, w) = Translation(w)

\* A report of the pages before n
Exact(r, n) ==
    /\ r \in Seq(Block)
    /\ \A k \in DOMAIN r : Good(r[k], n)
    /\ \A k, l \in DOMAIN r : k < l => r[k].to < r[l].from
    /\ \A w \in Page : w < n /\ Translation(w).p =>
            \E k \in DOMAIN r : w \in r[k].from .. r[k].to

\* Absent pages need no block.
LEMMA ExactSkip ==
  ASSUME NEW r, NEW n \in Nat, NEW m \in Nat, Exact(r, n), n <= m,
         \A w \in Page : n <= w /\ w < m => ~Translation(w).p
  PROVE  Exact(r, m)
<1>1. ASSUME NEW k \in DOMAIN r PROVE Good(r[k], m)
  <2>1. Good(r[k], n)
    BY DEF Exact
  <2>2. r[k].to \in Int
    BY <2>1 DEF Good, Block, Page
  <2>3. r[k].to < m
    BY <2>1, <2>2, SMT DEF Good
  <2> QED
    BY <2>1, <2>3 DEF Good
<1>2. ASSUME NEW w \in Page, w < m, Translation(w).p
      PROVE  \E k \in DOMAIN r : w \in r[k].from .. r[k].to
  <2>1. w < n
    BY <1>2, SMT DEF Page
  <2> QED
    BY <1>2, <2>1 DEF Exact
<1> QED
  BY <1>1, <1>2 DEF Exact

\* A block further on, of all that is present between n and m.
LEMMA ExactAppend ==
  ASSUME NEW r, NEW n \in Nat, NEW m \in Nat, Exact(r, n), n <= m,
         NEW b, Good(b, m), n <= b.from,
         \A w \in Page : n <= w /\ w < m /\ w \notin b.from .. b.to => ~Translation(w).p
  PROVE  Exact(Append(r, b), m)
<1> DEFINE s == Append(r, b)
<1>1. b \in Block /\ r \in Seq(Block) /\ b.from \in Int /\ b.to \in Int
  BY DEF Good, Exact, Block, Page
<1>2. /\ s \in Seq(Block) /\ Len(r) \in Nat
      /\ DOMAIN r = 1 .. Len(r) /\ DOMAIN s = 1 .. Len(r) + 1
      /\ s[Len(r) + 1] = b /\ \A k \in 1 .. Len(r) : s[k] = r[k]
  BY <1>1, SMT
<1> HIDE DEF s
<1>3. ASSUME NEW k \in DOMAIN r
      PROVE  Good(r[k], n) /\ r[k].to \in Int /\ r[k].from \in Int /\ r[k].to < n
  <2>1. Good(r[k], n)
    BY DEF Exact
  <2> QED
    BY <2>1 DEF Good, Block, Page
<1>4. ASSUME NEW k \in DOMAIN s PROVE Good(s[k], m)
  <2>1. CASE k = Len(r) + 1
    BY <1>2, <2>1
  <2>2. CASE k \in DOMAIN r
    <3>1. Good(r[k], n) /\ r[k].to < m /\ s[k] = r[k]
      BY <1>2, <1>3, <2>2, SMT
    <3> QED
      BY <3>1 DEF Good
  <2> QED
    BY <1>2, <2>1, <2>2, SMT
<1>5. ASSUME NEW k \in DOMAIN s, NEW l \in DOMAIN s, k < l PROVE s[k].to < s[l].from
  <2>1. k \in DOMAIN r /\ s[k] = r[k]
    BY <1>2, <1>5, SMT
  <2>2. CASE l = Len(r) + 1
    BY <1>1, <1>2, <1>3, <2>1, <2>2, SMT
  <2>3. CASE l \in DOMAIN r
    <3>1. s[l] = r[l]
      BY <1>2, <2>3
    <3> QED
      BY <1>5, <2>1, <2>3, <3>1 DEF Exact
  <2> QED
    BY <1>2, <2>2, <2>3, SMT
<1>6. ASSUME NEW w \in Page, w < m, Translation(w).p
      PROVE  \E k \in DOMAIN s : w \in s[k].from .. s[k].to
  <2>1. CASE w < n
    <3>1. PICK k \in DOMAIN r : w \in r[k].from .. r[k].to
      BY <1>6, <2>1 DEF Exact
    <3>2. k \in DOMAIN s /\ s[k] = r[k]
      BY <1>2, SMT
    <3> QED
      BY <3>1, <3>2
  <2>2. CASE n <= w
    <3>1. w \in b.from .. b.to
      BY <1>6, <2>2
    <3>2. Len(r) + 1 \in DOMAIN s
      BY <1>2, SMT
    <3> QED
      BY <1>2, <3>1, <3>2
  <2> QED
    BY <2>1, <2>2, SMT DEF Page
<1> QED
  BY <1>2, <1>4, <1>5, <1>6 DEF Exact, s

\* An exact report is one for each page.
LEMMA ExactReport ==
  ASSUME Exact(report, Passed), Passed \in Nat
  PROVE  ReportExact
<1> SUFFICES ASSUME NEW w \in Page
             PROVE  IF w < Passed /\ Translation(w).p
                    THEN \E k \in BlocksOf(w) : /\ BlocksOf(w) = {k}
                                                /\ Said(report[k], w) = Translation(w)
                    ELSE BlocksOf(w) = {}
  BY DEF ReportExact
<1>0. w \in Int
  BY DEF Page
<1>1. ASSUME NEW k \in BlocksOf(w)
      PROVE  /\ k \in DOMAIN report /\ w \in report[k].from .. report[k].to
             /\ report[k].from \in Int /\ report[k].to \in Int
             /\ w < Passed /\ Translation(w).p /\ Said(report[k], w) = Translation(w)
  <2>1. k \in DOMAIN report /\ w \in report[k].from .. report[k].to
    BY DEF BlocksOf
  <2>2. Good(report[k], Passed)
    BY <2>1 DEF Exact
  <2>3. report[k].from \in Int /\ report[k].to \in Int
    BY <2>2 DEF Good, Block, Page
  <2>4. w < Passed
    BY <1>0, <2>1, <2>2, <2>3, SMT DEF Good
  <2> QED
    BY <2>1, <2>2, <2>3, <2>4 DEF Good
<1>2. CASE ~(w < Passed /\ Translation(w).p)
  BY <1>1, <1>2
<1>3. CASE w < Passed /\ Translation(w).p
  <2>1. PICK k \in DOMAIN report : w \in report[k].from .. report[k].to
    BY <1>3 DEF Exact
  <2>2. k \in BlocksOf(w)
    BY <2>1 DEF BlocksOf
  <2>3. ASSUME NEW l \in BlocksOf(w) PROVE l = k
    <3>1. k \in Int /\ l \in Int
      BY <1>1, <2>2, SMT DEF Exact
    <3>2. CASE k < l
      <4>1. report[k].to < report[l].from
        BY <1>1, <2>2, <3>2 DEF Exact
      <4> QED
        BY <1>0, <1>1, <2>2, <4>1, SMT
    <3>3. CASE l < k
      <4>1. report[l].to < report[k].from
        BY <1>1, <2>2, <3>3 DEF Exact
      <4> QED
        BY <1>0, <1>1, <2>2, <4>1, SMT
    <3> QED
      BY <3>1, <3>2, <3>3, SMT
  <2>4. BlocksOf(w) = {k}
    BY <2>2, <2>3
  <2> QED
    BY <1>1, <1>3, <2>2, <2>4
<1> QED
  BY <1>2, <1>3

-----------------------------------------------------------------------------
(* The invariant *)

\* The entry j of the table under the loop
entry(j) == tables[dir[pde_idx].table][j]

InTable == pde_idx < E /\ dir[pde_idx].p /\ ~dir[pde_idx].ps

\* The open block: present entries with the same flags, and frames that end with the last
Open ==
    /\ block_start_pte < pte_idx
    /\ \A j \in block_start_pte .. pte_idx - 1 :
          /\ entry(j).p /\ entry(j).attr = last_attr
          /\ entry(j).pfn = (last_phys - (pte_idx - 1 - j)) % NPAGES

ReportInv ==
    /\ TypeOK /\ Given
    /\ pc = "pte" => InTable
    /\ pc = "pte" /\ block_start_pte # -1 => Open
    /\ pc = "done" => pde_idx = E
    /\ Exact(report, Passed)

\* The page under the loop.
Here == pde_idx * E + pte_idx

\* The numbers of the invariant.
LEMMA Numbers ==
  ASSUME ReportInv
  PROVE  /\ pde_idx \in Nat /\ pte_idx \in Nat /\ pde_idx <= E /\ pte_idx <= E
         /\ block_start_pte \in Int /\ block_start_pte >= -1 /\ block_start_pte < E
         /\ pde_idx * E \in Nat /\ Here \in Nat
         /\ last_phys \in Page /\ last_phys \in Int /\ last_attr \in Attr
         /\ E \in Nat /\ E > 0
<1>1. /\ pde_idx \in Nat /\ pte_idx \in Nat /\ pde_idx <= E /\ pte_idx <= E
      /\ block_start_pte \in Int /\ block_start_pte >= -1 /\ block_start_pte < E
      /\ last_phys \in Page /\ last_phys \in Int /\ last_attr \in Attr
  BY Sizes, SMT DEF ReportInv, TypeOK, Page
<1> QED
  BY <1>1, Sizes, SMT DEF Here

\* In a table, the pages of its entries.
LEMMA TablePages ==
  ASSUME ReportInv, pc = "pte", NEW w \in Page, pde_idx * E <= w, w < pde_idx * E + E
  PROVE  w - pde_idx * E \in Index /\ Translation(w) = entry(w - pde_idx * E)
<1>1. pde_idx \in Index /\ InTable
  BY Numbers, SMT DEF ReportInv, InTable, Index
<1> QED
  BY <1>1, PagesOf, TranslationOf DEF InTable, entry

\* The entries of the table under the loop.
LEMMA EntryType ==
  ASSUME ReportInv, pc = "pte", NEW j \in Index
  PROVE  entry(j) \in Pte
<1>1. pde_idx \in Index /\ InTable /\ Given
  BY Numbers, SMT DEF ReportInv, InTable, Index
<1> QED
  BY <1>1, Entries DEF InTable, entry

\* The block that an absent entry, another block or the end of the table closes is good.
LEMMA ClosedGood ==
  ASSUME ReportInv, pc = "pte", block_start_pte # -1
  PROVE  /\ Good(OpenBlock(pte_idx), Here)
         /\ OpenBlock(pte_idx).from = pde_idx * E + block_start_pte
         /\ OpenBlock(pte_idx).to = Here - 1
<1> DEFINE b == OpenBlock(pte_idx)
           base == pde_idx * E
           bs == block_start_pte
<1>0. Open /\ pde_idx \in Index
  BY Numbers, SMT DEF ReportInv, InTable, Index
<1>1. /\ base \in Nat /\ bs \in Nat /\ bs < pte_idx /\ pte_idx \in Nat /\ pte_idx <= E
      /\ last_phys \in Int /\ last_attr \in Attr
  BY <1>0, Numbers, SMT DEF Open
<1>2. /\ b.from = base + bs /\ b.to = base + (pte_idx - 1) /\ b.attr = last_attr
      /\ b.phys = (last_phys - (pte_idx - 1 - bs)) % NPAGES
  BY DEF OpenBlock, LastEntry, PhysicalStart
<1>3. Here = base + pte_idx
  BY DEF Here
<1>4. bs \in Index /\ pte_idx - 1 \in Index
  BY <1>1, Sizes, SMT DEF Index
<1>5. b.from \in Page /\ b.to \in Page
  BY <1>0, <1>2, <1>4, PageOf
<1>6. b.phys \in Page
  BY <1>1, <1>2, ModPage, SMT
<1>7. b \in Block
  BY <1>1, <1>2, <1>5, <1>6 DEF Block, OpenBlock
<1> HIDE DEF b, base, bs
<1>8. ASSUME NEW w \in b.from .. b.to PROVE Translation(w).p /\ Said(b, w) = Translation(w)
  <2> DEFINE j == w - base
  <2>1. /\ w \in Page /\ base <= w /\ w < base + E /\ j \in bs .. pte_idx - 1 /\ w \in Int
    BY <1>1, <1>2, <1>5, <1>8, Sizes, SMT DEF Page
  <2>2. j \in Index /\ Translation(w) = entry(j)
    BY <2>1, TablePages DEF base
  <2>3. /\ entry(j).p /\ entry(j).attr = last_attr
        /\ entry(j).pfn = (last_phys - (pte_idx - 1 - j)) % NPAGES
    BY <1>0, <2>1 DEF Open, bs
  <2>4. entry(j) = [p |-> TRUE, attr |-> entry(j).attr, pfn |-> entry(j).pfn]
    BY <2>2, <2>3, EntryType, PresentPte
  <2>5. (b.phys + (w - b.from)) % NPAGES = entry(j).pfn
    <3> DEFINE x == last_phys - (pte_idx - 1 - bs)
    <3>1. x \in Int /\ w - b.from \in Int
          /\ x + (w - b.from) = last_phys - (pte_idx - 1 - j)
      BY <1>1, <1>2, <2>1, SMT
    <3>2. b.phys = x % NPAGES
      BY <1>2
    <3> HIDE DEF x
    <3>3. ((x % NPAGES) + (w - b.from)) % NPAGES = (x + (w - b.from)) % NPAGES
      BY <3>1, ModAdd
    <3> QED
      BY <2>3, <3>1, <3>2, <3>3
  <2> QED
    BY <1>2, <2>2, <2>3, <2>4, <2>5 DEF Said
<1>9. b.from <= b.to /\ b.to < Here /\ b.to = Here - 1
  BY <1>1, <1>2, <1>3, SMT
<1>10. Good(b, Here)
  BY <1>7, <1>8, <1>9 DEF Good
<1> QED
  BY <1>2, <1>9, <1>10 DEF b, base, bs

\* Closing the block that may be open makes the report exact up to here.
LEMMA ReportedExact ==
  ASSUME ReportInv, pc = "pte"
  PROVE  Exact(Reported(pte_idx), Here)
<1>1. CASE block_start_pte = -1
  BY <1>1 DEF Reported, ReportInv, Passed, Here
<1>2. CASE block_start_pte # -1
  <2> DEFINE b == OpenBlock(pte_idx)
             n == pde_idx * E + block_start_pte
  <2>1. Good(b, Here) /\ b.from = n /\ b.to = Here - 1
    BY <1>2, ClosedGood
  <2>2. n \in Nat /\ Here \in Nat /\ n <= Here
    BY <1>2, Numbers, SMT DEF ReportInv, Open, Here
  <2>3. Exact(report, n)
    BY <1>2 DEF ReportInv, Passed
  <2> HIDE DEF b, n
  <2>4. ASSUME NEW w \in Page, n <= w, w < Here PROVE w \in b.from .. b.to
    BY <2>1, <2>2, <2>4, SMT DEF Page
  <2>5. Exact(Append(report, b), Here)
    BY <2>1, <2>2, <2>3, <2>4, ExactAppend, SMT
  <2> QED
    BY <1>2, <2>5 DEF Reported, b
<1> QED
  BY <1>1, <1>2

-----------------------------------------------------------------------------
(* Each step keeps ReportInv *)

LEMMA InvInit == Init => ReportInv
<1> SUFFICES ASSUME Init PROVE ReportInv
  OBVIOUS
<1>1. NoAttr \in Attr
  BY AttrAssumption DEF NoAttr
<1>2. 0 \in Page /\ 0 \in 0 .. E /\ -1 \in -1 .. E - 1 /\ 0 * E = 0
  BY Sizes, SMT DEF Page
<1>3. << >> \in Seq(Block) /\ DOMAIN << >> = {}
  OBVIOUS
<1>4. TypeOK
  BY <1>1, <1>2, <1>3 DEF Init, TypeOK
<1>5. Passed = 0
  BY <1>2 DEF Init, Passed
<1>6. \A w \in Page : ~(w < 0)
  BY SMT DEF Page
<1>7. Exact(report, Passed)
  BY <1>3, <1>5, <1>6 DEF Init, Exact
<1> QED
  BY <1>4, <1>7 DEF Init, ReportInv, Given

\* The directory and its tables are only read: what they translate stays.
LEMMA SameWalk ==
  ASSUME UNCHANGED <<dir, tables>>
  PROVE  \A r, n : Exact(r, n)' <=> Exact(r', n')
  BY DEF Exact, Good, Translation, Said

\* A step keeps the invariant when the report stays exact of the same directory.
LEMMA StepInv ==
  ASSUME ReportInv, UNCHANGED <<dir, tables>>, TypeOK',
         pc' = "pte" => InTable',
         pc' = "pte" /\ block_start_pte' # -1 => Open',
         pc' = "done" => pde_idx' = E,
         Exact(report', Passed')
  PROVE  ReportInv'
<1>1. Given'
  BY DEF ReportInv, Given
<1>2. Exact(report, Passed)'
  BY SameWalk
<1> QED
  BY <1>1, <1>2 DEF ReportInv

\* The directory has no page below an absent entry.
LEMMA InvSkipPde == ReportInv /\ SkipPde => ReportInv'
<1> SUFFICES ASSUME ReportInv, SkipPde PROVE ReportInv'
  OBVIOUS
<1>1. pde_idx \in Index /\ pde_idx + 1 \in 0 .. E
  BY Numbers, SMT DEF SkipPde, Index
<1>2. TypeOK'
  BY <1>1 DEF SkipPde, ReportInv, TypeOK
<1>3. Passed = pde_idx * E /\ Passed' = (pde_idx + 1) * E
  BY DEF SkipPde, Passed
<1>4. /\ pde_idx * E \in Nat /\ (pde_idx + 1) * E \in Nat
      /\ (pde_idx + 1) * E = pde_idx * E + E
  BY <1>1, Numbers, SMT
<1>5. ASSUME NEW w \in Page, pde_idx * E <= w, w < (pde_idx + 1) * E
      PROVE  ~Translation(w).p
  BY <1>1, <1>4, <1>5, TranslationOf DEF SkipPde
<1>6. Exact(report, pde_idx * E)
  BY <1>3 DEF ReportInv
<1>7. pde_idx * E <= (pde_idx + 1) * E
  BY <1>4, Sizes, SMT
<1>8. Exact(report, (pde_idx + 1) * E)
  BY <1>4, <1>5, <1>6, <1>7, ExactSkip
<1> QED
  BY <1>2, <1>3, <1>8, StepInv DEF SkipPde

\* A 4 MB page is one block.
LEMMA InvLargePage == ReportInv /\ LargePage => ReportInv'
<1> SUFFICES ASSUME ReportInv, LargePage PROVE ReportInv'
  OBVIOUS
<1> DEFINE n == pde_idx * E
           m == (pde_idx + 1) * E
           b == [from |-> n, to |-> n + (E - 1),
                 phys |-> dir[pde_idx].pfn, attr |-> dir[pde_idx].attr]
<1>1. pde_idx \in Index /\ pde_idx + 1 \in 0 .. E
  BY Numbers, SMT DEF LargePage, Index
<1>2. n \in Nat /\ m \in Nat /\ m = n + E
  BY <1>1, Numbers, SMT
<1>3. Passed = n /\ Passed' = m
  BY DEF LargePage, Passed
<1>4. /\ dir[pde_idx].attr \in Attr /\ dir[pde_idx].pfn \in Page
      /\ dir[pde_idx].pfn + (E - 1) \in Page
  BY <1>1, Entries DEF LargePage, ReportInv
<1>5. 0 \in Index /\ E - 1 \in Index
  BY Sizes, SMT DEF Index
<1>6. n + 0 \in Page /\ n + (E - 1) \in Page
  BY <1>1, <1>5, PageOf
<1>7. b \in Block /\ b.from = n /\ b.to = n + (E - 1)
  BY <1>2, <1>4, <1>6, SMT DEF Block
<1>8. b.phys = dir[pde_idx].pfn /\ b.attr = dir[pde_idx].attr
  OBVIOUS
<1>9. report' = Append(report, b)
  BY DEF LargePage
<1>10. Exact(report, n)
  BY <1>3 DEF ReportInv
<1>11. TypeOK'
  BY <1>1, <1>7, <1>9 DEF LargePage, ReportInv, TypeOK
<1> HIDE DEF b
<1>12. ASSUME NEW w \in b.from .. b.to PROVE Translation(w).p /\ Said(b, w) = Translation(w)
  <2>1. w \in Page /\ n <= w /\ w < n + E /\ w - n \in 0 .. E - 1 /\ w \in Int
    BY <1>2, <1>6, <1>7, <1>12, Sizes, SMT DEF Page
  <2>2. Translation(w) = [p |-> TRUE, attr |-> dir[pde_idx].attr,
                          pfn |-> dir[pde_idx].pfn + (w - n)]
    BY <1>1, <2>1, TranslationOf DEF LargePage
  <2>3. dir[pde_idx].pfn + (w - n) \in Page
    BY <1>4, <2>1, Sizes, SMT DEF Page
  <2>4. (dir[pde_idx].pfn + (w - n)) % NPAGES = dir[pde_idx].pfn + (w - n)
    BY <2>3, ModPage, SMT DEF Page
  <2>5. (b.phys + (w - b.from)) % NPAGES = dir[pde_idx].pfn + (w - n)
    BY <1>7, <1>8, <2>4
  <2>6. Said(b, w) = [p |-> TRUE, attr |-> b.attr, pfn |-> (b.phys + (w - b.from)) % NPAGES]
    BY DEF Said
  <2>7. Said(b, w) = Translation(w)
    BY <1>8, <2>2, <2>5, <2>6
  <2>8. Translation(w).p
    BY <2>2
  <2> QED
    BY <2>7, <2>8
<1>13. Good(b, m)
  <2>1. b.from <= b.to /\ b.to < m
    BY <1>2, <1>7, Sizes, SMT
  <2> QED
    BY <1>7, <1>12, <2>1 DEF Good
<1>14. ASSUME NEW w \in Page, n <= w, w < m PROVE w \in b.from .. b.to
  BY <1>2, <1>7, <1>14, Sizes, SMT DEF Page
<1>15. n <= m /\ n <= b.from
  BY <1>2, <1>7, Sizes, SMT
<1> HIDE DEF n, m
<1>16. Exact(Append(report, b), m)
  BY <1>2, <1>10, <1>13, <1>14, <1>15, ExactAppend
<1> QED
  BY <1>3, <1>9, <1>11, <1>16, StepInv DEF LargePage

\* A table starts with no block open.
LEMMA InvEnterTable == ReportInv /\ EnterTable => ReportInv'
<1> SUFFICES ASSUME ReportInv, EnterTable PROVE ReportInv'
  OBVIOUS
<1>1. NoAttr \in Attr /\ 0 \in Page /\ -1 \in -1 .. E - 1 /\ 0 \in 0 .. E
  <2>1. NoAttr \in Attr
    BY AttrAssumption DEF NoAttr
  <2> QED
    BY <2>1, Sizes, SMT DEF Page
<1>2. TypeOK'
  BY <1>1 DEF EnterTable, ReportInv, TypeOK
<1>3. pde_idx * E + 0 = pde_idx * E
  BY Numbers, SMT
<1>4. Passed = pde_idx * E /\ Passed' = pde_idx * E
  BY <1>3 DEF EnterTable, Passed
<1>5. Exact(report', Passed')
  BY <1>4 DEF EnterTable, ReportInv
<1>6. InTable'
  BY DEF EnterTable, InTable
<1> QED
  BY <1>2, <1>5, <1>6, StepInv DEF EnterTable

\* An absent entry closes the block and is in none.
LEMMA InvAbsentEntry == ReportInv /\ AbsentEntry => ReportInv'
<1> SUFFICES ASSUME ReportInv, AbsentEntry PROVE ReportInv'
  OBVIOUS
<1>1. Exact(Reported(pte_idx), Here)
  BY ReportedExact DEF AbsentEntry
<1>2. /\ Here \in Nat /\ Here + 1 \in Nat /\ Here <= Here + 1
      /\ pte_idx + 1 \in 0 .. E /\ -1 \in -1 .. E - 1
      /\ Here + 1 = pde_idx * E + (pte_idx + 1)
  BY Numbers, SMT DEF AbsentEntry, Here
<1>3. ASSUME NEW w \in Page, Here <= w, w < Here + 1 PROVE ~Translation(w).p
  <2>1. w - pde_idx * E = pte_idx /\ pde_idx * E <= w /\ w < pde_idx * E + E
    BY <1>3, Numbers, SMT DEF Page, Here, AbsentEntry
  <2>2. Translation(w) = entry(pte_idx)
    BY <2>1, TablePages DEF AbsentEntry
  <2> QED
    BY <2>2 DEF AbsentEntry, pte, entry
<1>4. Exact(Reported(pte_idx), Here + 1)
  BY <1>1, <1>2, <1>3, ExactSkip
<1>5. Passed' = Here + 1
  BY <1>2 DEF AbsentEntry, Passed
<1>6. TypeOK'
  BY <1>1, <1>2 DEF AbsentEntry, ReportInv, TypeOK, Exact
<1>7. InTable'
  BY DEF AbsentEntry, ReportInv, InTable
<1> QED
  BY <1>4, <1>5, <1>6, <1>7, StepInv DEF AbsentEntry

\* A present entry is the next of the open block, or the first of a new one.
LEMMA InvPresentEntry == ReportInv /\ PresentEntry => ReportInv'
<1> SUFFICES ASSUME ReportInv, PresentEntry PROVE ReportInv'
  OBVIOUS
<1>0. pte_idx \in Index /\ pte_idx + 1 \in 0 .. E /\ pte_idx \in -1 .. E - 1
  BY Numbers, SMT DEF PresentEntry, Index
<1>1. /\ pte = entry(pte_idx) /\ pte.p /\ pte.attr \in Attr
      /\ pte.pfn \in Page /\ pte.pfn \in Int
  <2>1. pte = entry(pte_idx) /\ pte.p /\ entry(pte_idx) \in Pte
    BY <1>0, EntryType DEF PresentEntry, pte, entry
  <2> QED
    BY <2>1, PresentPte DEF Page
<1>2. InTable' /\ \A j : entry(j)' = entry(j')
  BY DEF PresentEntry, ReportInv, InTable, entry
<1>3. CASE Continues
  <2>1. block_start_pte # -1 /\ report' = report /\ block_start_pte' = block_start_pte
    BY <1>3 DEF PresentEntry, Continues
  <2>2. TypeOK'
    BY <1>0, <1>1, <2>1 DEF PresentEntry, ReportInv, TypeOK
  <2>3. Passed' = Passed
    BY <2>1 DEF PresentEntry, Passed
  <2>4. Exact(report', Passed')
    BY <2>1, <2>3 DEF ReportInv
  <2>5. Open
    BY <2>1 DEF PresentEntry, ReportInv
  <2>6. block_start_pte < pte_idx + 1
    BY <2>5, Numbers, SMT DEF Open
  <2>7. ASSUME NEW j \in block_start_pte .. (pte_idx + 1) - 1
        PROVE  /\ entry(j).p /\ entry(j).attr = pte.attr
               /\ entry(j).pfn = (pte.pfn - ((pte_idx + 1) - 1 - j)) % NPAGES
    <3>1. CASE j = pte_idx
      <4>1. pte.pfn - ((pte_idx + 1) - 1 - j) = pte.pfn
        BY <1>1, <3>1, Numbers, SMT
      <4> QED
        BY <1>1, <3>1, <4>1, ModPage
    <3>2. CASE j # pte_idx
      <4>1. j \in block_start_pte .. pte_idx - 1 /\ j \in Int
        BY <3>2, Numbers, SMT
      <4>2. /\ entry(j).p /\ entry(j).attr = last_attr
            /\ entry(j).pfn = (last_phys - (pte_idx - 1 - j)) % NPAGES
        BY <2>5, <4>1 DEF Open
      <4>3. pte.attr = last_attr /\ pte.pfn = (last_phys + 1) % NPAGES
        BY <1>3 DEF Continues
      <4> DEFINE d == -((pte_idx + 1) - 1 - j)
      <4>4. /\ d \in Int /\ last_phys + 1 \in Int
            /\ (last_phys + 1) + d = last_phys - (pte_idx - 1 - j)
            /\ pte.pfn + d = pte.pfn - ((pte_idx + 1) - 1 - j)
        BY <1>1, <4>1, Numbers, SMT
      <4> HIDE DEF d
      <4>5. (((last_phys + 1) % NPAGES) + d) % NPAGES = ((last_phys + 1) + d) % NPAGES
        BY <4>4, ModAdd
      <4> QED
        BY <4>2, <4>3, <4>4, <4>5
    <3> QED
      BY <3>1, <3>2
  <2>8. Open'
    BY <1>2, <2>1, <2>6, <2>7 DEF Open, PresentEntry
  <2> QED
    BY <1>2, <2>2, <2>4, <2>8, StepInv DEF PresentEntry
<1>4. CASE ~Continues
  <2>1. report' = Reported(pte_idx) /\ block_start_pte' = pte_idx /\ pte_idx # -1
    BY <1>0, <1>4, Numbers, SMT DEF PresentEntry
  <2>2. Exact(Reported(pte_idx), Here)
    BY ReportedExact DEF PresentEntry
  <2>3. Passed' = Here
    BY <2>1 DEF PresentEntry, Passed, Here
  <2>4. TypeOK'
    BY <1>0, <1>1, <2>1, <2>2 DEF PresentEntry, ReportInv, TypeOK, Exact
  <2>5. pte_idx < pte_idx + 1 /\ pte_idx .. (pte_idx + 1) - 1 = {pte_idx}
    BY <1>0, Sizes, SMT DEF Index
  <2>6. pte.pfn - ((pte_idx + 1) - 1 - pte_idx) = pte.pfn
    BY <1>0, <1>1, Sizes, SMT DEF Index
  <2>7. pte.pfn % NPAGES = pte.pfn
    BY <1>1, ModPage
  <2>8. ASSUME NEW j \in pte_idx .. (pte_idx + 1) - 1
        PROVE  /\ entry(j).p /\ entry(j).attr = pte.attr
               /\ entry(j).pfn = (pte.pfn - ((pte_idx + 1) - 1 - j)) % NPAGES
    <3>1. j = pte_idx
      BY <2>5
    <3> QED
      BY <1>1, <2>6, <2>7, <3>1
  <2>9. Open'
    BY <1>2, <2>1, <2>5, <2>8 DEF Open, PresentEntry
  <2> QED
    BY <1>2, <2>1, <2>2, <2>3, <2>4, <2>9, StepInv DEF PresentEntry
<1> QED
  BY <1>3, <1>4

\* The end of a table closes the last block of the table.
LEMMA InvTableEnd == ReportInv /\ TableEnd => ReportInv'
<1> SUFFICES ASSUME ReportInv, TableEnd PROVE ReportInv'
  OBVIOUS
<1>1. Exact(Reported(pte_idx), Here) /\ pte_idx = E
  BY ReportedExact DEF TableEnd
<1>2. pde_idx + 1 \in 0 .. E
  BY Numbers, SMT DEF TableEnd, ReportInv, InTable
<1>3. Here = (pde_idx + 1) * E
  BY <1>1, Numbers, SMT DEF Here
<1>4. report' = Reported(pte_idx) /\ Passed' = (pde_idx + 1) * E
  BY <1>1 DEF TableEnd, Passed
<1>5. TypeOK'
  BY <1>1, <1>2, <1>4 DEF TableEnd, ReportInv, TypeOK, Exact
<1> QED
  BY <1>1, <1>3, <1>4, <1>5, StepInv DEF TableEnd

\* At the end the pages passed are those of memory.
LEMMA InvFinish == ReportInv /\ Finish => ReportInv'
<1> SUFFICES ASSUME ReportInv, Finish PROVE ReportInv'
  OBVIOUS
<1>1. Passed = E * E /\ Passed' = NPAGES /\ NPAGES = E * E
  BY DEF Finish, Passed, NPAGES
<1>2. TypeOK'
  BY DEF Finish, ReportInv, TypeOK
<1>3. Exact(report', Passed')
  BY <1>1 DEF Finish, ReportInv
<1> QED
  BY <1>2, <1>3, StepInv DEF Finish

\* A step that changes nothing.
LEMMA InvStutter == ReportInv /\ UNCHANGED vars => ReportInv'
<1> SUFFICES ASSUME ReportInv, UNCHANGED vars PROVE ReportInv'
  OBVIOUS
<1>1. TypeOK' /\ (pc' = "pte" => InTable') /\ Passed' = Passed
  BY DEF vars, ReportInv, TypeOK, InTable, Passed
<1>2. pc' = "pte" /\ block_start_pte' # -1 => Open'
  BY DEF vars, ReportInv, Open, entry
<1>3. Exact(report', Passed')
  BY <1>1 DEF vars, ReportInv
<1> QED
  BY <1>1, <1>2, <1>3, StepInv DEF vars, ReportInv

-----------------------------------------------------------------------------
(* Theorems *)

\* The report is exact of the pages passed, and the open block is a run of the table.
THEOREM ReportInvariant == Spec => []ReportInv
<1>1. ReportInv /\ [Next]_vars => ReportInv'
  BY InvSkipPde, InvLargePage, InvEnterTable, InvAbsentEntry, InvPresentEntry,
     InvTableEnd, InvFinish, InvStutter DEF Next
<1> QED
  BY <1>1, InvInit, PTL DEF Spec

\* analyze_page_mapping reports no address that is not one: every range lies in memory.
THEOREM ReportTyped == Spec => []TypeOK
<1>1. ReportInv => TypeOK
  BY DEF ReportInv
<1> QED
  BY <1>1, ReportInvariant, PTL

\* At every moment of the analysis each page passed is reported as it is translated, once.
THEOREM ReportsExactly == Spec => []ReportExact
<1>1. ReportInv => ReportExact
  <2> SUFFICES ASSUME ReportInv PROVE ReportExact
    OBVIOUS
  <2>1. Passed \in Nat
    <3>1. CASE pc = "done"
      BY <3>1, Sizes DEF Passed
    <3>2. CASE pc = "pde"
      BY <3>2, Numbers DEF Passed
    <3>3. CASE pc = "pte"
      <4>1. CASE block_start_pte = -1
        BY <3>3, <4>1, Numbers DEF Passed, Here
      <4>2. CASE block_start_pte # -1
        <5>1. pde_idx * E + block_start_pte \in Nat
          BY <4>2, Numbers, SMT
        <5> QED
          BY <3>3, <4>2, <5>1 DEF Passed
      <4> QED
        BY <4>1, <4>2
    <3> QED
      BY <3>1, <3>2, <3>3 DEF ReportInv, TypeOK
  <2> QED
    BY <2>1, ExactReport DEF ReportInv
<1> QED
  BY <1>1, ReportInvariant, PTL

-----------------------------------------------------------------------------
(* No run of pages is cut in pieces *)

\* Pages with these flags, from this frame on, do not go on with a block.
Differs(a, attr, phys) ==
    a.attr # attr \/ phys # (a.phys + (a.to - a.from) + 1) % NPAGES

Cut(a, b) ==
    a.to + 1 = b.from /\ a.to \div E = b.from \div E => Differs(a, b.attr, b.phys)

Cuts(r) == \A k \in 1 .. Len(r) - 1 : Cut(r[k], r[k + 1])

\* Between entries: no block ends at an absent entry, and the one that ends where
\* the open block starts differs from it.
MaximalInv ==
    /\ ReportInv
    /\ Cuts(report)
    /\ pc = "pte" /\ block_start_pte = -1 /\ pte_idx # 0 =>
            \A k \in DOMAIN report : report[k].to < Here - 1
    /\ pc = "pte" /\ block_start_pte # -1 /\ block_start_pte # 0 =>
            \A k \in DOMAIN report :
                report[k].to + 1 = pde_idx * E + block_start_pte =>
                Differs(report[k], entry(block_start_pte).attr, entry(block_start_pte).pfn)

\* A block goes after a report when it is cut from each of its blocks.
LEMMA CutsAppend ==
  ASSUME NEW r \in Seq(Block), NEW b \in Block, Cuts(r), \A k \in DOMAIN r : Cut(r[k], b)
  PROVE  Cuts(Append(r, b))
<1> DEFINE s == Append(r, b)
<1>1. /\ Len(r) \in Nat /\ DOMAIN r = 1 .. Len(r) /\ Len(s) = Len(r) + 1
      /\ s[Len(r) + 1] = b /\ \A k \in 1 .. Len(r) : s[k] = r[k]
  BY SMT
<1> HIDE DEF s
<1>2. ASSUME NEW k \in 1 .. Len(s) - 1 PROVE Cut(s[k], s[k + 1])
  <2>1. CASE k = Len(r)
    BY <1>1, <1>2, <2>1, SMT
  <2>2. CASE k # Len(r)
    <3> DEFINE n == Len(r)
    <3>0. n \in Nat /\ k \in 1 .. n /\ k # n
      <4>1. Len(s) - 1 = n
        BY <1>1, SMT
      <4> QED
        BY <1>1, <1>2, <2>2, <4>1
    <3> HIDE DEF n
    <3>1. k \in 1 .. n - 1 /\ k \in 1 .. n /\ k + 1 \in 1 .. n
      BY <3>0, SMT
    <3> USE DEF n
    <3>2. s[k] = r[k] /\ s[k + 1] = r[k + 1]
      BY <1>1, <3>1
    <3> QED
      BY <3>1, <3>2 DEF Cuts
  <2> QED
    BY <2>1, <2>2
<1> QED
  BY <1>2 DEF Cuts, s

\* A block that starts with a directory entry is cut from those before it.
LEMMA CutAtStart ==
  ASSUME NEW a, NEW b, NEW i \in Index, a.to \in Page, a.to < i * E, b.from = i * E
  PROVE  Cut(a, b)
<1>1. 0 \in Index /\ i * E + 0 = i * E /\ i * E \in Int
  BY Sizes, SMT DEF Index
<1>2. b.from \div E = i
  BY <1>1, PageOf
<1>3. ASSUME a.to \div E = i PROVE FALSE
  <2>1. a.to = i * E + (a.to % E) /\ a.to % E \in Index
    BY <1>3, IndexesOf
  <2> QED
    BY <1>1, <2>1, SMT DEF Index
<1> QED
  BY <1>2, <1>3 DEF Cut

\* Every block of the report ends among the pages passed.
LEMMA Ends ==
  ASSUME ReportInv, NEW k \in DOMAIN report
  PROVE  report[k].to \in Page /\ report[k].to < Passed /\ report[k].to \in Int
BY DEF ReportInv, Exact, Good, Block, Page

\* Closing the block that may be open cuts no run.
LEMMA ReportedCuts ==
  ASSUME MaximalInv, pc = "pte"
  PROVE  Cuts(Reported(pte_idx))
<1>0. ReportInv /\ Cuts(report) /\ report \in Seq(Block)
  BY DEF MaximalInv, ReportInv, TypeOK
<1>1. CASE block_start_pte = -1
  BY <1>0, <1>1 DEF Reported
<1>2. CASE block_start_pte # -1
  <2> DEFINE b == OpenBlock(pte_idx)
  <2>1. /\ b.from = pde_idx * E + block_start_pte /\ b \in Block
        /\ Passed = pde_idx * E + block_start_pte
    BY <1>0, <1>2, ClosedGood DEF Good, Passed
  <2>2. b.attr = last_attr /\ b.phys = (last_phys - (pte_idx - 1 - block_start_pte)) % NPAGES
    BY DEF OpenBlock, PhysicalStart
  <2> HIDE DEF b
  <2>3. pde_idx \in Index
    BY <1>0, Numbers, SMT DEF ReportInv, InTable, Index
  <2>4. ASSUME NEW k \in DOMAIN report PROVE Cut(report[k], b)
    <3>0. report[k].to \in Page /\ report[k].to < pde_idx * E + block_start_pte
      BY <1>0, <2>1, Ends
    <3>1. CASE block_start_pte = 0
      <4>1. b.from = pde_idx * E /\ report[k].to < pde_idx * E
        BY <1>0, <2>1, <3>0, <3>1, Numbers, SMT
      <4> QED
        BY <2>3, <3>0, <4>1, CutAtStart
    <3>2. CASE block_start_pte # 0
      <4>1. report[k].to + 1 = b.from =>
              Differs(report[k], entry(block_start_pte).attr, entry(block_start_pte).pfn)
        BY <1>2, <2>1, <3>2 DEF MaximalInv
      <4>2. block_start_pte \in block_start_pte .. pte_idx - 1 /\ Open
        BY <1>0, <1>2, Numbers, SMT DEF ReportInv, Open
      <4>3. entry(block_start_pte).attr = b.attr /\ entry(block_start_pte).pfn = b.phys
        BY <2>2, <4>2 DEF Open
      <4> QED
        BY <4>1, <4>3 DEF Cut
    <3> QED
      BY <3>1, <3>2
  <2>5. Cuts(Append(report, b))
    BY <1>0, <2>1, <2>4, CutsAppend
  <2> QED
    BY <1>2, <2>5 DEF Reported, b
<1> QED
  BY <1>1, <1>2

\* A 4 MB page starts with its directory entry.
LEMMA MaximalLargePage == MaximalInv /\ LargePage => MaximalInv'
<1> SUFFICES ASSUME MaximalInv, LargePage PROVE MaximalInv'
  OBVIOUS
<1> DEFINE b == [from |-> pde_idx * E, to |-> pde_idx * E + (E - 1),
                 phys |-> dir[pde_idx].pfn, attr |-> dir[pde_idx].attr]
<1>1. ReportInv /\ ReportInv' /\ report \in Seq(Block) /\ report' \in Seq(Block)
  BY InvLargePage DEF MaximalInv, ReportInv, TypeOK
<1>2. pde_idx \in Index /\ Passed = pde_idx * E /\ b.from = pde_idx * E
  BY <1>1, Numbers, SMT DEF LargePage, Index, Passed
<1>3. report' = Append(report, b)
  BY DEF LargePage
<1>4. b \in Block
  <2>1. /\ dir[pde_idx].attr \in Attr /\ dir[pde_idx].pfn \in Page
    BY <1>1, <1>2, Entries DEF LargePage, ReportInv
  <2>2. 0 \in Index /\ E - 1 \in Index /\ pde_idx * E + 0 = pde_idx * E
    BY <1>2, Sizes, SMT DEF Index
  <2>3. pde_idx * E \in Page /\ pde_idx * E + (E - 1) \in Page
    BY <1>2, <2>2, PageOf
  <2> QED
    BY <2>1, <2>3 DEF Block
<1> HIDE DEF b
<1>5. ASSUME NEW k \in DOMAIN report PROVE Cut(report[k], b)
  BY <1>1, <1>2, Ends, CutAtStart
<1>6. Cuts(report')
  BY <1>1, <1>3, <1>4, <1>5, CutsAppend DEF MaximalInv
<1> QED
  BY <1>1, <1>6 DEF MaximalInv, LargePage

\* No block ends at an absent entry.
LEMMA MaximalAbsentEntry == MaximalInv /\ AbsentEntry => MaximalInv'
<1> SUFFICES ASSUME MaximalInv, AbsentEntry PROVE MaximalInv'
  OBVIOUS
<1>1. ReportInv /\ ReportInv' /\ Exact(Reported(pte_idx), Here)
  BY InvAbsentEntry, ReportedExact DEF MaximalInv, AbsentEntry
<1>2. Cuts(report')
  BY ReportedCuts DEF AbsentEntry
<1>3. Here' = Here + 1 /\ Here \in Int
  BY <1>1, Numbers, SMT DEF AbsentEntry, Here
<1>4. ASSUME NEW k \in DOMAIN report' PROVE report'[k].to < Here' - 1
  <2>1. Good(report'[k], Here)
    BY <1>1 DEF Exact, AbsentEntry
  <2>2. report'[k].to \in Int /\ report'[k].to < Here
    BY <2>1 DEF Good, Block, Page
  <2> QED
    BY <1>3, <2>2, SMT
<1> QED
  BY <1>1, <1>2, <1>4 DEF MaximalInv, AbsentEntry

\* The entry that opens a block does not go on with the one before it.
LEMMA MaximalPresentEntry == MaximalInv /\ PresentEntry => MaximalInv'
<1> SUFFICES ASSUME MaximalInv, PresentEntry PROVE MaximalInv'
  OBVIOUS
<1>1. ReportInv /\ ReportInv' /\ Cuts(report) /\ pc = "pte" /\ pc' = "pte"
  BY InvPresentEntry DEF MaximalInv, PresentEntry
<1>2. /\ entry(block_start_pte)' = tables[dir[pde_idx].table][block_start_pte']
      /\ pte = entry(pte_idx) /\ pde_idx' = pde_idx
  BY DEF PresentEntry, entry, pte
<1>3. CASE Continues
  <2>1. block_start_pte # -1 /\ report' = report /\ block_start_pte' = block_start_pte
    BY <1>3 DEF PresentEntry, Continues
  <2>2. block_start_pte' # 0 => \A k \in DOMAIN report' :
            report'[k].to + 1 = pde_idx' * E + block_start_pte' =>
            Differs(report'[k], entry(block_start_pte)'.attr, entry(block_start_pte)'.pfn)
    <3>1. entry(block_start_pte)' = entry(block_start_pte)
      BY <1>2, <2>1 DEF entry
    <3> QED
      BY <1>1, <1>2, <2>1, <3>1 DEF MaximalInv
  <2>3. Cuts(report')
    BY <1>1, <2>1
  <2> QED
    BY <1>1, <2>1, <2>2, <2>3 DEF MaximalInv
<1>4. CASE ~Continues
  <2>1. report' = Reported(pte_idx) /\ block_start_pte' = pte_idx /\ pte_idx # -1
    BY <1>1, <1>4, Numbers, SMT DEF PresentEntry
  <2>2. Cuts(report')
    BY <1>1, <2>1, ReportedCuts
  <2>3. ASSUME pte_idx # 0, NEW k \in DOMAIN report',
               report'[k].to + 1 = pde_idx * E + pte_idx
        PROVE  Differs(report'[k], pte.attr, pte.pfn)
    <3>1. CASE block_start_pte = -1
      <4>1. report' = report /\ report[k].to \in Int /\ report[k].to < Here - 1
        BY <1>1, <2>1, <2>3, <3>1, Ends DEF Reported, MaximalInv
      <4> QED
        BY <1>1, <2>3, <4>1, Numbers, SMT DEF Here
    <3>2. CASE block_start_pte # -1
      <4> DEFINE b == OpenBlock(pte_idx)
      <4>1. /\ b \in Block /\ b.from = pde_idx * E + block_start_pte /\ b.to = Here - 1
            /\ Passed = pde_idx * E + block_start_pte /\ block_start_pte < pte_idx
        BY <1>1, <3>2, ClosedGood DEF Good, Passed, ReportInv, Open
      <4>2. /\ b.attr = last_attr
            /\ b.phys = (last_phys - (pte_idx - 1 - block_start_pte)) % NPAGES
        BY DEF OpenBlock, PhysicalStart
      <4>3. report' = Append(report, b) /\ report \in Seq(Block)
        BY <1>1, <2>1, <3>2 DEF Reported, ReportInv, TypeOK
      <4> HIDE DEF b
      <4>4. /\ Len(report) \in Nat /\ DOMAIN report = 1 .. Len(report)
            /\ DOMAIN report' = 1 .. Len(report) + 1
            /\ report'[Len(report) + 1] = b
            /\ \A l \in 1 .. Len(report) : report'[l] = report[l]
        BY <4>1, <4>3, SMT
      <4>5. CASE k \in DOMAIN report
        <5>1. report'[k] = report[k] /\ report[k].to \in Int /\ report[k].to < Passed
          BY <1>1, <4>4, <4>5, Ends
        <5> QED
          BY <1>1, <2>3, <4>1, <5>1, Numbers, SMT
      <4>6. CASE k = Len(report) + 1
        <5>1. report'[k] = b
          BY <4>4, <4>6
        <5>2. pte.attr # b.attr \/ pte.pfn # (last_phys + 1) % NPAGES
          BY <1>4, <3>2, <4>2 DEF Continues
        <5> DEFINE x == last_phys - (pte_idx - 1 - block_start_pte)
                   d == (b.to - b.from) + 1
        <5>3. x \in Int /\ d \in Int /\ x + d = last_phys + 1
          BY <1>1, <4>1, Numbers, SMT DEF Here
        <5>4. ((x % NPAGES) + d) % NPAGES = (x + d) % NPAGES
          <6> HIDE DEF x, d
          <6> QED
            BY <5>3, ModAdd
        <5>5. b.phys + d = b.phys + (b.to - b.from) + 1
          <6>1. b.phys \in Int /\ b.to \in Int /\ b.from \in Int
            BY <4>1 DEF Block, Page
          <6> QED
            BY <6>1, SMT
        <5>6. (b.phys + (b.to - b.from) + 1) % NPAGES = (last_phys + 1) % NPAGES
          BY <4>2, <5>3, <5>4, <5>5
        <5> QED
          BY <5>1, <5>2, <5>6 DEF Differs
      <4> QED
        BY <2>3, <4>4, <4>5, <4>6, SMT
    <3> QED
      BY <3>1, <3>2
  <2>4. entry(block_start_pte)' = pte
    BY <1>2, <2>1 DEF entry
  <2>5. block_start_pte' # 0 => \A k \in DOMAIN report' :
            report'[k].to + 1 = pde_idx' * E + block_start_pte' =>
            Differs(report'[k], entry(block_start_pte)'.attr, entry(block_start_pte)'.pfn)
    BY <1>2, <2>1, <2>3, <2>4
  <2> QED
    BY <1>1, <2>1, <2>2, <2>5 DEF MaximalInv
<1> QED
  BY <1>3, <1>4

\* The other steps open no block.
LEMMA MaximalOthers ==
  MaximalInv /\ (SkipPde \/ EnterTable \/ TableEnd \/ Finish \/ UNCHANGED vars) => MaximalInv'
<1> SUFFICES ASSUME MaximalInv, SkipPde \/ EnterTable \/ TableEnd \/ Finish \/ UNCHANGED vars
             PROVE  MaximalInv'
  OBVIOUS
<1>1. ReportInv /\ ReportInv' /\ Cuts(report)
  BY InvSkipPde, InvEnterTable, InvTableEnd, InvFinish, InvStutter DEF MaximalInv
<1>2. CASE SkipPde
  BY <1>1, <1>2 DEF SkipPde, MaximalInv
<1>3. CASE EnterTable
  BY <1>1, <1>3 DEF EnterTable, MaximalInv
<1>4. CASE TableEnd
  <2>1. Cuts(Reported(pte_idx)) /\ pte_idx = E
    BY <1>4, ReportedCuts DEF TableEnd
  <2> QED
    BY <1>1, <1>4, <2>1 DEF TableEnd, MaximalInv
<1>5. CASE Finish
  BY <1>1, <1>5 DEF Finish, MaximalInv
<1>6. CASE UNCHANGED vars
  BY <1>1, <1>6 DEF vars, MaximalInv, Here, entry
<1> QED
  BY <1>2, <1>3, <1>4, <1>5, <1>6

\* Two blocks that follow one another in a table differ in flags or frames: no run is cut.
THEOREM ReportsMaximal == Spec => []BlocksMaximal
<1>1. Init => MaximalInv
  <2>1. Init => pc # "pte" /\ Cuts(report)
    BY SMT DEF Init, Cuts
  <2> QED
    BY <2>1, InvInit DEF MaximalInv
<1>2. MaximalInv /\ [Next]_vars => MaximalInv'
  BY MaximalLargePage, MaximalAbsentEntry, MaximalPresentEntry, MaximalOthers DEF Next
<1>3. MaximalInv => BlocksMaximal
  <2> SUFFICES ASSUME MaximalInv, NEW k \in 1 .. Len(report) - 1
               PROVE  /\ report[k].to < report[k + 1].from
                      /\ Cut(report[k], report[k + 1])
    BY DEF BlocksMaximal, Cut, Differs
  <2>1. report \in Seq(Block) /\ Exact(report, Passed) /\ Cuts(report)
    BY DEF MaximalInv, ReportInv, TypeOK
  <2>2. k \in DOMAIN report /\ k + 1 \in DOMAIN report /\ k < k + 1
    BY <2>1, SMT
  <2> QED
    BY <2>1, <2>2 DEF Exact, Cuts
<1> QED
  BY <1>1, <1>2, <1>3, PTL DEF Spec

=============================================================================
