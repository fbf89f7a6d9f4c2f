-------------------------- MODULE MapAddressesProof --------------------------
(***************************************************************************)
(* What is proved of map_addresses, for every size of the tables, every    *)
(* set of directories and calls, and every content of RAM: its indexes     *)
(* stay in bounds, no two directory entries share a table, and a Covered   *)
(* call leaves every page of its range translated as asked.  Over tables   *)
(* that are zero, Covered calls change the pages they ask for, one by one, *)
(* and no other page of any address space.                                 *)
(***************************************************************************)
EXTENDS MapRefinement, TLAPS

-----------------------------------------------------------------------------
(* Arithmetic of page numbers *)

\* The space has a positive number of pages.
LEMMA PagesPositive == NPAGES \in Nat /\ NPAGES > 0 /\ E <= NPAGES
  BY EAssumption, SMT DEF NPAGES

\* Quotient and remainder of the division of a page number.
LEMMA DivMod ==
  ASSUME NEW m \in Nat, m > 0, NEW x \in Int
  PROVE  /\ x \div m \in Int
         /\ x % m \in 0 .. m - 1
         /\ x = m * (x \div m) + (x % m)
  BY SMT

\* 32-bit arithmetic stays in the space, and is exact inside it.
LEMMA Wrap ==
  ASSUME NEW x \in Int
  PROVE  x % NPAGES \in Page /\ (x \in Page => x % NPAGES = x)
  BY PagesPositive, SMT DEF Page

\* The two indexes of a page are indexes of a table, and give it back.
LEMMA Indexes ==
  ASSUME NEW w \in Page
  PROVE  /\ pd32_get_idx(w) \in Index
         /\ pt32_get_idx(w) \in Index
         /\ w = pd32_get_idx(w) * E + pt32_get_idx(w)
<1>1. /\ w \in Int /\ w >= 0 /\ w < E * E
  BY PagesPositive, SMT DEF Page, NPAGES
<1>2. w \div E \in 0 .. E - 1
  BY <1>1, EAssumption, SMT
<1>3. w % E \in 0 .. E - 1 /\ w = E * (w \div E) + (w % E)
  BY <1>1, EAssumption, DivMod
<1>4. E * (w \div E) = (w \div E) * E
  BY <1>2, EAssumption, SMT
<1> QED
  BY <1>2, <1>3, <1>4 DEF pd32_get_idx, pt32_get_idx, Index

\* The page made of two indexes has these indexes.
LEMMA IndexesOf ==
  ASSUME NEW i \in Int, NEW j \in Index
  PROVE  pd32_get_idx(i * E + j) = i /\ pt32_get_idx(i * E + j) = j
  BY EAssumption, SMT DEF pd32_get_idx, pt32_get_idx, Index

-----------------------------------------------------------------------------
(* Entries and memory *)

\* pg_set_entry makes an entry that is present, hence not a zero word.
LEMMA SetEntryType ==
  ASSUME NEW fl \in Flags, NEW f \in Page
  PROVE  /\ pg_set_entry(fl, f) \in Entry
         /\ pg_set_entry(fl, f) # Zero
         /\ pg_set_entry(fl, f).p /\ pg_set_entry(fl, f).pfn = f
<1>1. pg_set_entry(fl, f).p = TRUE /\ Zero.p = FALSE
  BY DEF pg_set_entry, Zero
<1>2. pg_set_entry(fl, f) # Zero
  BY <1>1
<1>3. pg_set_entry(fl, f) \in Entry
  BY DEF pg_set_entry, Entry, Flags
<1> QED
  BY <1>2, <1>3 DEF pg_set_entry

\* Writing an entry of a frame gives a memory image.
LEMMA WriteType ==
  ASSUME NEW m \in Memory, NEW f \in Frame, NEW i \in Index, NEW e \in Entry
  PROVE  [m EXCEPT ![f][i] = e] \in Memory
  BY DEF Memory

\* The fields of a call, and the tables it may use.
LEMMA CallFields ==
  ASSUME NEW c \in Calls
  PROVE  /\ c.pgd \in Pgd /\ c.pgd \in Frame
         /\ c.v \in Page /\ c.p \in Page /\ c.size \in Page
         /\ c.flags \in Flags
         /\ c.ptb = Base[c.pgd]
         /\ \A i \in PgdRange(c) : c.ptb + i \in Frame
  BY CallsAssumption, PgdAssumption DEF Call

-----------------------------------------------------------------------------
(* Type correctness and private tables *)

\* The first and last directory entry of a call are indexes.
LEMMA RangeOfCall ==
  ASSUME NEW c \in Calls
  PROVE  /\ pd32_get_idx(c.v) \in Index
         /\ LastPage(c.v, c.size) \in Page
         /\ pd32_get_idx(LastPage(c.v, c.size)) \in Index
<1>1. c.v \in Page /\ c.size \in Page
  BY CallFields
<1>2. c.v + c.size - 1 \in Int
  BY <1>1, SMT DEF Page
<1>3. LastPage(c.v, c.size) \in Page
  BY <1>2, Wrap DEF LastPage
<1> QED
  BY <1>1, <1>3, Indexes

LEMMA InitInv == Init => IInv
<1> SUFFICES ASSUME Init PROVE IInv
  OBVIOUS
<1>1. mem \in Memory /\ TablesPrivate
  BY ImagesAssumption DEF Init, TablesPrivate
<1>2. 0 \in Page /\ 0 \in Index /\ 0 \in 0 .. E
  BY PagesPositive, EAssumption, SMT DEF Page, Index
<1> QED
  BY <1>1, <1>2 DEF Init, IInv, TypeOK, InRange

\* Allocating or reusing a table: the part of the invariant that the entry
\* written decides is left to the two cases.
LEMMA DirectoryInv ==
  ASSUME IInv, NEW pde \in Entry, Directory(pde),
         pde # Zero, pde.p, pde.pfn = Base[req.pgd] + gi
  PROVE  IInv'
<1>1. pc = "pgd" /\ req \in Calls /\ gi \in Index
  BY EAssumption, SMT DEF IInv, TypeOK, Directory, Index
<1>2. req.pgd \in Pgd /\ req.pgd \in Frame
  BY <1>1, CallFields
<1>3. gi \in PgdRange(req)
  BY <1>1, EAssumption, SMT DEF IInv, TypeOK, InRange, Directory, PgdRange, Index,
                           pgd_start_idx
<1>4. pt' \in Frame /\ pt' = Base[req.pgd] + gi
  BY <1>1, <1>3, CallFields DEF Directory
<1>5. mem' = [mem EXCEPT ![req.pgd][gi] = pde] /\ mem' \in Memory
  BY <1>1, <1>2, WriteType DEF Directory, IInv, TypeOK
<1>6. FirstIndex \in Index /\ LastIndex \in Index
  <2>1. pt32_get_idx(v) \in Index
    BY Indexes DEF IInv, TypeOK
  <2>2. v + req.size - 1 \in Int
    BY <1>1, CallFields, SMT DEF IInv, TypeOK, Page
  <2>3. pt32_get_idx(LastPage(v, req.size)) \in Index
    BY <2>2, Wrap, Indexes DEF LastPage
  <2>4. 0 \in Index /\ E - 1 \in Index
    BY EAssumption, SMT DEF Index
  <2> QED
    BY <2>1, <2>3, <2>4 DEF FirstIndex, LastIndex
<1>7. Index \subseteq 0 .. E
  BY EAssumption, SMT DEF Index
<1>8. TypeOK'
  BY <1>1, <1>4, <1>5, <1>6, <1>7 DEF IInv, TypeOK, Directory
<1>9. TablesPrivate'
  <2> SUFFICES ASSUME NEW d \in Pgd, NEW i \in Index, mem'[d][i] # Zero
               PROVE  /\ mem'[d][i].p /\ mem'[d][i].pfn = Base[d] + i
                      /\ mem'[d][i].pfn \in Frame
    BY DEF TablesPrivate
  <2>1. CASE d = req.pgd /\ i = gi
    BY <2>1, <1>1, <1>2, <1>4, <1>5 DEF IInv, TypeOK, Memory, Directory
  <2>2. CASE ~(d = req.pgd /\ i = gi)
    <3>1. mem'[d][i] = mem[d][i]
      BY <2>2, <1>1, <1>2, <1>5, PgdAssumption DEF IInv, TypeOK, Memory
    <3> QED
      BY <3>1 DEF IInv, TablesPrivate
  <2> QED
    BY <2>1, <2>2
<1>10. InRange'
  <2>1. mem'[req.pgd][gi] = pde
    BY <1>1, <1>2, <1>5 DEF IInv, TypeOK, Memory
  <2> QED
    BY <2>1, <1>1, <1>4 DEF IInv, InRange, Directory, pgd_start_idx
<1> QED
  BY <1>8, <1>9, <1>10 DEF IInv

\* Writing an entry of the table in use disturbs no directory.
LEMMA SetPteMemory ==
  ASSUME IInv, SetPte
  PROVE  /\ req \in Calls /\ req.pgd \in Pgd
         /\ pt \in Frame /\ ti \in Index /\ gi \in Index
         /\ pt = Base[req.pgd] + gi
         /\ pg_set_entry(req.flags, p) \in Entry
         /\ mem' = [mem EXCEPT ![pt][ti] = pg_set_entry(req.flags, p)]
         /\ mem' \in Memory
         /\ \A d \in Pgd : d # pt /\ mem'[d] = mem[d]
<1>1. req \in Calls /\ pt \in Frame /\ gi \in Index
  BY DEF IInv, TypeOK, SetPte, MoreEntries, NextFrame
<1>2. ti \in Index
  BY EAssumption, SMT DEF IInv, TypeOK, SetPte, MoreEntries, NextFrame, Index
<1>3. req.pgd \in Pgd
  BY <1>1, CallFields
<1>4. pg_set_entry(req.flags, p) \in Entry
  BY <1>1, CallFields, SetEntryType DEF IInv, TypeOK
<1>5. mem' = [mem EXCEPT ![pt][ti] = pg_set_entry(req.flags, p)] /\ mem' \in Memory
  BY <1>1, <1>2, <1>4, WriteType DEF SetPte, MoreEntries, NextFrame, IInv, TypeOK
<1>6. pt = Base[req.pgd] + gi
  BY DEF IInv, InRange, SetPte, MoreEntries, NextFrame
<1>7. \A d \in Pgd : d # pt
  BY <1>1, <1>3, <1>6, PgdAssumption
<1>8. \A d \in Pgd : mem'[d] = mem[d]
  BY <1>5, <1>7, <1>1, PgdAssumption DEF IInv, TypeOK, Memory
<1> QED
  BY <1>1, <1>2, <1>3, <1>4, <1>5, <1>6, <1>7, <1>8

LEMMA StepInv == IInv /\ [Next]_vars => IInv'
<1> SUFFICES ASSUME IInv, [Next]_vars PROVE IInv'
  OBVIOUS
<1>1. CASE UNCHANGED vars
  BY <1>1 DEF vars, locals, IInv, TypeOK, TablesPrivate, InRange, pgd_start_idx
<1>2. ASSUME NEW c \in Calls, Reject(c) PROVE IInv'
  BY <1>2 DEF Reject, locals, IInv, TypeOK, TablesPrivate, InRange, pgd_start_idx
<1>3. ASSUME NEW c \in Calls, Accept(c) PROVE IInv'
  <2>1. /\ pd32_get_idx(c.v) \in Index /\ c.v \in Page /\ c.p \in Page
        /\ pd32_get_idx(LastPage(c.v, c.size)) \in Index
    BY RangeOfCall, CallFields
  <2>2. Index \subseteq 0 .. E /\ \A i \in Index : i >= i
    BY EAssumption, SMT DEF Index
  <2>3. TypeOK'
    BY <1>3, <2>1, <2>2 DEF Accept, IInv, TypeOK
  <2>4. TablesPrivate'
    BY <1>3 DEF Accept, IInv, TablesPrivate
  <2>5. InRange'
    BY <1>3, <2>1, <2>2 DEF Accept, InRange, pgd_start_idx
  <2> QED
    BY <2>3, <2>4, <2>5 DEF IInv
<1>4. CASE AllocTable
  <2> DEFINE pde == pg_set_entry(req.flags, req.ptb + gi)
  <2>1. pc = "pgd" /\ req \in Calls /\ gi \in PgdRange(req)
    BY <1>4, EAssumption, SMT DEF IInv, TypeOK, InRange, AllocTable, pte_base, Index, PgdRange,
                             pgd_start_idx
  <2>2. req.ptb + gi \in Page /\ req.ptb = Base[req.pgd]
    BY <2>1, CallFields, FrameAssumption
  <2>3. pde \in Entry /\ pde # Zero /\ pde.p /\ pde.pfn = Base[req.pgd] + gi
    BY <2>1, <2>2, CallFields, SetEntryType
  <2>4. Directory(pde)
    BY <1>4 DEF AllocTable, pte_base
  <2> HIDE DEF pde
  <2> QED
    BY <2>3, <2>4, DirectoryInv
<1>5. CASE ReuseTable
  <2> DEFINE pde == mem[req.pgd][gi]
  <2>1. req \in Calls /\ gi \in Index
    BY <1>5, EAssumption, SMT DEF IInv, TypeOK, ReuseTable, Index
  <2>2. req.pgd \in Pgd /\ req.pgd \in Frame
    BY <2>1, CallFields
  <2>3. pde \in Entry
    BY <2>1, <2>2 DEF IInv, TypeOK, Memory
  <2>4. pde # Zero /\ pde.p /\ pde.pfn = Base[req.pgd] + gi
    BY <1>5, <2>1, <2>2 DEF IInv, TablesPrivate, ReuseTable
  <2>5. Directory(pde)
    BY <1>5 DEF ReuseTable
  <2> HIDE DEF pde
  <2> QED
    BY <2>3, <2>4, <2>5, DirectoryInv
<1>6. CASE SetPte
  <2>1. p + 1 \in Int
    BY SMT DEF IInv, TypeOK, Page
  <2>2. (p + 1) % NPAGES \in Page
    BY <2>1, Wrap
  <2>3. ti + 1 \in 0 .. E
    BY <1>6, EAssumption, SMT DEF IInv, TypeOK, SetPte, MoreEntries, NextFrame, Index
  <2>4. TypeOK'
    BY <1>6, <2>2, <2>3, SetPteMemory DEF SetPte, MoreEntries, NextFrame, IInv, TypeOK
  <2>5. TablesPrivate'
    BY <1>6, SetPteMemory DEF IInv, TablesPrivate
  <2>6. InRange'
    BY <1>6, SetPteMemory DEF SetPte, MoreEntries, NextFrame, IInv, InRange, pgd_start_idx
  <2> QED
    BY <2>4, <2>5, <2>6 DEF IInv
<1>7. CASE NextTable
  <2>1. gi \in Index /\ pc = "pte" /\ req \in Calls
    BY <1>7 DEF NextTable, MoreEntries, NextDirectory, IInv, TypeOK
  <2>2. (gi + 1) * E \in Int /\ gi + 1 \in 0 .. E
    BY <2>1, EAssumption, SMT DEF Index
  <2>3. ((gi + 1) * E) % NPAGES \in Page
    BY <2>2, Wrap
  <2>4. TypeOK'
    BY <1>7, <2>2, <2>3 DEF NextTable, MoreEntries, NextDirectory, IInv, TypeOK
  <2>5. pgd_start_idx \in Index
    BY <2>1, RangeOfCall DEF pgd_start_idx
  <2>6. gi + 1 >= pgd_start_idx
    BY <2>1, <2>5, EAssumption, SMT DEF IInv, InRange, Index
  <2>7. InRange'
    BY <1>7, <2>6 DEF NextTable, MoreEntries, NextDirectory, IInv, InRange, pgd_start_idx
  <2> QED
    BY <1>7, <2>4, <2>7 DEF NextTable, MoreEntries, NextDirectory, IInv, TablesPrivate
<1>8. CASE Return
  BY <1>8 DEF Return, locals, IInv, TypeOK, TablesPrivate, InRange
<1> QED
  BY <1>1, <1>2, <1>3, <1>4, <1>5, <1>6, <1>7, <1>8 DEF Next, Step

\* The inductive invariant holds in every state.
THEOREM InvTheorem == Spec => []IInv
  BY InitInv, StepInv, PTL DEF Spec

\* Every index that map_addresses uses, and every frame it writes, is in
\* bounds, whatever the calls and the content of RAM.
THEOREM TypeCorrect == Spec => []TypeOK
<1>1. IInv => TypeOK
  BY DEF IInv
<1> QED
  BY <1>1, InvTheorem, PTL

\* No two directory entries, of one directory or of two, ever share a table,
\* and no table lies over a directory.
THEOREM PrivateTables == Spec => []TablesPrivate
<1>1. IInv => TablesPrivate
  BY DEF IInv
<1> QED
  BY <1>1, InvTheorem, PTL

-----------------------------------------------------------------------------
(* More arithmetic of pages *)

\* The page of a lower index comes first.
LEMMA Before ==
  ASSUME NEW w \in Page, NEW i \in Int
  PROVE  /\ w < i * E => pd32_get_idx(w) < i
         /\ pd32_get_idx(w) < i => w < i * E
<1> DEFINE a == pd32_get_idx(w)
           b == pt32_get_idx(w)
<1>1. a \in Int /\ b \in Int /\ b >= 0 /\ b < E /\ w = a * E + b
  BY Indexes, EAssumption, SMT DEF Index
<1> HIDE DEF a, b
<1>2. w < i * E => a < i
  <2> SUFFICES ASSUME w < i * E, a >= i PROVE FALSE
    BY <1>1, SMT
  <2>1. a * E >= i * E
    BY <1>1, EAssumption, SMT
  <2>2. i * E \in Int /\ a * E \in Int
    BY <1>1, EAssumption, SMT
  <2> QED
    BY <2>1, <2>2, <1>1, SMT
<1>3. a < i => w < i * E
  <2> SUFFICES ASSUME a + 1 <= i PROVE w < i * E
    BY <1>1, SMT
  <2>1. (a + 1) * E <= i * E
    BY <1>1, EAssumption, SMT
  <2>2. (a + 1) * E = a * E + E /\ i * E \in Int /\ a * E \in Int
    BY <1>1, EAssumption, SMT
  <2> QED
    BY <2>1, <2>2, <1>1, EAssumption, SMT
<1> QED
  BY <1>2, <1>3 DEF a

\* A later page has no lower index.
LEMMA Monotone ==
  ASSUME NEW w \in Page, NEW x \in Page, w <= x
  PROVE  pd32_get_idx(w) <= pd32_get_idx(x)
<1> DEFINE i == pd32_get_idx(w)
<1>1. i \in Int /\ pd32_get_idx(x) \in Int
  BY Indexes, EAssumption, SMT DEF Index
<1>2. ~(w < i * E)
  BY <1>1, Before, SMT
<1>3. w \in Int /\ x \in Int /\ i * E \in Int
  BY <1>1, PagesPositive, EAssumption, SMT DEF Page
<1>4. ~(x < i * E)
  BY <1>2, <1>3, SMT
<1>5. ~(pd32_get_idx(x) < i)
  BY <1>4, <1>1, Before
<1> QED
  BY <1>5, <1>1, SMT

\* The first page of a table.
LEMMA TableStart ==
  ASSUME NEW i \in Index
  PROVE  i * E \in Page
<1>1. i \in Int /\ 0 <= i /\ i <= E - 1 /\ E \in Int /\ E > 0
  BY EAssumption, SMT DEF Index
<1>2. 0 <= i * E /\ i * E <= (E - 1) * E /\ i * E \in Int
  BY <1>1, SMT
<1>3. (E - 1) * E = E * E - E
  BY <1>1, SMT
<1>4. E * E \in Int
  BY <1>1, SMT
<1> QED
  BY <1>1, <1>2, <1>3, <1>4, SMT DEF Page, NPAGES

\* Whole tables do not count in the index inside a table.
LEMMA WholeTables ==
  ASSUME NEW i \in Int, NEW x \in Int
  PROVE  (i * E + x) % E = x % E
<1> DEFINE q == x \div E
           r == x % E
<1>1. q \in Int /\ r \in 0 .. E - 1 /\ x = E * q + r
  BY EAssumption, DivMod
<1> HIDE DEF q, r
<1>2. i * E + (E * q + r) = (i + q) * E + r /\ i + q \in Int
  BY <1>1, EAssumption, SMT
<1>3. ((i + q) * E + r) % E = r
  BY <1>1, <1>2, IndexesOf DEF Index, pt32_get_idx
<1> QED
  BY <1>1, <1>2, <1>3 DEF r

\* Nor does the wrap at 2^32, a whole number of tables.
LEMMA WrappedIndex ==
  ASSUME NEW x \in Int
  PROVE  (x % NPAGES) % E = x % E
<1> DEFINE q == x \div NPAGES
           r == x % NPAGES
<1>1. q \in Int /\ r \in Int /\ x = NPAGES * q + r
  BY PagesPositive, DivMod, SMT
<1> HIDE DEF q, r
<1>2. NPAGES * q = (E * q) * E /\ E * q \in Int
  BY <1>1, EAssumption, SMT DEF NPAGES
<1>3. x = (E * q) * E + r
  BY <1>1, <1>2
<1>4. x % E = r % E
  BY <1>1, <1>2, <1>3, WholeTables
<1> QED
  BY <1>4 DEF r

-----------------------------------------------------------------------------
(* Reading a translation *)

\* Under the invariant, a page with a table is translated by the table
\* reserved for its index.
LEMMA PteOf ==
  ASSUME IInv, NEW d \in Pgd, NEW w \in Page, mem[d][pd32_get_idx(w)] # Zero
  PROVE  /\ mem[d][pd32_get_idx(w)].p
         /\ Base[d] + pd32_get_idx(w) \in Frame
         /\ mem[d][pd32_get_idx(w)].pfn = Base[d] + pd32_get_idx(w)
         /\ Pte(mem, d, w) = mem[Base[d] + pd32_get_idx(w)][pt32_get_idx(w)]
<1>1. pd32_get_idx(w) \in Index
  BY Indexes
<1> QED
  BY <1>1 DEF IInv, TablesPrivate, Pte

\* A page without a table has no translation.
LEMMA PteNone ==
  ASSUME NEW m, NEW d, NEW w, m[d][pd32_get_idx(w)] = Zero
  PROVE  Pte(m, d, w) = Zero
  BY DEF Pte, Zero

-----------------------------------------------------------------------------
(* The range of a Covered call *)

\* What Covered says, without the wrap.
LEMMA CoveredRange ==
  ASSUME NEW c \in Calls, Covered(c)
  PROVE  /\ c.v \in Int /\ c.size \in Int /\ c.p \in Int
         /\ 0 <= c.v /\ 0 <= c.size /\ 0 <= c.p
         /\ 1 <= c.v + c.size /\ c.v + c.size <= NPAGES /\ c.p + c.size <= NPAGES
         /\ c.v + c.size - 1 \in Page
         /\ LastPage(c.v, c.size) = c.v + c.size - 1
<1>1. c.v \in Page /\ c.size \in Page /\ c.p \in Page
  BY CallFields
<1>2. c.v + c.size \in 1 .. NPAGES /\ c.p + c.size <= NPAGES
  BY DEF Covered
<1>3. c.v + c.size - 1 \in Page /\ c.v + c.size - 1 \in Int
  BY <1>1, <1>2, PagesPositive, SMT DEF Page
<1>4. LastPage(c.v, c.size) = c.v + c.size - 1
  BY <1>3, Wrap DEF LastPage
<1> QED
  BY <1>1, <1>2, <1>3, <1>4, PagesPositive, SMT DEF Page

\* The bounds of its range in the directory.
LEMMA CoveredDirectory ==
  ASSUME IInv, pc # "idle", Covered(req)
  PROVE  /\ req \in Calls /\ req.pgd \in Pgd
         /\ pgd_start_idx \in Index
         /\ glast = pd32_get_idx(req.v + req.size - 1)
         /\ gi \in Int /\ glast \in Index /\ gi >= pgd_start_idx
         /\ gi <= glast => gi \in Index
         /\ pgd_start_idx > glast => req.size = 0
<1>1. req \in Calls /\ req.pgd \in Pgd
  BY CallFields DEF IInv, TypeOK
<1>2. pgd_start_idx \in Index
  BY <1>1, RangeOfCall DEF pgd_start_idx
<1>3. glast = pd32_get_idx(req.v + req.size - 1)
  BY <1>1, CoveredRange DEF IInv, InRange
<1>4. gi \in Int /\ glast \in Index /\ gi >= pgd_start_idx
  BY SMT DEF IInv, InRange, TypeOK
<1>5. gi <= glast => gi \in Index
  BY <1>2, <1>4, EAssumption, SMT DEF Index
<1>6. ASSUME req.size # 0 PROVE ~(pgd_start_idx > glast)
  <2>1. req.v \in Page /\ req.v + req.size - 1 \in Page
    BY <1>1, CoveredRange, CallFields
  <2>2. req.v <= req.v + req.size - 1
    BY <1>1, <1>6, CoveredRange, SMT
  <2>3. pgd_start_idx <= glast
    BY <1>3, <2>1, <2>2, Monotone DEF pgd_start_idx
  <2> QED
    BY <2>3, <1>2, <1>4, EAssumption, SMT DEF Index
<1> QED
  BY <1>1, <1>2, <1>3, <1>4, <1>5, <1>6

\* A call begins with no page reached.
LEMMA AcceptServing ==
  ASSUME NEW c \in Calls, Accept(c)
  PROVE  Serving' /\ RequestServed'
<1>1. pc' = "pgd" /\ req' = c /\ v' = c.v /\ p' = c.p /\ gi' = pd32_get_idx(c.v)
  BY DEF Accept
<1>2. Reached' = c.v
  BY <1>1 DEF Reached, pgd_start_idx
<1>3. ASSUME Covered(c)
      PROVE  /\ c.v \in c.v .. c.v + c.size
             /\ c.p = (c.p + (c.v - c.v)) % NPAGES
             /\ \A w \in c.v .. c.v - 1 : FALSE
  <2>1. c.v \in c.v .. c.v + c.size
    BY <1>3, CoveredRange, SMT
  <2>2. c.p + (c.v - c.v) = c.p /\ c.p \in Int
    BY <1>3, CoveredRange, SMT
  <2>3. c.p = c.p % NPAGES
    BY <2>2, CallFields, Wrap
  <2>4. \A w \in c.v .. c.v - 1 : FALSE
    BY <1>3, CoveredRange, SMT
  <2> QED
    BY <2>1, <2>2, <2>3, <2>4
<1>4. Covered(req)' = Covered(c)
  BY <1>1 DEF Covered
<1>5. Serving'
  BY <1>1, <1>2, <1>3, <1>4 DEF Serving, pgd_start_idx
<1> QED
  BY <1>1, <1>5 DEF RequestServed

\* Entering a table: the inner loop starts at the page reached, and ends with
\* the range or with the table.
LEMMA DirectoryBounds ==
  ASSUME IInv, Serving, Covered(req), NEW pde, Directory(pde)
  PROVE  /\ FirstIndex \in Index /\ LastIndex \in Index
         /\ Reached = gi * E + FirstIndex
         /\ gi # pgd_start_idx => Reached = gi * E
         /\ gi * E + LastIndex + 1 = IF gi = glast THEN req.v + req.size
                                                   ELSE (gi + 1) * E
         /\ FirstIndex <= LastIndex + 1
<1>1. pc = "pgd" /\ gi <= glast
  BY DEF Directory
<1>2. /\ req \in Calls /\ gi \in Index /\ glast \in Index
      /\ gi \in Int /\ glast \in Int /\ gi * E \in Int
      /\ pgd_start_idx \in Int /\ gi >= pgd_start_idx
      /\ glast = pd32_get_idx(req.v + req.size - 1)
  <2>1. req \in Calls /\ gi \in Index /\ glast \in Index /\ pgd_start_idx \in Index
    BY <1>1, CoveredDirectory
  <2>2. glast = pd32_get_idx(req.v + req.size - 1) /\ gi >= pgd_start_idx
    BY <1>1, CoveredDirectory
  <2> QED
    BY <2>1, <2>2, EAssumption, SMT DEF Index
<1>3. /\ req.v \in Page /\ req.v \in Int /\ req.size \in Int
      /\ req.v + req.size - 1 \in Page
  BY <1>2, CallFields, CoveredRange
<1>4. Reached = IF gi = pgd_start_idx THEN req.v ELSE gi * E
  BY <1>1, <1>2, SMT DEF Reached
<1>5. v = IF gi = pgd_start_idx THEN req.v ELSE gi * E
  <2>1. gi * E \in Page /\ (gi * E) % NPAGES = gi * E
    BY <1>2, TableStart, Wrap
  <2> QED
    BY <1>1, <2>1 DEF Serving
<1>6. Reached = gi * E + FirstIndex /\ FirstIndex \in Index
  <2>1. CASE gi = pgd_start_idx
    BY <2>1, <1>3, <1>4, <1>5, Indexes DEF FirstIndex, pgd_start_idx
  <2>2. CASE gi # pgd_start_idx
    BY <2>2, <1>2, <1>4, EAssumption, SMT DEF FirstIndex, Index
  <2> QED
    BY <2>1, <2>2
<1>7. CASE gi # glast
  <2>1. LastIndex = E - 1 /\ LastIndex \in Index
    BY <1>7, EAssumption, SMT DEF LastIndex, Index
  <2>2. gi * E + (E - 1) + 1 = (gi + 1) * E
    BY <1>2, EAssumption, SMT
  <2>3. FirstIndex <= E - 1 + 1
    BY <1>6, EAssumption, SMT DEF Index
  <2> QED
    BY <1>4, <1>6, <1>7, <2>1, <2>2, <2>3
<1>8. CASE gi = glast
  <2> DEFINE last == req.v + req.size - 1
  <2>1. last = gi * E + pt32_get_idx(last) /\ pt32_get_idx(last) \in Index
    BY <1>2, <1>3, <1>8, Indexes
  <2>2. LastIndex = pt32_get_idx(LastPage(v, req.size))
    BY <1>8 DEF LastIndex
  <2>3. pt32_get_idx(LastPage(v, req.size)) = pt32_get_idx(last)
    <3>1. CASE gi = pgd_start_idx
      BY <3>1, <1>2, <1>5, CoveredRange
    <3>2. CASE gi # pgd_start_idx
      <4>1. pd32_get_idx(req.v) # pd32_get_idx(last)
        BY <3>2, <1>2, <1>8 DEF pgd_start_idx
      <4>2. req.size # 0
        <5> SUFFICES ASSUME req.size = 0 PROVE FALSE
          OBVIOUS
        <5>1. last \in Page /\ last <= req.v
          BY <1>3, SMT
        <5>2. pd32_get_idx(last) <= pd32_get_idx(req.v)
          BY <5>1, <1>3, Monotone
        <5> QED
          BY <5>2, <3>2, <1>2, <1>8, SMT DEF pgd_start_idx
      <4>3. pt32_get_idx(req.v) = 0
        BY <4>1, <4>2 DEF Covered
      <4> DEFINE s == pgd_start_idx
      <4>4. req.v = s * E /\ s \in Int
        <5>1. req.v = s * E + 0 /\ s \in Index
          BY <4>3, <1>3, Indexes DEF pgd_start_idx
        <5> QED
          BY <5>1, EAssumption, SMT DEF Index
      <4> HIDE DEF s
      <4>5. LastPage(v, req.size) % E = (gi * E + (req.size - 1)) % E
        <5>1. v + req.size - 1 = gi * E + (req.size - 1)
          BY <3>2, <1>2, <1>3, <1>5, SMT
        <5> QED
          BY <5>1, <1>2, <1>3, WrappedIndex DEF LastPage
      <4>6. last = s * E + (req.size - 1)
        BY <4>4, <1>3, EAssumption, SMT
      <4>7. LastPage(v, req.size) % E = (req.size - 1) % E
        BY <4>5, <1>2, <1>3, WholeTables
      <4>8. last % E = (req.size - 1) % E
        BY <4>6, <4>4, <1>3, WholeTables
      <4> QED
        BY <4>7, <4>8 DEF pt32_get_idx
    <3> QED
      BY <3>1, <3>2
  <2>4. LastIndex \in Index /\ last = gi * E + LastIndex
    BY <2>1, <2>2, <2>3
  <2>5. Reached <= req.v + req.size
    BY <1>1, <1>3, SMT DEF Serving
  <2> HIDE DEF last
  <2>6. LastIndex \in Int /\ FirstIndex \in Int
    BY <2>4, <1>6, EAssumption, SMT DEF Index
  <2>7. req.v + req.size = last + 1
    BY <1>3, SMT DEF last
  <2>8. gi * E + LastIndex + 1 = req.v + req.size
    BY <2>4, <2>6, <2>7, <1>2, SMT
  <2>9. FirstIndex <= LastIndex + 1
    BY <2>5, <2>6, <2>8, <1>2, <1>6, SMT
  <2> QED
    BY <1>4, <1>6, <1>8, <2>4, <2>8, <2>9
<1> QED
  BY <1>7, <1>8

\* Entering a table changes no page already reached.
LEMMA DirectoryServing ==
  ASSUME IInv, IInv', Serving, NEW pde, Directory(pde),
         pde = mem[req.pgd][gi] \/ mem[req.pgd][gi] = Zero
  PROVE  Serving'
<1> SUFFICES ASSUME Covered(req) PROVE Serving'
  BY DEF Serving, Directory, Covered
<1>1. /\ pc = "pgd" /\ pc' = "pte" /\ req' = req /\ p' = p /\ gi' = gi
      /\ glast' = glast /\ ti' = FirstIndex /\ tlast' = LastIndex
      /\ mem' = [mem EXCEPT ![req.pgd][gi] = pde]
  BY DEF Directory
<1>2. /\ req.pgd \in Pgd /\ req.pgd \in Frame /\ gi \in Index /\ req \in Calls
      /\ gi \in Int
  BY <1>1, CoveredDirectory, CallFields DEF Directory
<1>3. Reached' = Reached /\ Reached \in Int
  BY <1>1, DirectoryBounds DEF Reached, Serving
<1>4. ti' <= tlast' + 1
  BY <1>1, DirectoryBounds
<1>5. gi * E + tlast' + 1 = IF gi = glast THEN req.v + req.size ELSE (gi + 1) * E
  BY <1>1, DirectoryBounds
<1>6. ASSUME NEW w \in req.v .. Reached - 1
      PROVE  Pte(mem', req.pgd, w) = Pte(mem, req.pgd, w)
  <2>1. gi # pgd_start_idx /\ Reached = gi * E
    <3>1. CASE gi = pgd_start_idx
      <4>1. Reached = req.v
        BY <1>1, <3>1 DEF Reached
      <4> QED
        BY <4>1, <1>2, <1>6, CoveredRange, SMT
    <3> QED
      BY <3>1, DirectoryBounds
  <2>2. w \in Page /\ w < gi * E
    BY <2>1, <1>1, <1>2, <1>3, <1>6, CoveredRange, PagesPositive, SMT DEF Page, Serving
  <2>3. pd32_get_idx(w) < gi /\ pd32_get_idx(w) \in Index /\ pt32_get_idx(w) \in Index
    BY <2>2, <1>2, Before, Indexes
  <2>4. pd32_get_idx(w) # gi
    BY <2>3, <1>2, EAssumption, SMT DEF Index
  <2>5. mem'[req.pgd][pd32_get_idx(w)] = mem[req.pgd][pd32_get_idx(w)]
    BY <1>1, <1>2, <2>3, <2>4 DEF IInv, TypeOK, Memory
  <2>6. CASE mem[req.pgd][pd32_get_idx(w)] = Zero
    BY <2>5, <2>6, PteNone
  <2>7. CASE mem[req.pgd][pd32_get_idx(w)] # Zero
    <3> DEFINE f == mem[req.pgd][pd32_get_idx(w)].pfn
    <3>1. f \in Frame /\ f # req.pgd
      BY <2>2, <2>3, <2>7, <1>2, PteOf, PgdAssumption
    <3>2. mem'[f] = mem[f]
      BY <3>1, <1>1, <1>2 DEF IInv, TypeOK, Memory
    <3> QED
      BY <2>5, <3>1, <3>2 DEF Pte
  <2> QED
    BY <2>6, <2>7
<1> QED
  BY <1>1, <1>3, <1>4, <1>5, <1>6, DirectoryBounds DEF Serving

\* A turn of the inner loop translates the page it is at, and no other page of
\* this directory or another.
LEMMA SetPteTranslates ==
  ASSUME IInv, SetPte, NEW d \in Pgd, NEW w \in Page
  PROVE  Pte(mem', d, w) = IF d = req.pgd /\ w = gi * E + ti
                           THEN pg_set_entry(req.flags, p) ELSE Pte(mem, d, w)
<1> DEFINE i == pd32_get_idx(w)
           j == pt32_get_idx(w)
<1>1. /\ req.pgd \in Pgd /\ pt \in Frame /\ ti \in Index /\ gi \in Index
      /\ pt = Base[req.pgd] + gi
      /\ mem' = [mem EXCEPT ![pt][ti] = pg_set_entry(req.flags, p)]
      /\ mem'[d] = mem[d]
  BY SetPteMemory
<1>2. i \in Index /\ j \in Index /\ w = i * E + j /\ mem \in Memory
  BY Indexes DEF IInv, TypeOK
<1>3. mem[req.pgd][gi] # Zero
  BY DEF SetPte, IInv, InRange
<1>4. CASE d = req.pgd /\ i = gi /\ j = ti
  <2>1. mem[d][i].p /\ mem[d][i].pfn = pt
    BY <1>1, <1>2, <1>3, <1>4, PteOf
  <2>2. mem'[pt][j] = pg_set_entry(req.flags, p)
    BY <1>1, <1>2, <1>4 DEF Memory
  <2> QED
    BY <1>1, <1>2, <1>4, <2>1, <2>2 DEF Pte
<1>5. CASE ~(d = req.pgd /\ i = gi /\ j = ti)
  <2>1. ~(d = req.pgd /\ w = gi * E + ti)
    <3>1. gi \in Int
      BY <1>1, EAssumption, SMT DEF Index
    <3>2. w = gi * E + ti => i = gi /\ j = ti
      BY <1>1, <3>1, IndexesOf
    <3> QED
      BY <1>5, <3>2
  <2>2. Pte(mem', d, w) = Pte(mem, d, w)
    <3>1. CASE mem[d][i] = Zero
      <4>1. mem'[d][i] = Zero
        BY <1>1, <3>1
      <4> QED
        BY <3>1, <4>1, PteNone
    <3>2. CASE mem[d][i] # Zero
      <4>1. /\ mem[d][i].pfn \in Frame /\ mem[d][i].pfn = Base[d] + i
        BY <1>2, <3>2, PteOf
      <4>2. mem[d][i].pfn = pt => d = req.pgd /\ i = gi
        BY <1>1, <1>2, <4>1, EAssumption, PgdAssumption, SMT DEF Index, Page
      <4>3. mem'[mem[d][i].pfn][j] = mem[mem[d][i].pfn][j]
        BY <1>1, <1>2, <1>5, <4>1, <4>2 DEF Memory
      <4> QED
        BY <1>1, <4>1, <4>3 DEF Pte
    <3> QED
      BY <3>1, <3>2
  <2> QED
    BY <2>1, <2>2
<1> QED
  BY <1>2, <1>4, <1>5
\* The page that a turn of the inner loop writes is the next one of the range.
LEMMA SetPteReached ==
  ASSUME IInv, Serving, SetPte, Covered(req)
  PROVE  /\ Reached = gi * E + ti /\ Reached' = Reached + 1
         /\ Reached \in Page /\ req.v <= Reached /\ Reached < req.v + req.size
         /\ p = req.p + (Reached - req.v)
<1>1. /\ pc = "pte" /\ pc' = "pte" /\ req' = req /\ p' = (p + 1) % NPAGES
      /\ gi' = gi /\ glast' = glast /\ ti' = ti + 1 /\ tlast' = tlast /\ ti <= tlast
  BY DEF SetPte, MoreEntries, NextFrame
<1>2. /\ req \in Calls /\ req.pgd \in Pgd /\ req.pgd \in Frame
      /\ pt \in Frame /\ pt = Base[req.pgd] + gi
      /\ gi \in Index /\ ti \in Index /\ glast \in Index
      /\ \A d \in Pgd : d # pt /\ mem'[d] = mem[d]
      /\ mem' = [mem EXCEPT ![pt][ti] = pg_set_entry(req.flags, p)]
  BY SetPteMemory, CallFields DEF IInv, TypeOK
<1>3. gi \in Int /\ ti \in Int /\ tlast \in Int /\ gi * E \in Int /\ gi <= glast
      /\ glast \in Int
  <2>1. tlast \in Index /\ gi <= glast
    BY <1>1 DEF IInv, TypeOK, InRange
  <2> QED
    BY <1>2, <2>1, EAssumption, SMT DEF Index
<1>4. Reached = gi * E + ti /\ Reached' = Reached + 1
  BY <1>1, <1>3, SMT DEF Reached
<1>5. req.v <= Reached /\ Reached < req.v + req.size /\ Reached \in Int
  <2>1. req.v <= Reached /\ Reached \in Int
    BY <1>1, <1>2, CoveredRange, SMT DEF Serving
  <2>2. gi * E + tlast + 1 <= req.v + req.size
    <3>1. CASE gi = glast
      BY <3>1, <1>1, <1>2, <1>3, CoveredRange, SMT DEF Serving
    <3>2. CASE gi # glast
      <4>1. gi * E + tlast + 1 = (gi + 1) * E
        BY <3>2, <1>1 DEF Serving
      <4>2. req.v + req.size - 1 \in Page /\ glast = pd32_get_idx(req.v + req.size - 1)
        BY <1>1, <1>2, CoveredRange, CoveredDirectory
      <4>3. ~(glast < gi + 1) /\ gi + 1 \in Int
        BY <3>2, <1>3, SMT
      <4>4. ~(req.v + req.size - 1 < (gi + 1) * E)
        BY <4>2, <4>3, Before
      <4>5. (gi + 1) * E \in Int
        BY <1>3, EAssumption, SMT
      <4> QED
        BY <4>1, <4>4, <4>5, <1>2, CoveredRange, SMT
    <3> QED
      BY <3>1, <3>2
  <2>3. Reached < gi * E + tlast + 1
    BY <1>1, <1>3, <1>4, SMT
  <2> QED
    BY <2>1, <2>2, <2>3, <1>2, <1>3, CoveredRange, SMT
<1>6. p = req.p + (Reached - req.v) /\ p \in Page
  <2>1. req.p + (Reached - req.v) \in Page /\ req.p + (Reached - req.v) \in Int
    BY <1>2, <1>5, CoveredRange, PagesPositive, SMT DEF Page
  <2> QED
    BY <2>1, <1>1, Wrap DEF Serving
<1>7. Reached \in Page
  BY <1>2, <1>5, CoveredRange, PagesPositive, SMT DEF Page
<1> QED
  BY <1>4, <1>5, <1>6, <1>7

\* Writing an entry puts the page reached in place, and moves to the next.
LEMMA SetPteServing ==
  ASSUME IInv, IInv', Serving, SetPte
  PROVE  Serving'
<1> SUFFICES ASSUME Covered(req) PROVE Serving'
  BY DEF Serving, SetPte, MoreEntries, NextFrame, Covered
<1>1. /\ pc = "pte" /\ pc' = "pte" /\ req' = req /\ p' = (p + 1) % NPAGES
      /\ gi' = gi /\ glast' = glast /\ ti' = ti + 1 /\ tlast' = tlast /\ ti <= tlast
  BY DEF SetPte, MoreEntries, NextFrame
<1>2. req \in Calls /\ req.pgd \in Pgd /\ ti \in Int /\ tlast \in Int
  <2>1. ti \in Index /\ tlast \in Index
    BY SetPteMemory DEF IInv, TypeOK
  <2> QED
    BY <2>1, SetPteMemory, EAssumption, SMT DEF Index
<1>3. /\ Reached = gi * E + ti /\ Reached' = Reached + 1 /\ Reached \in Page
      /\ req.v <= Reached /\ Reached < req.v + req.size
      /\ p = req.p + (Reached - req.v)
  BY SetPteReached
<1>4. Reached \in Int
  BY <1>3, PagesPositive, SMT DEF Page
<1>5. p' = (req.p + (Reached' - req.v)) % NPAGES
  <2>1. p + 1 = req.p + (Reached' - req.v)
    BY <1>2, <1>3, <1>4, CoveredRange, SMT
  <2> QED
    BY <2>1, <1>1
<1>6. ASSUME NEW w \in req.v .. Reached' - 1
      PROVE  Pte(mem', req.pgd, w) = pg_set_entry(req.flags, req.p + (w - req.v))
  <2>1. w \in Page /\ (w = Reached \/ w \in req.v .. Reached - 1)
    BY <1>2, <1>3, <1>4, <1>6, CoveredRange, PagesPositive, SMT DEF Page
  <2>2. CASE w = Reached
    BY <2>1, <2>2, <1>2, <1>3, SetPteTranslates
  <2>3. CASE w # Reached
    BY <2>1, <2>3, <1>1, <1>2, <1>3, SetPteTranslates DEF Serving
  <2> QED
    BY <2>2, <2>3
<1>7. Reached' \in req.v .. req.v + req.size /\ ti' <= tlast' + 1
  BY <1>1, <1>2, <1>3, <1>4, CoveredRange, SMT
<1> QED
  BY <1>1, <1>5, <1>6, <1>7 DEF Serving

\* The end of a table is the end of the range or the start of the next table.
LEMMA NextTableServing ==
  ASSUME IInv, IInv', Serving, NextTable
  PROVE  Serving'
<1> SUFFICES ASSUME Covered(req) PROVE Serving'
  BY DEF Serving, NextTable, MoreEntries, NextDirectory, Covered
<1>1. /\ pc = "pte" /\ pc' = "pgd" /\ req' = req /\ p' = p /\ mem' = mem
      /\ gi' = gi + 1 /\ glast' = glast /\ v' = ((gi + 1) * E) % NPAGES
      /\ ~(ti <= tlast)
  BY DEF NextTable, MoreEntries, NextDirectory
<1>2. /\ gi \in Int /\ ti \in Int /\ tlast \in Int /\ gi * E \in Int
      /\ glast \in Int /\ pgd_start_idx \in Int
      /\ gi <= glast /\ gi >= pgd_start_idx
  <2>1. gi <= glast /\ tlast \in Index /\ gi \in Index /\ ti \in 0 .. E
    BY <1>1 DEF IInv, TypeOK, InRange
  <2>2. pgd_start_idx \in Index /\ glast \in Index /\ gi >= pgd_start_idx
    BY <1>1, CoveredDirectory
  <2> QED
    BY <2>1, <2>2, EAssumption, SMT DEF Index
<1>3. ti = tlast + 1
  BY <1>1, <1>2, SMT DEF Serving
<1>4. Reached = IF gi = glast THEN req.v + req.size ELSE (gi + 1) * E
  <2>1. Reached = gi * E + ti /\ gi * E + ti = gi * E + tlast + 1
    BY <1>1, <1>2, <1>3, SMT DEF Reached
  <2> QED
    BY <2>1, <1>1 DEF Serving
<1>5. gi + 1 # pgd_start_idx /\ (gi = glast <=> gi + 1 > glast)
  BY <1>2, SMT
<1>6. Reached' = Reached
  BY <1>1, <1>4, <1>5 DEF Reached, pgd_start_idx
<1> QED
  BY <1>1, <1>5, <1>6 DEF Serving, pgd_start_idx

\* At the end of the outer loop every page of the range is reached.
LEMMA ReturnReached ==
  ASSUME IInv, Serving, Return, Covered(req)
  PROVE  Reached = req.v + req.size
<1>1. pc = "pgd" /\ gi > glast
  BY DEF Return
<1>2. CASE gi = pgd_start_idx
  <2>1. Reached = req.v /\ req.size = 0
    BY <1>1, <1>2, CoveredDirectory DEF Reached
  <2> QED
    BY <2>1, <1>1, CoveredDirectory, CoveredRange, SMT
<1>3. CASE gi # pgd_start_idx
  BY <1>1, <1>3 DEF Reached
<1> QED
  BY <1>2, <1>3

LEMMA ReturnServed ==
  ASSUME IInv, Serving, Return
  PROVE  Serving' /\ RequestServed'
<1>1. pc = "pgd" /\ pc' = "idle" /\ req' = req /\ mem' = mem
  BY DEF Return
<1> SUFFICES ASSUME Covered(req),
                    NEW w \in req.v .. req.v + req.size - 1
             PROVE  Pte(mem, req.pgd, w)
                      = pg_set_entry(req.flags, req.p + (w - req.v))
  BY <1>1 DEF Serving, RequestServed, Covered
<1>2. w \in req.v .. Reached - 1
  BY <1>1, CoveredDirectory, CoveredRange, ReturnReached, SMT
<1>3. \A x \in req.v .. Reached - 1 :
          Pte(mem, req.pgd, x) = pg_set_entry(req.flags, req.p + (x - req.v))
  BY <1>1 DEF Serving
<1> QED
  BY <1>2, <1>3

LEMMA InitServed == Init => ServedInv
  BY InitInv DEF Init, ServedInv, Serving, RequestServed

LEMMA StepServed == ServedInv /\ [Next]_vars => ServedInv'
<1> SUFFICES ASSUME ServedInv, [Next]_vars PROVE ServedInv'
  OBVIOUS
<1>1. IInv /\ IInv' /\ Serving /\ RequestServed
  BY StepInv DEF ServedInv
<1>2. CASE UNCHANGED vars
  BY <1>1, <1>2 DEF vars, locals, ServedInv, Serving, RequestServed, Reached, Covered,
                   pgd_start_idx
<1>3. ASSUME NEW c \in Calls, Reject(c) PROVE ServedInv'
  BY <1>1, <1>3 DEF Reject, ServedInv, Serving, RequestServed, Covered
<1>4. ASSUME NEW c \in Calls, Accept(c) PROVE ServedInv'
  BY <1>1, <1>4, AcceptServing DEF ServedInv
<1>5. CASE AllocTable
  BY <1>1, <1>5, DirectoryServing DEF AllocTable, pte_base, Directory, ServedInv, RequestServed
<1>6. CASE ReuseTable
  BY <1>1, <1>6, DirectoryServing DEF ReuseTable, Directory, ServedInv, RequestServed
<1>7. CASE SetPte
  BY <1>1, <1>7, SetPteServing DEF SetPte, MoreEntries, NextFrame, ServedInv, RequestServed
<1>8. CASE NextTable
  BY <1>1, <1>8, NextTableServing DEF NextTable, MoreEntries, NextDirectory, ServedInv, RequestServed
<1>9. CASE Return
  BY <1>1, <1>9, ReturnServed DEF ServedInv
<1> QED
  BY <1>2, <1>3, <1>4, <1>5, <1>6, <1>7, <1>8, <1>9 DEF Next, Step

\* A Covered call leaves each page of its range translated to the frame and
\* with the attributes asked for, when it returns and until the next call.
THEOREM RequestsServed == Spec => []RequestServed
<1>1. ServedInv => RequestServed
  BY DEF ServedInv
<1> QED
  BY <1>1, InitServed, StepServed, PTL DEF Spec

-----------------------------------------------------------------------------
(* Over tables that are zero: the refinement of AddressSpace *)

\* What the callers of init_paging grant: their calls are Covered
CoveredOnly == \A c \in Calls : c.aligned => Covered(c)

\* RAM that is zero where the tables will be
ZeroedTables ==
    \A m \in Images : \A d \in Pgd, i, j \in Index :
        Base[d] + i \in Frame => m[Base[d] + i][j] = Zero

\* A table that no directory entry points to yet is still zero
UnusedZero ==
    \A d \in Pgd, i, j \in Index :
        mem[d][i] = Zero /\ Base[d] + i \in Frame => mem[Base[d] + i][j] = Zero

CleanInv == ServedInv /\ UnusedZero

-----------------------------------------------------------------------------
(* What each step does to the translations *)

\* A table allocated over zeroes translates no page, as its absence did.
LEMMA AllocTranslates ==
  ASSUME IInv, IInv', UnusedZero, AllocTable, NEW d \in Pgd, NEW w \in Page
  PROVE  Pte(mem', d, w) = Pte(mem, d, w)
<1> DEFINE pde == pg_set_entry(req.flags, req.ptb + gi)
           i == pd32_get_idx(w)
           j == pt32_get_idx(w)
<1>1. /\ req \in Calls /\ req.pgd \in Pgd /\ req.pgd \in Frame /\ gi \in Index
      /\ mem[req.pgd][gi] = Zero /\ mem' = [mem EXCEPT ![req.pgd][gi] = pde]
      /\ gi' = gi /\ req' = req /\ pt' = pde.pfn /\ pc' = "pte"
  <2>1. req \in Calls /\ gi \in Index
    BY EAssumption, SMT DEF IInv, TypeOK, AllocTable, Index
  <2> QED
    BY <2>1, CallFields DEF AllocTable, Directory, pte_base
<1>2. i \in Index /\ j \in Index /\ d \in Frame
  BY Indexes, PgdAssumption
<1>3. mem \in Memory /\ mem' \in Memory
  BY DEF IInv, TypeOK
<1>4. CASE d = req.pgd /\ i = gi
  <2>1. Pte(mem, d, w) = Zero
    BY <1>1, <1>4, PteNone
  <2>2. pt' = Base[d] + gi /\ pt' \in Frame /\ mem'[d][i] = pde /\ pde.pfn = pt'
    BY <1>1, <1>2, <1>3, <1>4 DEF IInv, InRange, TypeOK, Memory
  <2>3. mem'[pt'] = mem[pt'] /\ mem[pt'][j] = Zero
    BY <1>1, <1>2, <1>3, <1>4, <2>2, PgdAssumption DEF UnusedZero, Memory
  <2>4. pde.p
    BY DEF pg_set_entry
  <2> QED
    BY <2>1, <2>2, <2>3, <2>4 DEF Pte
<1>5. CASE ~(d = req.pgd /\ i = gi)
  <2>1. mem'[d][i] = mem[d][i]
    BY <1>1, <1>2, <1>3, <1>5 DEF Memory
  <2>2. CASE mem[d][i] = Zero
    BY <2>1, <2>2, PteNone
  <2>3. CASE mem[d][i] # Zero
    <3>1. /\ mem[d][i].pfn \in Frame /\ mem[d][i].pfn = Base[d] + i
          /\ mem[d][i].pfn # req.pgd
      BY <1>1, <1>2, <2>3, PteOf, PgdAssumption
    <3>2. mem'[mem[d][i].pfn] = mem[mem[d][i].pfn]
      BY <1>1, <1>3, <3>1 DEF Memory
    <3> QED
      BY <2>1, <3>1, <3>2 DEF Pte
  <2> QED
    BY <2>2, <2>3
<1> QED
  BY <1>4, <1>5

\* Entering a table that is there writes its entry back.
LEMMA ReuseKeeps ==
  ASSUME IInv, ReuseTable
  PROVE  mem' = mem
<1>1. req \in Calls /\ gi \in Index
  BY EAssumption, SMT DEF IInv, TypeOK, ReuseTable, Index
<1>2. req.pgd \in Frame /\ mem \in Memory
  BY <1>1, CallFields DEF IInv, TypeOK
<1> QED
  BY <1>1, <1>2 DEF ReuseTable, Directory, Memory

-----------------------------------------------------------------------------
(* The invariant *)

LEMMA InitClean == ASSUME ZeroedTables PROVE Init => CleanInv
  BY InitServed DEF Init, ZeroedTables, CleanInv, UnusedZero

LEMMA StepUnused ==
  ASSUME IInv, UnusedZero, [Next]_vars
  PROVE  UnusedZero'
<1>1. CASE mem' = mem
  BY <1>1 DEF UnusedZero
<1>2. CASE AllocTable
  <2>1. /\ req \in Calls /\ gi \in Index
        /\ mem' = [mem EXCEPT ![req.pgd][gi] = pg_set_entry(req.flags, req.ptb + gi)]
    BY <1>2, EAssumption, SMT DEF IInv, TypeOK, AllocTable, Directory, pte_base, Index
  <2>2. /\ req.pgd \in Pgd /\ req.pgd \in Frame /\ mem \in Memory
        /\ pg_set_entry(req.flags, req.ptb + gi) # Zero
    <3>1. pg_set_entry(req.flags, req.ptb + gi).p # Zero.p
      BY DEF pg_set_entry, Zero
    <3> QED
      BY <2>1, <3>1, CallFields DEF IInv, TypeOK
  <2> SUFFICES ASSUME NEW d \in Pgd, NEW i \in Index, NEW j \in Index,
                      mem'[d][i] = Zero, Base[d] + i \in Frame
               PROVE  mem'[Base[d] + i][j] = Zero
    BY DEF UnusedZero
  <2>3. mem[d][i] = Zero
    BY <2>1, <2>2, PgdAssumption DEF Memory
  <2>4. mem'[Base[d] + i] = mem[Base[d] + i]
    BY <2>1, <2>2, PgdAssumption DEF Memory
  <2> QED
    BY <2>3, <2>4 DEF UnusedZero
<1>3. CASE SetPte
  <2>1. /\ req.pgd \in Pgd /\ pt \in Frame /\ ti \in Index /\ gi \in Index
        /\ pt = Base[req.pgd] + gi
        /\ mem' = [mem EXCEPT ![pt][ti] = pg_set_entry(req.flags, p)]
        /\ \A d \in Pgd : mem'[d] = mem[d]
        /\ mem \in Memory /\ mem[req.pgd][gi] # Zero
    BY <1>3, SetPteMemory DEF SetPte, IInv, InRange, TypeOK
  <2> SUFFICES ASSUME NEW d \in Pgd, NEW i \in Index, NEW j \in Index,
                      mem'[d][i] = Zero, Base[d] + i \in Frame
               PROVE  mem'[Base[d] + i][j] = Zero
    BY DEF UnusedZero
  <2>2. mem[d][i] = Zero
    BY <2>1
  <2>3. Base[d] + i # pt
    <3>1. Base[d] + i = pt => d = req.pgd /\ i = gi
      BY <2>1, EAssumption, PgdAssumption, SMT DEF Index, Page
    <3> QED
      BY <2>1, <2>2, <3>1
  <2>4. mem'[Base[d] + i] = mem[Base[d] + i]
    BY <2>1, <2>3 DEF Memory
  <2> QED
    BY <2>2, <2>4 DEF UnusedZero
<1>4. mem' = mem \/ AllocTable \/ SetPte
  <2>1. CASE ReuseTable
    BY <2>1, ReuseKeeps
  <2>2. CASE [Next]_vars /\ ~ReuseTable /\ ~AllocTable /\ ~SetPte
    BY <2>2 DEF Next, Step, Reject, Accept, NextTable, Return, vars
  <2> QED
    BY <2>1, <2>2
<1> QED
  BY <1>1, <1>2, <1>3, <1>4

LEMMA StepClean == CleanInv /\ [Next]_vars => CleanInv'
  BY StepServed, StepUnused DEF CleanInv, ServedInv

-----------------------------------------------------------------------------
(* What a step may change *)

\* The translations a step changes are that of the page it writes.
LEMMA StepTranslates ==
  ASSUME CleanInv, [Next]_vars, ~SetPte, NEW d \in Pgd, NEW w \in Page
  PROVE  Pte(mem', d, w) = Pte(mem, d, w)
<1>1. IInv /\ IInv' /\ UnusedZero
  BY StepServed DEF CleanInv, ServedInv
<1>2. CASE AllocTable
  BY <1>1, <1>2, AllocTranslates
<1>3. CASE ReuseTable
  BY <1>1, <1>3, ReuseKeeps
<1>4. CASE ~AllocTable /\ ~ReuseTable
  <2>1. mem' = mem
    BY <1>4 DEF Next, Step, Reject, Accept, NextTable, Return, vars
  <2> QED
    BY <2>1
<1> QED
  BY <1>2, <1>3, <1>4

\* A call under way is Covered: it was accepted.
LEMMA CallCovered ==
  ASSUME CoveredOnly, IInv, pc # "idle"
  PROVE  req \in Calls /\ Covered(req)
  BY DEF CoveredOnly, IInv, TypeOK, InRange

\* Over zeroed tables, calls whose range map_addresses covers change the
\* translations of their own pages and no other, in any directory, at any step.
THEOREM OthersKept ==
  ASSUME CoveredOnly, ZeroedTables
  PROVE  Spec => OthersUntouched
<1> DEFINE Kept == \A d \in Pgd, w \in Page :
                       Pte(mem', d, w) # Pte(mem, d, w) =>
                           /\ d = req.pgd
                           /\ w \in req.v .. req.v + req.size - 1
<1>1. ASSUME CleanInv, [Next]_vars PROVE Kept
  <2> SUFFICES ASSUME NEW d \in Pgd, NEW w \in Page, Pte(mem', d, w) # Pte(mem, d, w)
               PROVE  d = req.pgd /\ w \in req.v .. req.v + req.size - 1
    OBVIOUS
  <2>1. SetPte /\ IInv /\ Serving
    BY <1>1, StepTranslates DEF CleanInv, ServedInv
  <2>2. req \in Calls /\ Covered(req)
    BY <2>1, CallCovered DEF SetPte
  <2>3. d = req.pgd /\ w = Reached
    BY <2>1, <2>2, SetPteTranslates, SetPteReached
  <2>4. Reached \in Page /\ req.v <= Reached /\ Reached < req.v + req.size
    BY <2>1, <2>2, SetPteReached
  <2> QED
    BY <2>2, <2>3, <2>4, CoveredRange, PagesPositive, SMT DEF Page
<1>2. Init => CleanInv
  BY InitClean
<1>3. CleanInv /\ [Next]_vars => Kept
  BY <1>1
<1> QED
  BY <1>2, <1>3, StepClean, PTL DEF Spec, OthersUntouched

-----------------------------------------------------------------------------
(* The refinement *)

\* p_start tells how many pages of a range are passed, though it may wrap at the
\* end of memory.
LEMMA Passed ==
  ASSUME NEW c \in Calls, Covered(c), NEW n \in 0 .. c.size
  PROVE  (((c.p + n) % NPAGES) - c.p) % NPAGES = n
<1>1. /\ c.p \in Int /\ c.size \in Int /\ n \in Int /\ NPAGES \in Int
      /\ 0 <= n /\ n <= c.size /\ 0 <= c.p
      /\ c.size < NPAGES /\ c.p + c.size <= NPAGES
  BY CallFields, CoveredRange, PagesPositive, SMT DEF Page
<1>2. CASE c.p + n < NPAGES
  <2>1. c.p + n \in Page /\ n \in Page /\ c.p + n \in Int
    BY <1>1, <1>2, SMT DEF Page
  <2>2. (c.p + n) % NPAGES = c.p + n
    BY <2>1, Wrap
  <2>3. (c.p + n) - c.p = n
    BY <1>1, SMT
  <2> QED
    BY <1>1, <2>1, <2>2, <2>3, Wrap
<1>3. CASE ~(c.p + n < NPAGES)
  <2>1. c.p + n = NPAGES
    BY <1>1, <1>3, SMT
  <2>2. (c.p + n) % NPAGES = 0
    BY <2>1, <1>1, PagesPositive, SMT
  <2>3. 0 - c.p = n + NPAGES * (-1)
    BY <2>1, <1>1, SMT
  <2>4. n \in 0 .. NPAGES - 1
    BY <1>1, SMT
  <2>5. (n + NPAGES * (-1)) % NPAGES = n
    BY <2>4, <1>1, PagesPositive, SMT
  <2> QED
    BY <2>2, <2>3, <2>5
<1> QED
  BY <1>2, <1>3

\* What a call still owes when it has reached a page of its range.
LEMMA TodoReached ==
  ASSUME IInv, Serving, pc # "idle", Covered(req)
  PROVE  todo = {Owed(req, k) : k \in Reached - req.v .. req.size - 1}
<1>1. req \in Calls
  BY CoveredDirectory
<1>2. /\ Reached - req.v \in 0 .. req.size
      /\ p = (req.p + (Reached - req.v)) % NPAGES
  BY <1>1, CoveredRange, SMT DEF Serving
<1>3. (p - req.p) % NPAGES = Reached - req.v
  BY <1>1, <1>2, Passed
<1> QED
  BY <1>3 DEF todo

\* The pages before the one reached are not owed twice.
LEMMA OwedOnce ==
  ASSUME NEW c \in Calls, NEW k \in Int, NEW l \in Int, Owed(c, k) = Owed(c, l)
  PROVE  k = l
<1>1. c.v + k = c.v + l
  BY DEF Owed
<1> QED
  BY <1>1, CallFields, PagesPositive, SMT DEF Page

\* Pages that no table translates are Unmapped, and nothing is owed.
LEMMA InitImplements == Init => Abstract!Init
<1> SUFFICES ASSUME Init PROVE Abstract!Init
  OBVIOUS
<1>1. todo = {}
  BY DEF Init, todo
<1>2. ASSUME NEW d \in Pgd, NEW w \in Page PROVE Pte(mem, d, w) = Zero
  <2>1. mem[d][pd32_get_idx(w)] = Zero
    BY Indexes, ImagesAssumption DEF Init
  <2> QED
    BY <2>1, PteNone
<1> QED
  BY <1>1, <1>2 DEF Abstract!Init, translation

\* A turn of the inner loop installs the first page owed.
LEMMA SetPteInstalls ==
  ASSUME IInv, IInv', Serving, Serving', Covered(req), SetPte
  PROVE  Abstract!Install
<1> DEFINE n == Reached - req.v
           t == Owed(req, n)
<1>1. /\ pc # "idle" /\ pc' # "idle" /\ req' = req /\ req \in Calls /\ req.pgd \in Pgd
  BY SetPteMemory DEF SetPte
<1>2. /\ Reached = gi * E + ti /\ Reached' = Reached + 1
      /\ Reached \in Page /\ req.v <= Reached /\ Reached < req.v + req.size
      /\ p = req.p + n
  BY SetPteReached
<1>3. /\ req.v \in Int /\ req.size \in Int /\ Reached \in Int /\ n \in Int
      /\ n \in 0 .. req.size - 1 /\ req.v + n = Reached
      /\ Reached' - req.v = n + 1
  BY <1>1, <1>2, CoveredRange, PagesPositive, SMT DEF Page
<1>4. todo = {Owed(req, k) : k \in n .. req.size - 1}
  BY <1>1, TodoReached
<1>5. todo' = {Owed(req, k) : k \in n + 1 .. req.size - 1}
  <2>1. p' = (req.p + (n + 1)) % NPAGES
    BY <1>1, <1>3 DEF Serving, Covered
  <2>2. n + 1 \in 0 .. req.size
    BY <1>3, SMT
  <2>3. (p' - req.p) % NPAGES = n + 1
    BY <2>1, <2>2, <1>1, Passed
  <2> QED
    BY <1>1, <2>3 DEF todo, Owed
<1> HIDE DEF n
<1>6. t \in todo
  <2>1. n \in n .. req.size - 1
    BY <1>3, SMT
  <2> QED
    BY <2>1, <1>4
<1>7. todo' = todo \ {t}
  <2>1. ASSUME NEW k \in n .. req.size - 1
        PROVE  k \in n + 1 .. req.size - 1 <=> Owed(req, k) # t
    <3>1. k \in Int /\ (k \in n + 1 .. req.size - 1 <=> k # n)
      BY <1>3, SMT
    <3>2. k # n => Owed(req, k) # t
      BY <3>1, <1>1, <1>3, OwedOnce
    <3> QED
      BY <3>1, <3>2
  <2>2. \A k \in n + 1 .. req.size - 1 : k \in n .. req.size - 1
    BY <1>3, SMT
  <2> HIDE DEF t
  <2> QED
    BY <1>4, <1>5, <2>1, <2>2
<1>8. translation' = [translation EXCEPT ![t.space][t.page] = t.to]
  <2>1. t.space = req.pgd /\ t.page = Reached /\ t.to = pg_set_entry(req.flags, p)
    BY <1>2, <1>3 DEF Owed
  <2>2. \A d \in Pgd, w \in Page :
            Pte(mem', d, w) = IF d = req.pgd /\ w = Reached
                              THEN pg_set_entry(req.flags, p) ELSE Pte(mem, d, w)
    BY <1>2, SetPteTranslates
  <2> DEFINE e == pg_set_entry(req.flags, p)
             g == [translation EXCEPT ![req.pgd][Reached] = e]
  <2> HIDE DEF e
  <2>3. /\ g \in [Pgd -> [Page -> {g[d][w] : d \in Pgd, w \in Page}]]
        /\ \A d \in Pgd, w \in Page :
               g[d][w] = IF d = req.pgd /\ w = Reached THEN e ELSE Pte(mem, d, w)
    BY <1>1, <1>2 DEF translation
  <2>4. \A d \in Pgd, w \in Page : g[d][w] = Pte(mem', d, w)
    BY <2>2, <2>3 DEF e
  <2> HIDE DEF g
  <2>5. g = [d \in Pgd |-> [w \in Page |-> Pte(mem', d, w)]]
    BY <2>3, <2>4
  <2> QED
    BY <2>1, <2>5 DEF translation, e, g
<1> QED
  BY <1>6, <1>7, <1>8 DEF Abstract!Install

\* Every other step of a call is not seen: what is owed and the pages reached
\* stay.
LEMMA OthersStutter ==
  ASSUME CoveredOnly, CleanInv, CleanInv', [Next]_vars, ~SetPte,
         ~\E c \in Calls : Accept(c)
  PROVE  UNCHANGED <<translation, todo>>
<1>1. translation' = translation
  <2>1. \A d \in Pgd, w \in Page : Pte(mem', d, w) = Pte(mem, d, w)
    BY StepTranslates
  <2> QED
    BY <2>1 DEF translation
<1>2. CASE Return
  <2>1. pc # "idle" /\ pc' = "idle" /\ IInv /\ Serving
    BY <1>2 DEF Return, CleanInv, ServedInv
  <2>2. req \in Calls /\ Covered(req)
    BY <2>1, CallCovered
  <2>3. Reached = req.v + req.size
    BY <1>2, <2>1, <2>2, ReturnReached
  <2>4. Reached - req.v .. req.size - 1 = {}
    BY <2>2, <2>3, CoveredRange, SMT
  <2>5. todo = {}
    BY <2>1, <2>2, <2>4, TodoReached
  <2>6. todo' = {}
    BY <2>1 DEF todo
  <2> QED
    BY <1>1, <2>5, <2>6
<1>3. CASE ~Return
  <2>1. \/ pc = "idle" /\ pc' = "idle"
        \/ pc # "idle" /\ pc' # "idle" /\ req' = req /\ p' = p
    BY <1>3 DEF Next, Step, Reject, AllocTable, ReuseTable, Directory, NextTable, vars, locals
  <2>2. todo' = todo
    BY <2>1 DEF todo, Owed
  <2> QED
    BY <1>1, <2>2
<1> QED
  BY <1>2, <1>3

\* A call that is accepted owes its whole range.
LEMMA AcceptRequests ==
  ASSUME CoveredOnly, CleanInv, NEW c \in Calls, Accept(c)
  PROVE  Abstract!Request
<1>1. /\ pc = "idle" /\ pc' # "idle" /\ req' = c /\ p' = c.p /\ mem' = mem
  BY DEF Accept
<1>2. todo = {}
  BY <1>1 DEF todo
<1>3. (p' - c.p) % NPAGES = 0
  <2>1. c.p - c.p = 0 /\ 0 \in Page /\ 0 \in Int
    BY CallFields, PagesPositive, SMT DEF Page
  <2> QED
    BY <2>1, <1>1, Wrap
<1>4. todo' = Request(c)
  BY <1>1, <1>3 DEF todo, Request, Owed
<1>5. translation' = translation
  BY <1>1 DEF translation
<1> QED
  BY <1>2, <1>4, <1>5 DEF Abstract!Request

\* map_addresses does nothing the abstract address spaces do not allow: over
\* zeroed tables a Covered call installs the pages it owes, each once, and the
\* next begins when none is owed.  (That it goes on until none is owed is
\* liveness, and the fair part of ImplementsAddressSpace.)
THEOREM CallsImplement ==
  ASSUME CoveredOnly, ZeroedTables
  PROVE  Spec => Abstract!Spec
<1>1. ASSUME CleanInv, CleanInv', [Next]_vars
      PROVE  [Abstract!Next]_<<translation, todo>>
  <2>1. IInv /\ IInv' /\ Serving /\ Serving'
    BY <1>1 DEF CleanInv, ServedInv
  <2>2. CASE SetPte
    <3>1. Covered(req)
      BY <2>1, <2>2, CallCovered DEF SetPte
    <3> QED
      BY <2>1, <2>2, <3>1, SetPteInstalls DEF Abstract!Next
  <2>3. ASSUME NEW c \in Calls, Accept(c) PROVE Abstract!Next
    BY <1>1, <2>3, AcceptRequests DEF Abstract!Next
  <2>4. CASE ~SetPte /\ ~\E c \in Calls : Accept(c)
    BY <1>1, <2>4, OthersStutter
  <2> QED
    BY <2>2, <2>3, <2>4
<1>2. Init => CleanInv /\ Abstract!Init
  BY InitClean, InitImplements
<1>3. CleanInv /\ CleanInv' /\ [Next]_vars => [Abstract!Next]_<<translation, todo>>
  BY <1>1
<1> QED
  BY <1>2, <1>3, StepClean, PTL DEF Spec, Abstract!Spec
=============================================================================
