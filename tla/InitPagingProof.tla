-------------------------- MODULE InitPagingProof --------------------------
(***************************************************************************)
(* What is proved of init_paging, for every scale of its layout that is a  *)
(* layout, the 1024 entries of the real tables among them, and every       *)
(* content of RAM at boot: the kernel goes on running once paging is on,   *)
(* and every page has the rights its call gave.  When the tables were      *)
(* zero, the tasks are isolated but for the one page they share.  The      *)
(* theorems about map_addresses are used here as they are, on the calls    *)
(* that init_paging makes.                                                 *)
(***************************************************************************)
EXTENDS InitPaging, Integers, FiniteSetTheorems, TLAPS

\* The memories that init_paging hands to map_addresses
Cleared == {m \in M!Memory : \A d \in Directories, i \in Entries : m[d][i] = M!Zero}

\* The eight calls, as the set that map_addresses is instantiated with
ScriptCalls == {Script[i] : i \in 1 .. Len(Script)}

\* The theorems of map_addresses, for these calls
P == INSTANCE MapAddressesProof WITH
        E <- E, Frame <- Directories \cup Tables, Pgd <- Directories,
        Base <- PT_BASE, Calls <- ScriptCalls, Images <- Cleared

-----------------------------------------------------------------------------
(* The scale of the layout *)

\* A table covers four megabytes, of at least two pages.
LEMMA Scale == MB \in Nat /\ MB >= 2 /\ E = 4 * MB /\ E \in Nat
  BY SizeAssumption, SMT DEF MB

\* The layout lies in the address space, with the kernel stacks' page above the rest.
LEMMA Room ==
  /\ 32 * MB <= E * E
  /\ VIRTUAL_KERNEL_STACK \in Nat
  /\ 24 * MB <= VIRTUAL_KERNEL_STACK
  /\ VIRTUAL_KERNEL_STACK < E * E
<1> DEFINE k == MB * E
<1>1. k \in Nat /\ k >= 8 * MB
  BY Scale, SMT
<1>2. E * E = 4 * k /\ VIRTUAL_KERNEL_STACK = 3 * k
  BY Scale, SMT DEF VIRTUAL_KERNEL_STACK
<1>3. k > 0
  BY <1>1, Scale, SMT
<1> HIDE DEF k
<1> QED
  BY <1>1, <1>2, <1>3, Scale, SMT

\* The directories, and the tables' places
LEMMA Places ==
  /\ DOMAIN PT_BASE = Directories
  /\ \A d \in Directories : d \in Nat /\ PT_BASE[d] = d + 1
  /\ PGD_ADDR_KERNEL = 16 * MB /\ PGD_ADDR_PROCESS1 = 21 * MB /\ PGD_ADDR_PROCESS2 = 26 * MB
  /\ Tasks \subseteq Directories /\ PGD_ADDR_KERNEL \in Directories \ Tasks
  BY Scale, SMT DEF PT_BASE, Directories, Tasks, PGD_ADDR_KERNEL, PGD_ADDR_PROCESS1, PGD_ADDR_PROCESS2

\* Directories and tables lie between 16 and 32 MB.
LEMMA Paging ==
  \A f \in Directories \cup Tables : f \in Nat /\ 16 * MB <= f /\ f < 32 * MB
<1> SUFFICES ASSUME NEW f \in Directories \cup Tables
             PROVE  f \in Nat /\ 16 * MB <= f /\ f < 32 * MB
  OBVIOUS
<1>1. CASE f \in Directories
  BY <1>1, Scale, Places, SMT DEF Directories
<1>2. CASE f \in {PT_BASE[PGD_ADDR_KERNEL] + i : i \in {0} \cup 4 .. 7}
  BY <1>2, Scale, Places, SMT
<1>3. CASE f \in {PT_BASE[d] + i : d \in {PGD_ADDR_PROCESS1, PGD_ADDR_PROCESS2}, i \in {1, 3 * MB}}
  BY <1>3, Scale, Places, SMT DEF Tasks
<1> QED
  BY <1>1, <1>2, <1>3 DEF Tables

\* A page is an entry of a table: the quotient and the remainder by E.
LEMMA Quotient ==
  ASSUME NEW i \in Nat, NEW j \in 0 .. E - 1
  PROVE  (i * E + j) \div E = i /\ (i * E + j) % E = j
  BY Scale, SMT

-----------------------------------------------------------------------------
(* The eight calls *)

\* The script is these eight calls, in this order.
LEMMA Eight ==
  /\ Len(Script) = 8
  /\ Script[1] = MapKernel  /\ Script[2] = MapTables
  /\ Script[3] = MapTask1   /\ Script[4] = MapTask2
  /\ Script[5] = MapShared1 /\ Script[6] = MapShared2
  /\ Script[7] = MapStack1  /\ Script[8] = MapStack2
  BY DEF Script

\* The call that a call is
LEMMA WhichCall ==
  ASSUME NEW i \in 1 .. 8
  PROVE  \/ (i = 1 /\ Script[i] = MapKernel)  \/ (i = 2 /\ Script[i] = MapTables)
         \/ (i = 3 /\ Script[i] = MapTask1)   \/ (i = 4 /\ Script[i] = MapTask2)
         \/ (i = 5 /\ Script[i] = MapShared1) \/ (i = 6 /\ Script[i] = MapShared2)
         \/ (i = 7 /\ Script[i] = MapStack1)  \/ (i = 8 /\ Script[i] = MapStack2)
<1>1. i = 1 \/ i = 2 \/ i = 3 \/ i = 4 \/ i = 5 \/ i = 6 \/ i = 7 \/ i = 8
  BY SMT
<1> QED
  BY <1>1, Eight, Zenon

\* What each of them asks for: the call for the kernel's 4 MB,
LEMMA KernelCall ==
  LET c == MapKernel
  IN  c.pgd = PGD_ADDR_KERNEL /\ c.v = 0 /\ c.p = 0 /\ c.size = 4 * MB /\ c.flags = KRN_RW
  BY DEF MapKernel, Map
\* the call for the 16 MB of the directories and tables
LEMMA TablesCall ==
  LET c == MapTables
  IN  c.pgd = PGD_ADDR_KERNEL /\ c.v = 16 * MB /\ c.p = 16 * MB /\ c.size = 16 * MB
      /\ c.flags = KRN_RW
  BY DEF MapTables, Map
\* those for the megabyte of each task
LEMMA TaskCalls ==
  /\ LET c == MapTask1
     IN  c.pgd = PGD_ADDR_PROCESS1 /\ c.v = 4 * MB /\ c.p = 4 * MB /\ c.size = MB
         /\ c.flags = USR_RW
  /\ LET c == MapTask2
     IN  c.pgd = PGD_ADDR_PROCESS2 /\ c.v = 5 * MB /\ c.p = 5 * MB /\ c.size = MB
         /\ c.flags = USR_RW
  BY DEF MapTask1, MapTask2, Map
\* those for the shared page
LEMMA SharedCalls ==
  /\ LET c == MapShared1
     IN  c.pgd = PGD_ADDR_PROCESS1 /\ c.v = 6 * MB /\ c.p = 6 * MB /\ c.size = 1
         /\ c.flags = USR_RW
  /\ LET c == MapShared2
     IN  c.pgd = PGD_ADDR_PROCESS2 /\ c.v = 7 * MB /\ c.p = 6 * MB /\ c.size = 1
         /\ c.flags = USR_RO
  BY DEF MapShared1, MapShared2, Map
\* those for the tasks' kernel stacks
LEMMA StackCalls ==
  /\ LET c == MapStack1
     IN  c.pgd = PGD_ADDR_PROCESS1 /\ c.v = VIRTUAL_KERNEL_STACK /\ c.p = 2 * MB
         /\ c.size = 1 /\ c.flags = KRN_RW
  /\ LET c == MapStack2
     IN  c.pgd = PGD_ADDR_PROCESS2 /\ c.v = VIRTUAL_KERNEL_STACK /\ c.p = 2 * MB + 1
         /\ c.size = 1 /\ c.flags = KRN_RW
  BY DEF MapStack1, MapStack2, Map

\* The directory entries that each call needs
Slots(i) ==
    IF i = 1 THEN {0} ELSE IF i = 2 THEN 4 .. 7 ELSE IF i \in 3 .. 6 THEN {1} ELSE {3 * MB}

\* Every call asks for pages of the address space, with attributes.
LEMMA CallsFit ==
  ASSUME NEW i \in 1 .. 8
  PROVE  LET c == Script[i]
         IN  /\ c.pgd \in Directories /\ c.ptb = PT_BASE[c.pgd] /\ c.aligned = TRUE
             /\ c.v \in Nat /\ c.p \in Nat /\ c.size \in Nat /\ c.size >= 1
             /\ c.v + c.size <= E * E /\ c.p + c.size <= E * E
             /\ c.size < E * E
             /\ c.flags \in [rw : BOOLEAN, usr : BOOLEAN]
             /\ c = [pgd |-> c.pgd, ptb |-> c.ptb, v |-> c.v, p |-> c.p, size |-> c.size,
                     flags |-> c.flags, aligned |-> c.aligned]
<1> DEFINE c == Script[i]
<1>1. /\ c.ptb = PT_BASE[c.pgd] /\ c.aligned = TRUE
      /\ c = [pgd |-> c.pgd, ptb |-> c.ptb, v |-> c.v, p |-> c.p, size |-> c.size,
              flags |-> c.flags, aligned |-> c.aligned]
  BY WhichCall DEF MapKernel, MapTables, MapTask1, MapTask2, MapShared1, MapShared2,
                   MapStack1, MapStack2, Map
<1>2. c.flags \in {KRN_RW, USR_RW, USR_RO} /\ c.pgd \in Directories
  BY WhichCall, KernelCall, TablesCall, TaskCalls, SharedCalls, StackCalls, Places DEF Tasks
<1>3. \A f \in {KRN_RW, USR_RW, USR_RO} : f \in [rw : BOOLEAN, usr : BOOLEAN]
  <2>1. \A a, b \in BOOLEAN : [rw |-> a, usr |-> b] \in [rw : BOOLEAN, usr : BOOLEAN]
    OBVIOUS
  <2> QED
    BY <2>1, Zenon DEF KRN_RW, USR_RW, USR_RO
<1>4. /\ c.v \in Nat /\ c.p \in Nat /\ c.size \in Nat /\ c.size >= 1
      /\ c.v + c.size <= E * E /\ c.p + c.size <= E * E /\ c.size < E * E
  <2> DEFINE n == E * E
  <2>1. 32 * MB <= n /\ VIRTUAL_KERNEL_STACK < n /\ VIRTUAL_KERNEL_STACK \in Nat /\ n \in Nat
    BY Room, Scale, SMT
  <2> HIDE DEF n
  <2>2. /\ c.v \in Nat /\ c.p \in Nat /\ c.size \in Nat /\ c.size >= 1
        /\ c.v + c.size <= n /\ c.p + c.size <= n /\ c.size < n
    BY <2>1, WhichCall, KernelCall, TablesCall, TaskCalls, SharedCalls, StackCalls, Scale, SMT
  <2> QED
    BY <2>2 DEF n
<1> QED
  BY <1>1, <1>2, <1>3, <1>4

\* The entry of a page of a call
LEMMA SlotOf ==
  ASSUME NEW i \in 1 .. 8, NEW w \in PagesOf(Script[i])
  PROVE  w \in Nat /\ w < E * E /\ w \div E \in Slots(i) /\ w % E \in Entries
<1> DEFINE c == Script[i]
<1>1. w \in Nat /\ c.v <= w /\ w < c.v + c.size /\ c.v \in Nat /\ c.size \in Nat
      /\ w < E * E
  BY CallsFit, Scale, SMT DEF PagesOf
<1>2. w % E \in Entries
  BY <1>1, Scale, SMT DEF Entries
<1>3. ASSUME NEW q \in Nat, q * E <= w, w < q * E + E
      PROVE  w \div E = q
  <2>1. w - q * E \in 0 .. E - 1 /\ w = q * E + (w - q * E)
    BY <1>1, <1>3, Scale, SMT
  <2> QED
    BY <2>1, Quotient
<1>4. ASSUME NEW q \in 0 .. 7, 4 * q * MB <= w, w < 4 * q * MB + 4 * MB
      PROVE  w \div E = q
  BY <1>3, <1>4, Scale, SMT
<1>5. CASE i = 1
  <2>1. w \div E = 0
    BY <1>1, <1>4, <1>5, Eight, KernelCall, Scale, SMT
  <2> QED
    BY <1>1, <1>2, <1>5, <2>1 DEF Slots
<1>6. CASE i = 2
  <2>1. 16 * MB <= w /\ w < 32 * MB
    BY <1>1, <1>6, Eight, TablesCall, Scale, SMT
  <2>2. w \div E \in 4 .. 7
    <3>1. CASE w < 20 * MB
      BY <2>1, <3>1, <1>4, <1>1, Scale, SMT
    <3>2. CASE 20 * MB <= w /\ w < 24 * MB
      BY <2>1, <3>2, <1>4, <1>1, Scale, SMT
    <3>3. CASE 24 * MB <= w /\ w < 28 * MB
      BY <2>1, <3>3, <1>4, <1>1, Scale, SMT
    <3>4. CASE 28 * MB <= w
      BY <2>1, <3>4, <1>4, <1>1, Scale, SMT
    <3> QED
      BY <3>1, <3>2, <3>3, <3>4, <1>1, Scale, SMT
  <2> QED
    BY <1>1, <1>2, <1>6, <2>2 DEF Slots
<1>7. CASE i \in 3 .. 6
  <2>1. 4 * MB <= w /\ w < 8 * MB
    BY <1>1, <1>7, WhichCall, TaskCalls, SharedCalls, Scale, SMT
  <2>2. w \div E = 1
    BY <2>1, <1>1, <1>4, Scale, SMT
  <2> QED
    BY <1>1, <1>2, <1>7, <2>2, SMT DEF Slots
<1>8. CASE i \in 7 .. 8
  <2>1. w = VIRTUAL_KERNEL_STACK
    BY <1>1, <1>8, WhichCall, StackCalls, Room, SMT
  <2>2. w = (3 * MB) * E + 0 /\ 3 * MB \in Nat /\ 0 \in 0 .. E - 1
    BY <2>1, Scale, SMT DEF VIRTUAL_KERNEL_STACK
  <2>3. w \div E = 3 * MB
    BY <2>2, Quotient
  <2> QED
    BY <1>1, <1>2, <1>8, <2>3, SMT DEF Slots
<1> QED
  BY <1>5, <1>6, <1>7, <1>8, SMT

\* The tables reserved for them are among the tables.
LEMMA SlotTables ==
  ASSUME NEW i \in 1 .. 8, NEW k \in Slots(i)
  PROVE  k \in Entries /\ PT_BASE[Script[i].pgd] + k \in Tables
<1>1. CASE i = 1 \/ i = 2
  <2>1. k \in {0} \cup 4 .. 7 /\ Script[i].pgd = PGD_ADDR_KERNEL
    BY <1>1, Eight, KernelCall, TablesCall DEF Slots
  <2>2. k \in Entries
    BY <2>1, Scale, SMT DEF Entries
  <2> QED
    BY <2>1, <2>2 DEF Tables
<1>2. CASE i \in 3 .. 8
  <2>1. k \in {1, 3 * MB}
    BY <1>2, SMT DEF Slots
  <2>2. Script[i].pgd \in {PGD_ADDR_PROCESS1, PGD_ADDR_PROCESS2}
    BY <1>2, WhichCall, TaskCalls, SharedCalls, StackCalls
  <2>3. k \in Entries
    BY <2>1, Scale, SMT DEF Entries
  <2> QED
    BY <2>1, <2>2, <2>3 DEF Tables
<1> QED
  BY <1>1, <1>2, SMT

-----------------------------------------------------------------------------
(* The calls are calls of map_addresses *)

\* The two instances of the module, of this proof and of InitPaging, are the same.
LEMMA SameOperators ==
  /\ M!NPAGES = E * E /\ P!NPAGES = E * E
  /\ M!Page = 0 .. E * E - 1 /\ P!Page = 0 .. E * E - 1
  /\ P!Index = Entries
  /\ M!Memory = P!Memory /\ M!Zero = P!Zero /\ M!NoCall = P!NoCall
  /\ \A attr, f : M!pg_set_entry(attr, f) = P!pg_set_entry(attr, f)
  /\ \A m, d, w : M!Pte(m, d, w) = P!Pte(m, d, w)
  BY DEF M!NPAGES, P!NPAGES, M!Page, P!Page, P!Index, M!Index, Entries, M!Memory, P!Memory,
         M!Zero, P!Zero, M!NoCall, P!NoCall, M!pg_set_entry, P!pg_set_entry, M!Pte, P!Pte,
         M!Entry, P!Entry, M!pd32_get_idx, P!pd32_get_idx, M!pt32_get_idx, P!pt32_get_idx

\* The pages of the calls are pages.
LEMMA PageOf ==
  ASSUME NEW i \in 1 .. 8, NEW w \in PagesOf(Script[i])
  PROVE  w \in P!Page
<1> DEFINE n == E * E
<1>1. w \in Nat /\ w < n /\ n \in Nat
  BY SlotOf, Scale, SMT
<1> HIDE DEF n
<1>2. w \in 0 .. n - 1
  BY <1>1, SMT
<1> QED
  BY <1>2, SameOperators DEF n

\* The calls, numbered
LEMMA ScriptCall == \A c : c \in ScriptCalls <=> \E i \in 1 .. 8 : c = Script[i]
  BY Eight DEF ScriptCalls

\* The assumptions of map_addresses hold of the layout: of the size of a table,
LEMMA EHolds == P!EAssumption
  BY Scale, SMT

\* of the frames, which lie in the address space,
LEMMA FrameHolds == P!FrameAssumption
  BY Scale, Room, Paging, SameOperators, SMT

\* of the directories, whose tables are apart from them and from one another,
LEMMA PgdHolds == P!PgdAssumption
<1>1. PT_BASE \in [Directories -> P!Page]
  <2>1. \A d \in Directories : d + 1 \in 0 .. E * E - 1
    BY Places, Scale, Room, SMT DEF Directories
  <2> QED
    BY <2>1, Places, SameOperators DEF PT_BASE
<1>2. \A d, e \in Directories, i \in P!Index : e # PT_BASE[d] + i
  BY Places, Scale, SameOperators, SMT DEF Directories, Entries
<1>3. \A d, e \in Directories : d # e => \/ PT_BASE[d] + E <= PT_BASE[e]
                                         \/ PT_BASE[e] + E <= PT_BASE[d]
  BY Places, Scale, SMT DEF Directories
<1> QED
  BY <1>1, <1>2, <1>3

\* Every entry of a call's range is one of its slots.
LEMMA RangeSlots ==
  ASSUME NEW i \in 1 .. 8
  PROVE  /\ P!LastPage(Script[i].v, Script[i].size) = Script[i].v + Script[i].size - 1
         /\ P!PgdRange(Script[i]) \subseteq Slots(i)
<1> DEFINE c == Script[i]
           last == c.v + c.size - 1
<1>1. last \in 0 .. E * E - 1 /\ c.v \in PagesOf(c) /\ last \in PagesOf(c)
  BY CallsFit, Scale, SMT DEF PagesOf
<1>2. P!LastPage(c.v, c.size) = last
  BY <1>1, Scale, SMT DEF P!LastPage, P!NPAGES
<1>3. c.v \div E \in Slots(i) /\ last \div E \in Slots(i)
  BY <1>1, SlotOf
<1>4. P!PgdRange(c) = (c.v \div E) .. (last \div E)
  BY <1>2 DEF P!PgdRange, P!pd32_get_idx
<1>5. \A a, b \in Slots(i) : a .. b \subseteq Slots(i)
  BY Scale, SMT DEF Slots
<1> QED
  BY <1>2, <1>3, <1>4, <1>5

\* Every call stays in the address space, in both its ranges.
LEMMA CallPages ==
  ASSUME NEW i \in 1 .. 8
  PROVE  LET c == Script[i]
         IN  /\ c.v \in P!Page /\ c.p \in P!Page /\ c.size \in P!Page
             /\ c.v + c.size \in 1 .. P!NPAGES /\ c.p + c.size <= P!NPAGES
<1> DEFINE c == Script[i]
           n == E * E
<1>1. /\ c.v \in Nat /\ c.p \in Nat /\ c.size \in Nat /\ c.size >= 1
      /\ c.v + c.size <= n /\ c.p + c.size <= n /\ c.size < n
  BY CallsFit
<1>2. n \in Nat
  BY Scale, SMT
<1> HIDE DEF n, c
<1>3. /\ c.v \in 0 .. n - 1 /\ c.p \in 0 .. n - 1 /\ c.size \in 0 .. n - 1
      /\ c.v + c.size \in 1 .. n
  BY <1>1, <1>2, SMT
<1> QED
  BY <1>1, <1>3, SameOperators DEF n, c

\* of the calls, whose tables are there,
LEMMA CallsHold == P!CallsAssumption
<1>1. ScriptCalls \subseteq P!Call
  <2> SUFFICES ASSUME NEW i \in 1 .. 8 PROVE Script[i] \in P!Call
    BY ScriptCall
  <2> DEFINE c == Script[i]
  <2>1. c.pgd \in Directories /\ c.ptb \in P!Page /\ c.aligned \in BOOLEAN
        /\ c.flags \in P!Flags
    BY CallsFit, PgdHolds DEF P!Flags
  <2>2. c.v \in P!Page /\ c.p \in P!Page /\ c.size \in P!Page
    BY CallPages
  <2> HIDE DEF c
  <2>3. [pgd |-> c.pgd, ptb |-> c.ptb, v |-> c.v, p |-> c.p, size |-> c.size,
         flags |-> c.flags, aligned |-> c.aligned] \in P!Call
    BY <2>1, <2>2 DEF P!Call
  <2> QED
    BY <2>3, CallsFit DEF c
<1>2. ASSUME NEW i \in 1 .. 8
      PROVE  /\ Script[i].ptb = PT_BASE[Script[i].pgd]
             /\ \A k \in P!PgdRange(Script[i]) :
                    Script[i].ptb + k \in Directories \cup Tables
  BY <1>2, CallsFit, RangeSlots, SlotTables
<1> QED
  BY <1>1, <1>2, ScriptCall

\* and of the memory, whose directories are zero.
LEMMA ImagesHold == P!ImagesAssumption
  BY SameOperators DEF Cleared

\* Every one of them is of the calls that map_addresses covers.
LEMMA ScriptCovered ==
  ASSUME NEW i \in 1 .. 8
  PROVE  P!Covered(Script[i])
<1> DEFINE c == Script[i]
<1>1. c.aligned /\ c.v + c.size \in 1 .. P!NPAGES /\ c.p + c.size <= P!NPAGES
  BY CallsFit, CallPages
<1>2. CASE i \in 3 .. 6
  <2>1. c.v \in PagesOf(c) /\ c.v + c.size - 1 \in PagesOf(c)
    BY CallsFit, SMT DEF PagesOf
  <2>2. c.v \div E = 1 /\ (c.v + c.size - 1) \div E = 1
    BY <1>2, <2>1, SlotOf DEF Slots
  <2> QED
    BY <1>1, <2>2 DEF P!Covered, P!pd32_get_idx
<1>3. CASE i \notin 3 .. 6
  <2>1. c.v = 0 * E + 0 \/ c.v = 4 * E + 0 \/ c.v = (3 * MB) * E + 0
    <3>1. c.v = 0 \/ c.v = 16 * MB \/ c.v = VIRTUAL_KERNEL_STACK
      BY <1>3, WhichCall, KernelCall, TablesCall, StackCalls, SMT
    <3>2. 0 = 0 * E + 0 /\ 16 * MB = 4 * E + 0 /\ VIRTUAL_KERNEL_STACK = (3 * MB) * E + 0
      BY Scale, SMT DEF VIRTUAL_KERNEL_STACK
    <3> QED
      BY <3>1, <3>2
  <2>2. 0 \in 0 .. E - 1 /\ 0 \in Nat /\ 4 \in Nat /\ 3 * MB \in Nat
    BY Scale, SMT
  <2>3. c.v % E = 0
    BY <2>1, <2>2, Quotient
  <2> QED
    BY <1>1, <2>3 DEF P!Covered, P!pt32_get_idx
<1> QED
  BY <1>2, <1>3

-----------------------------------------------------------------------------
(* The steps of the calls *)

\* The actions and the invariant of the two instances
LEMMA SameAccept == \A c : M!Accept(c) <=> P!Accept(c)
  BY Zenon DEF M!Accept, P!Accept, M!pd32_get_idx, P!pd32_get_idx, M!LastPage, P!LastPage,
         M!NPAGES, P!NPAGES

\* The steps of a call
LEMMA SameStep == M!Step <=> P!Step
<1>1. M!SetPte <=> P!SetPte
  BY DEF M!SetPte, P!SetPte, M!MoreEntries, P!MoreEntries, M!NextFrame, P!NextFrame,
         M!pg_set_entry, P!pg_set_entry, M!NPAGES, P!NPAGES
<1>2. \A pde : M!Directory(pde) <=> P!Directory(pde)
  BY DEF M!Directory, P!Directory, M!FirstIndex, P!FirstIndex, M!LastIndex, P!LastIndex,
         M!pgd_start_idx, P!pgd_start_idx, M!pd32_get_idx, P!pd32_get_idx,
         M!pt32_get_idx, P!pt32_get_idx, M!LastPage, P!LastPage, M!NPAGES, P!NPAGES
<1>3. (M!AllocTable <=> P!AllocTable) /\ (M!ReuseTable <=> P!ReuseTable)
  BY <1>2, SameOperators DEF M!AllocTable, P!AllocTable, M!ReuseTable, P!ReuseTable,
         M!pte_base, P!pte_base
<1>4. (M!NextTable <=> P!NextTable) /\ (M!Return <=> P!Return)
  BY DEF M!NextTable, P!NextTable, M!Return, P!Return, M!MoreEntries, P!MoreEntries,
         M!NextDirectory, P!NextDirectory, M!NPAGES, P!NPAGES, M!locals, P!locals
<1> QED
  BY <1>1, <1>3, <1>4 DEF M!Step, P!Step

\* The invariant
LEMMA SameServed == M!ServedInv <=> P!ServedInv
<1>1. M!Reached = P!Reached
  BY DEF M!Reached, P!Reached, M!pgd_start_idx, P!pgd_start_idx,
         M!pd32_get_idx, P!pd32_get_idx
<1>2. \A c : M!Covered(c) <=> P!Covered(c)
  BY DEF M!Covered, P!Covered, M!NPAGES, P!NPAGES, M!pd32_get_idx, P!pd32_get_idx,
         M!pt32_get_idx, P!pt32_get_idx
<1>3. M!IInv <=> P!IInv
  <2>1. M!TypeOK <=> P!TypeOK
    BY SameOperators DEF M!TypeOK, P!TypeOK, ScriptCalls, M!Index, P!Index
  <2>2. M!TablesPrivate <=> P!TablesPrivate
    BY SameOperators DEF M!TablesPrivate, P!TablesPrivate, M!Index, P!Index
  <2>3. M!InRange <=> P!InRange
    BY SameOperators DEF M!InRange, P!InRange, M!pgd_start_idx, P!pgd_start_idx,
         M!pd32_get_idx, P!pd32_get_idx, M!LastPage, P!LastPage, M!NPAGES, P!NPAGES
  <2> QED
    BY <2>1, <2>2, <2>3 DEF M!IInv, P!IInv
<1>4. M!Serving <=> P!Serving
  BY <1>1, <1>2, SameOperators DEF M!Serving, P!Serving, M!pgd_start_idx, P!pgd_start_idx,
         M!pd32_get_idx, P!pd32_get_idx
<1>5. M!RequestServed <=> P!RequestServed
  BY <1>2, SameOperators DEF M!RequestServed, P!RequestServed
<1> QED
  BY <1>3, <1>4, <1>5 DEF M!ServedInv, P!ServedInv

\* What holds of map_addresses in a step: its invariant, before and after.
LEMMA Serves ==
  ASSUME P!ServedInv, P!Step \/ \E i \in 1 .. 8 : P!Accept(Script[i])
  PROVE  P!ServedInv'
<1>1. P!Next
  BY ScriptCall DEF P!Next
<1> QED
  BY <1>1, EHolds, FrameHolds, PgdHolds, CallsHold, ImagesHold, P!StepServed

\* A call under way is one of the script's, hence covered.
LEMMA UnderWay ==
  ASSUME P!ServedInv, P!Step
  PROVE  /\ P!IInv /\ P!Serving
         /\ pc # "idle" /\ req' = req
         /\ \E i \in 1 .. 8 : req = Script[i]
         /\ req \in ScriptCalls /\ P!Covered(req) /\ req.pgd \in Directories
<1>1. pc # "idle" /\ req' = req
  BY DEF P!Step, P!AllocTable, P!ReuseTable, P!Directory, P!SetPte, P!NextTable, P!Return
<1>2. P!IInv /\ P!Serving /\ req \in ScriptCalls
  BY <1>1 DEF P!ServedInv, P!IInv, P!TypeOK
<1> QED
  BY <1>1, <1>2, ScriptCall, ScriptCovered, CallsFit

\* The page that a step installs is of the call.
LEMMA SetPtePage ==
  ASSUME P!ServedInv, P!SetPte
  PROVE  gi * E + ti \in PagesOf(req)
<1>1. P!Step
  BY DEF P!Step
<1>2. P!IInv /\ P!Serving /\ P!Covered(req)
  BY <1>1, UnderWay
<1>3. P!Reached = gi * E + ti /\ req.v <= P!Reached /\ P!Reached < req.v + req.size
      /\ P!Reached \in P!Page
  BY <1>2, EHolds, FrameHolds, PgdHolds, CallsHold, ImagesHold, P!SetPteReached
<1>4. \E i \in 1 .. 8 : req = Script[i]
  BY <1>1, UnderWay
<1>5. req.v \in Nat /\ req.size \in Nat
  BY <1>4, CallsFit
<1>6. P!Reached \in Int
  BY <1>3, SameOperators, SMT
<1> QED
  BY <1>3, <1>5, <1>6, SMT DEF PagesOf

\* A step leaves every page that is mapped and not of the call as it is.
LEMMA StepKeeps ==
  ASSUME P!ServedInv, P!Step, NEW d \in Directories, NEW w \in P!Page,
         P!Pte(mem, d, w) # P!Zero, ~(d = req.pgd /\ w \in PagesOf(req))
  PROVE  P!Pte(mem', d, w) = P!Pte(mem, d, w)
<1>1. P!IInv /\ P!Serving /\ P!Covered(req) /\ req.pgd \in Directories /\ req \in ScriptCalls
  BY UnderWay
<1>2. CASE P!SetPte
  <2>1. gi * E + ti \in PagesOf(req)
    BY <1>2, SetPtePage
  <2> QED
    BY <1>1, <1>2, <2>1, EHolds, FrameHolds, PgdHolds, CallsHold, ImagesHold, P!SetPteTranslates
<1>3. CASE P!AllocTable
  <2> DEFINE k == P!pd32_get_idx(w)
  <2>1. mem[d][k] # P!Zero
    BY EHolds, FrameHolds, PgdHolds, CallsHold, ImagesHold, P!PteNone
  <2>2. /\ mem[d][k].p /\ PT_BASE[d] + k \in Directories \cup Tables
        /\ mem[d][k].pfn = PT_BASE[d] + k
    BY <1>1, <2>1, EHolds, FrameHolds, PgdHolds, CallsHold, ImagesHold, P!PteOf
  <2>3. k \in P!Index
    BY EHolds, FrameHolds, PgdHolds, CallsHold, ImagesHold, P!Indexes
  <2>4. PT_BASE[d] + k # req.pgd
    BY <1>1, <2>3, PgdHolds
  <2>5. /\ mem[req.pgd][gi] = P!Zero
        /\ mem' = [mem EXCEPT ![req.pgd][gi] = P!pg_set_entry(req.flags, P!pte_base)]
    BY <1>3 DEF P!AllocTable, P!Directory
  <2>6. mem \in P!Memory
    BY <1>1 DEF P!IInv, P!TypeOK
  <2>7. d # req.pgd \/ k # gi
    BY <2>1, <2>5
  <2>8. mem'[d][k] = mem[d][k]
    BY <2>3, <2>5, <2>6, <2>7 DEF P!Memory
  <2>9. mem'[PT_BASE[d] + k] = mem[PT_BASE[d] + k]
    BY <2>2, <2>4, <2>5, <2>6 DEF P!Memory
  <2> HIDE DEF k
  <2> QED
    BY <2>2, <2>8, <2>9 DEF P!Pte, k
<1>4. CASE ~P!SetPte /\ ~P!AllocTable
  <2>1. mem' = mem
    BY <1>1, <1>4, EHolds, FrameHolds, PgdHolds, CallsHold, ImagesHold, P!ReuseKeeps
       DEF P!Step, P!NextTable, P!Return
  <2> QED
    BY <2>1
<1> QED
  BY <1>2, <1>3, <1>4

\* Two calls on the same directory have no page in common.
LEMMA CallsApart ==
  ASSUME NEW i \in 1 .. 8, NEW j \in 1 .. 8, i # j, Script[i].pgd = Script[j].pgd,
         NEW w \in PagesOf(Script[i])
  PROVE  w \notin PagesOf(Script[j])
<1>1. PGD_ADDR_KERNEL # PGD_ADDR_PROCESS1 /\ PGD_ADDR_KERNEL # PGD_ADDR_PROCESS2
      /\ PGD_ADDR_PROCESS1 # PGD_ADDR_PROCESS2
  BY Places, Scale, SMT
<1>2. CASE Script[i].pgd = PGD_ADDR_KERNEL
  <2>1. i \in {1, 2} /\ j \in {1, 2}
    BY <1>1, <1>2, WhichCall, TaskCalls, SharedCalls, StackCalls
  <2> QED
    BY <2>1, Eight, KernelCall, TablesCall, Scale, SMT DEF PagesOf
<1>3. CASE Script[i].pgd = PGD_ADDR_PROCESS1
  <2>1. i \in {3, 5, 7} /\ j \in {3, 5, 7}
    BY <1>1, <1>3, WhichCall, KernelCall, TablesCall, TaskCalls, SharedCalls, StackCalls
  <2> QED
    BY <2>1, Eight, TaskCalls, SharedCalls, StackCalls, Scale, Room, SMT DEF PagesOf
<1>4. CASE Script[i].pgd = PGD_ADDR_PROCESS2
  <2>1. i \in {4, 6, 8} /\ j \in {4, 6, 8}
    BY <1>1, <1>4, WhichCall, KernelCall, TablesCall, TaskCalls, SharedCalls, StackCalls
  <2> QED
    BY <2>1, Eight, TaskCalls, SharedCalls, StackCalls, Scale, Room, SMT DEF PagesOf
<1> QED
  BY <1>2, <1>3, <1>4, CallsFit DEF Directories

-----------------------------------------------------------------------------
(* The invariant *)

\* A call that allocates a table gives its directory entry the entry's level: all but
\* the sixth, which comes after the one that allocates its table.
LEMMA LevelOf ==
  ASSUME NEW i \in 1 .. 8, i # 6, NEW k \in Slots(i)
  PROVE  Script[i].flags = Level(Script[i].pgd, k)
<1>1. PGD_ADDR_KERNEL \notin Tasks /\ PGD_ADDR_PROCESS1 \in Tasks /\ PGD_ADDR_PROCESS2 \in Tasks
  BY Places DEF Tasks
<1>2. 3 * MB # 1 /\ 0 # 1
  BY Scale, SMT
<1>3. CASE i = 1 \/ i = 2
  BY <1>1, <1>3, Eight, KernelCall, TablesCall DEF Level
<1>4. CASE i \in 3 .. 6
  <2>1. k = 1 /\ Script[i].flags = USR_RW /\ Script[i].pgd \in Tasks
    BY <1>1, <1>4, WhichCall, TaskCalls, SharedCalls, SMT DEF Slots
  <2> QED
    BY <2>1 DEF Level
<1>5. CASE i \in 7 .. 8
  <2>1. k = 3 * MB /\ Script[i].flags = KRN_RW
    BY <1>5, WhichCall, StackCalls, SMT DEF Slots
  <2> QED
    BY <1>2, <2>1 DEF Level
<1> QED
  BY <1>3, <1>4, <1>5, SMT

\* The invariant in terms of this module's instance
MappingP ==
    /\ P!ServedInv
    /\ req = IF calls = 0 THEN P!NoCall ELSE Script[calls]
    /\ \A d \in Directories, i \in Entries :
           mem[d][i] # P!Zero => mem[d][i] = P!pg_set_entry(Level(d, i), PT_BASE[d] + i)
    /\ \A i \in 1 .. calls : i < calls \/ pc = "idle" =>
           \A w \in PagesOf(Script[i]) :
               P!Pte(mem, Script[i].pgd, w)
                   = P!pg_set_entry(Script[i].flags, Script[i].p + (w - Script[i].v))

\* It is the same.
LEMMA SameMapping == Mapping <=> MappingP
<1>1. ASSUME NEW i
      PROVE  Installed(Script[i]) <=>
                 \A w \in PagesOf(Script[i]) :
                     P!Pte(mem, Script[i].pgd, w)
                         = P!pg_set_entry(Script[i].flags, Script[i].p + (w - Script[i].v))
  BY SameOperators DEF Installed
<1>2. \A d, i : M!pg_set_entry(Level(d, i), PT_BASE[d] + i)
                    = P!pg_set_entry(Level(d, i), PT_BASE[d] + i)
  BY SameOperators
<1> QED
  BY <1>1, <1>2, SameServed, SameOperators, Zenon DEF Mapping, MappingP

\* The entry of a page is not zero, and its directory entry neither.
LEMMA Mapped ==
  ASSUME NEW i \in 1 .. 8, NEW w \in PagesOf(Script[i]),
         P!Pte(mem, Script[i].pgd, w)
             = P!pg_set_entry(Script[i].flags, Script[i].p + (w - Script[i].v))
  PROVE  /\ w \in P!Page
         /\ P!Pte(mem, Script[i].pgd, w) # P!Zero
         /\ mem[Script[i].pgd][w \div E] # P!Zero
<1>1. w \in P!Page
  BY PageOf
<1>2. P!Pte(mem, Script[i].pgd, w) # P!Zero
  BY DEF P!pg_set_entry, P!Zero
<1>3. mem[Script[i].pgd][P!pd32_get_idx(w)] # P!Zero
  BY <1>2, EHolds, FrameHolds, PgdHolds, CallsHold, ImagesHold, P!PteNone
<1> QED
  BY <1>1, <1>2, <1>3 DEF P!pd32_get_idx

\* The table that a call allocates gets the level of its directory entry.
LEMMA AllocLevel ==
  ASSUME MappingP, calls \in 1 .. 8, req = Script[calls], P!AllocTable
  PROVE  /\ gi \in Entries
         /\ req.flags = Level(req.pgd, gi) /\ P!pte_base = PT_BASE[req.pgd] + gi
<1>1. P!IInv /\ P!AllocTable /\ gi <= glast /\ pc # "idle" /\ P!Step
  BY DEF MappingP, P!ServedInv, P!AllocTable, P!Step
<1>2. gi \in P!PgdRange(Script[calls])
  <2>1. gi \in Int /\ glast = P!pd32_get_idx(P!LastPage(req.v, req.size))
        /\ gi >= P!pd32_get_idx(req.v)
    BY <1>1, EHolds, SMT DEF P!IInv, P!TypeOK, P!InRange, P!pgd_start_idx
  <2>2. P!pd32_get_idx(req.v) \in Int /\ glast \in Int
    BY <1>1, <2>1, EHolds, FrameHolds, PgdHolds, CallsHold, ImagesHold, P!RangeOfCall,
       ScriptCall, SMT DEF P!Index
  <2> QED
    BY <1>1, <2>1, <2>2, SMT DEF P!PgdRange
<1>3. gi \in Slots(calls)
  BY <1>2, RangeSlots
<1>4. calls # 6
  <2> SUFFICES ASSUME calls = 6 PROVE FALSE
    OBVIOUS
  <2> DEFINE w == 5 * MB
  <2>1. w \in PagesOf(Script[4]) /\ Script[4].pgd = PGD_ADDR_PROCESS2
    BY Eight, TaskCalls, Scale, SMT DEF PagesOf
  <2>2. P!Pte(mem, Script[4].pgd, w)
            = P!pg_set_entry(Script[4].flags, Script[4].p + (w - Script[4].v))
    BY <2>1, SMT DEF MappingP
  <2>3. w \div E = 1
    BY <2>1, SlotOf, SMT DEF Slots
  <2>4. gi = 1 /\ req.pgd = PGD_ADDR_PROCESS2
    BY <1>3, Eight, SharedCalls, SMT DEF Slots
  <2>5. mem[PGD_ADDR_PROCESS2][1] # P!Zero
    BY <2>1, <2>2, <2>3, Mapped
  <2> QED
    BY <2>4, <2>5 DEF P!AllocTable
<1> QED
  BY <1>3, <1>4, LevelOf, SlotTables, CallsFit DEF P!pte_base

\* The initial states of map_addresses, after a step too, satisfy its invariant.
LEMMA InitServesNext == P!Init' => P!ServedInv'
<1>1. P!Init => P!ServedInv
  BY EHolds, FrameHolds, PgdHolds, CallsHold, ImagesHold, P!InitServed
<1> QED
  BY <1>1, PTL

\* Clearing the directories establishes it.
LEMMA ClearMapping ==
  ASSUME IInv, ClearDirectories
  PROVE  MappingP'
<1>1. /\ pc = "idle" /\ req = P!NoCall /\ calls = 0
      /\ v = 0 /\ p = 0 /\ gi = 0 /\ glast = 0 /\ pt = 0 /\ ti = 0 /\ tlast = 0
      /\ mem \in P!Memory
  BY SameOperators DEF IInv, ClearDirectories
<1>2. mem' = [f \in DOMAIN mem |->
                 IF f \in Directories THEN [i \in Entries |-> M!Zero] ELSE mem[f]]
  BY DEF ClearDirectories
<1>3. \A i \in Entries : M!Zero \in P!Entry
  <2>1. 0 \in P!Page
    BY EHolds, FrameHolds, PgdHolds, CallsHold, ImagesHold, P!PagesPositive, SMT DEF P!Page
  <2> QED
    BY <2>1 DEF M!Zero, P!Entry
<1>4. mem' \in P!Memory
  BY <1>1, <1>2, <1>3, SameOperators DEF P!Memory
<1>5. \A d \in Directories, i \in Entries : mem'[d][i] = P!Zero
  BY <1>1, <1>2, SameOperators DEF P!Memory
<1>6. P!Init'
  BY <1>1, <1>4, <1>5, SameOperators DEF P!Init, Cleared, ClearDirectories, locals
<1>7. P!Init' => P!ServedInv'
  BY InitServesNext
<1>8. req' = P!NoCall /\ calls' = 0
  BY <1>1 DEF ClearDirectories, locals
<1>9. ~\E i \in 1 .. 0 : TRUE
  BY SMT
<1> QED
  BY <1>5, <1>6, <1>7, <1>8, <1>9 DEF MappingP

\* The next call begins: the previous one has returned.
LEMMA CallMapping ==
  ASSUME MappingP, calls \in 0 .. 7, P!Accept(Script[calls + 1]), calls' = calls + 1
  PROVE  MappingP'
<1>1. calls + 1 \in 1 .. 8 /\ calls + 1 # 0
  BY SMT
<1>2. P!ServedInv'
  BY <1>1, Serves DEF MappingP
<1>3. req' = Script[calls'] /\ calls' # 0 /\ mem' = mem /\ pc = "idle" /\ pc' = "pgd"
  BY <1>1 DEF P!Accept
<1>4. \A i \in 1 .. calls' : i < calls' => i \in 1 .. calls
  BY SMT
<1>5. \A i \in 1 .. calls' : i < calls' \/ pc' = "idle" =>
          \A w \in PagesOf(Script[i]) :
              P!Pte(mem', Script[i].pgd, w)
                  = P!pg_set_entry(Script[i].flags, Script[i].p + (w - Script[i].v))
  BY <1>3, <1>4 DEF MappingP
<1> QED
  BY <1>2, <1>3, <1>5 DEF MappingP

\* A step of a call keeps it.
LEMMA StepMapping ==
  ASSUME MappingP, calls \in 0 .. 8, P!Step, calls' = calls
  PROVE  MappingP'
<1>1. P!ServedInv /\ P!ServedInv'
  BY Serves DEF MappingP
<1>2. /\ P!IInv /\ P!IInv' /\ P!Serving /\ pc # "idle" /\ req' = req
      /\ req \in ScriptCalls /\ P!Covered(req) /\ req.pgd \in Directories
  BY <1>1, UnderWay DEF P!ServedInv
<1>3. calls \in 1 .. 8 /\ req = Script[calls]
  <2>1. \A i \in 1 .. 8 : Script[i] # P!NoCall
    <3>1. \A i \in 1 .. 8 : Script[i].aligned = TRUE
      BY CallsFit
    <3> QED
      BY <3>1 DEF P!NoCall
  <2>2. req # P!NoCall
    BY <1>1, <2>1, UnderWay
  <2> QED
    BY <2>2, SMT DEF MappingP
<1>4. ASSUME NEW d \in Directories, NEW i \in Entries, mem'[d][i] # P!Zero
      PROVE  mem'[d][i] = P!pg_set_entry(Level(d, i), PT_BASE[d] + i)
  <2>1. mem[d][i] # P!Zero => mem[d][i] = P!pg_set_entry(Level(d, i), PT_BASE[d] + i)
    BY DEF MappingP
  <2>2. CASE P!AllocTable
    <3>1. gi \in Entries /\ req.flags = Level(req.pgd, gi) /\ P!pte_base = PT_BASE[req.pgd] + gi
      BY <1>3, <2>2, AllocLevel
    <3>2. mem' = [mem EXCEPT ![req.pgd][gi] = P!pg_set_entry(req.flags, P!pte_base)]
      BY <2>2 DEF P!AllocTable, P!Directory
    <3>3. mem \in P!Memory
      BY <1>2 DEF P!IInv, P!TypeOK
    <3>4. CASE d = req.pgd /\ i = gi
      <4>1. mem'[d][i] = P!pg_set_entry(req.flags, P!pte_base)
        BY <1>2, <3>1, <3>2, <3>3, <3>4, SameOperators DEF P!Memory
      <4> QED
        BY <3>1, <3>4, <4>1
    <3>5. CASE ~(d = req.pgd /\ i = gi)
      <4>1. mem'[d][i] = mem[d][i]
        BY <1>2, <3>1, <3>2, <3>3, <3>5, SameOperators DEF P!Memory
      <4> QED
        BY <1>4, <2>1, <4>1
    <3> QED
      BY <3>4, <3>5
  <2>3. CASE P!SetPte
    BY <1>2, <1>4, <2>1, <2>3, EHolds, FrameHolds, PgdHolds, CallsHold, ImagesHold, P!SetPteMemory
  <2>4. CASE ~P!AllocTable /\ ~P!SetPte
    <3>1. mem' = mem
      BY <1>2, <2>4, EHolds, FrameHolds, PgdHolds, CallsHold, ImagesHold, P!ReuseKeeps
         DEF P!Step, P!NextTable, P!Return
    <3> QED
      BY <1>4, <2>1, <3>1
  <2> QED
    BY <2>2, <2>3, <2>4
<1>5. ASSUME NEW i \in 1 .. calls, i < calls \/ pc' = "idle", NEW w \in PagesOf(Script[i])
      PROVE  P!Pte(mem', Script[i].pgd, w)
                 = P!pg_set_entry(Script[i].flags, Script[i].p + (w - Script[i].v))
  <2>0. i \in 1 .. 8
    BY <1>3, SMT
  <2>1. CASE i < calls
    <3>1. P!Pte(mem, Script[i].pgd, w)
              = P!pg_set_entry(Script[i].flags, Script[i].p + (w - Script[i].v))
      BY <2>1 DEF MappingP
    <3>2. ~(Script[i].pgd = req.pgd /\ w \in PagesOf(req))
      BY <1>3, <2>0, <2>1, CallsApart, SMT
    <3>3. w \in P!Page /\ P!Pte(mem, Script[i].pgd, w) # P!Zero
      BY <2>0, <3>1, Mapped
    <3>4. P!Pte(mem', Script[i].pgd, w) = P!Pte(mem, Script[i].pgd, w)
      BY <1>1, <2>0, <3>2, <3>3, CallsFit, StepKeeps
    <3> QED
      BY <3>1, <3>4
  <2>2. CASE i = calls
    <3>1. pc' = "idle" /\ req' # P!NoCall /\ P!Covered(req') /\ P!RequestServed'
      <4>1. pc' = "idle"
        BY <1>5, <2>2, <1>3, SMT
      <4>2. P!Covered(req')
        BY <1>2
      <4>3. req' # P!NoCall
        BY <1>2, <1>3, CallsFit DEF P!NoCall
      <4> QED
        BY <1>1, <4>1, <4>2, <4>3 DEF P!ServedInv
    <3>2. w \in req'.v .. req'.v + req'.size - 1
      BY <1>2, <1>3, <2>2 DEF PagesOf
    <3>3. P!Pte(mem', req'.pgd, w) = P!pg_set_entry(req'.flags, req'.p + (w - req'.v))
      BY <3>1, <3>2 DEF P!RequestServed
    <3> QED
      BY <1>2, <1>3, <2>2, <3>3
  <2> QED
    BY <1>3, <2>1, <2>2, SMT
<1> QED
  BY <1>1, <1>2, <1>3, <1>4, <1>5 DEF MappingP

\* And so does a step that is none of map_addresses'.
LEMMA KeepMapping ==
  ASSUME MappingP, UNCHANGED <<mem, locals, calls>>
  PROVE  MappingP'
<1>1. UNCHANGED P!vars
  BY DEF P!vars, P!locals, locals
<1>2. P!ServedInv'
  BY <1>1, EHolds, FrameHolds, PgdHolds, CallsHold, ImagesHold, P!StepServed DEF MappingP
<1> QED
  BY <1>2 DEF MappingP, locals

\* Also after a step.
LEMMA SameMappingNext == Mapping' <=> MappingP'
  BY SameMapping, PTL

\* The invariant holds at boot.
LEMMA InitInv == Init => IInv
<1> SUFFICES ASSUME Init PROVE IInv
  OBVIOUS
<1>1. mem \in M!Memory
  BY RAMAssumption DEF Init
<1>2. 0 \in 0 .. Len(Script)
  BY Eight, SMT
<1> QED
  BY <1>1, <1>2 DEF Init, IInv

\* Each step of init_paging keeps the invariant.
LEMMA StepInv == IInv /\ [Next]_vars => IInv'
<1> SUFFICES ASSUME IInv, [Next]_vars PROVE IInv'
  OBVIOUS
<1>1. ASSUME MappingP' PROVE Mapping' /\ mem' \in M!Memory
  BY <1>1, SameMappingNext, SameOperators DEF MappingP, P!ServedInv, P!IInv, P!TypeOK
<1>2. phase # "clear" => MappingP
  BY SameMapping DEF IInv
<1>3. calls \in 0 .. 8
  BY Eight DEF IInv
<1>4. CASE ClearDirectories
  <2>1. Mapping' /\ mem' \in M!Memory
    BY <1>1, <1>4, ClearMapping
  <2> QED
    BY <1>4, <2>1 DEF IInv, ClearDirectories
<1>5. CASE CallMap
  <2>1. P!Accept(Script[calls + 1]) /\ calls \in 0 .. 7 /\ calls' = calls + 1
    BY <1>3, <1>5, Eight, SameAccept, SMT DEF CallMap
  <2>2. MappingP'
    BY <1>2, <1>5, <2>1, CallMapping DEF CallMap
  <2>3. Mapping' /\ mem' \in M!Memory
    BY <1>1, <2>2
  <2>4. calls' \in 0 .. Len(Script)
    BY <2>1, Eight, SMT
  <2> QED
    BY <1>5, <2>3, <2>4 DEF IInv, CallMap
<1>6. CASE MapStep
  <2>1. MappingP'
    BY <1>2, <1>3, <1>6, StepMapping, SameStep DEF MapStep
  <2>2. Mapping' /\ mem' \in M!Memory
    BY <1>1, <2>1
  <2> QED
    BY <1>6, <2>2 DEF IInv, MapStep
<1>7. CASE LoadDirectory
  <2>1. Mapping' /\ mem' \in M!Memory
    BY <1>1, <1>2, <1>7, KeepMapping DEF LoadDirectory
  <2> QED
    BY <1>7, <2>1 DEF IInv, LoadDirectory, locals
<1>8. CASE EnablePaging
  <2>1. Mapping' /\ mem' \in M!Memory
    BY <1>1, <1>2, <1>8, KeepMapping DEF EnablePaging
  <2> QED
    BY <1>8, <2>1 DEF IInv, EnablePaging, locals
<1>9. CASE UNCHANGED vars
  <2>1. phase # "clear" => Mapping'
    BY <1>1, <1>2, <1>9, KeepMapping DEF vars
  <2> QED
    BY <1>9, <2>1 DEF IInv, vars, locals
<1> QED
  BY <1>4, <1>5, <1>6, <1>7, <1>8, <1>9 DEF Next

\* The invariant holds in every state.
THEOREM InvTheorem == Spec => []IInv
  BY InitInv, StepInv, PTL DEF Spec

-----------------------------------------------------------------------------
(* Once paging is on *)

\* Every page of every call translates as the call asked, through a directory entry of
\* its level.
LEMMA Translated ==
  ASSUME IInv, pg, NEW i \in 1 .. 8, NEW w \in PagesOf(Script[i])
  PROVE  LET c == Script[i]
             pde == mem[c.pgd][w \div E]
         IN  /\ c.pgd \in Directories /\ w \in P!Page /\ w \div E \in Slots(i)
             /\ M!Pte(mem, c.pgd, w) = M!pg_set_entry(c.flags, c.p + (w - c.v))
             /\ pde = M!pg_set_entry(Level(c.pgd, w \div E), PT_BASE[c.pgd] + w \div E)
<1> DEFINE c == Script[i]
<1>1. phase = "done" /\ calls = 8 /\ pc = "idle" /\ MappingP
  BY SameMapping, Eight DEF IInv
<1>2. P!Pte(mem, c.pgd, w) = P!pg_set_entry(c.flags, c.p + (w - c.v))
  BY <1>1 DEF MappingP
<1>3. mem[c.pgd][w \div E] # P!Zero /\ w \in P!Page
  BY <1>2, Mapped
<1>4. w \div E \in Slots(i) /\ w \div E \in Entries /\ c.pgd \in Directories
  BY SlotOf, SlotTables, CallsFit
<1>5. mem[c.pgd][w \div E]
          = P!pg_set_entry(Level(c.pgd, w \div E), PT_BASE[c.pgd] + w \div E)
  BY <1>1, <1>3, <1>4 DEF MappingP
<1> QED
  BY <1>2, <1>3, <1>4, <1>5, SameOperators

\* The level of a directory entry grants what its calls grant.
LEMMA LevelGrants ==
  ASSUME NEW i \in 1 .. 8, NEW k \in Slots(i)
  PROVE  LET l == Level(Script[i].pgd, k)
             a == Script[i].flags
         IN  (l.rw /\ a.rw) = a.rw /\ (l.usr /\ a.usr) = a.usr /\ a.rw \in BOOLEAN
             /\ a.usr \in BOOLEAN
<1>1. CASE i # 6
  <2>1. Level(Script[i].pgd, k) = Script[i].flags
    BY <1>1, LevelOf
  <2> QED
    BY <2>1, CallsFit
<1>2. CASE i = 6
  <2>1. Level(Script[i].pgd, k) = USR_RW /\ Script[i].flags = USR_RO
    BY <1>2, Eight, SharedCalls, SMT DEF Slots, Level, Tasks
  <2>2. USR_RW.rw = TRUE /\ USR_RW.usr = TRUE /\ USR_RO.rw = FALSE /\ USR_RO.usr = TRUE
    BY DEF USR_RW, USR_RO
  <2>3. (TRUE /\ FALSE) = FALSE /\ (TRUE /\ TRUE) = TRUE /\ FALSE \in BOOLEAN /\ TRUE \in BOOLEAN
    OBVIOUS
  <2> QED
    BY <2>1, <2>2, <2>3, Zenon
<1> QED
  BY <1>1, <1>2

\* The walk of a page of a call finds the frame and the rights the call gave.
LEMMA WalkOf ==
  ASSUME IInv, pg, NEW i \in 1 .. 8, NEW w \in PagesOf(Script[i])
  PROVE  LET c == Script[i]
         IN  M!Walk(mem, c.pgd, w) = M!pg_set_entry(c.flags, c.p + (w - c.v))
<1> DEFINE c == Script[i]
           l == Level(c.pgd, w \div E)
           pde == mem[c.pgd][w \div E]
           pte == M!Pte(mem, c.pgd, w)
<1>1. /\ pte = M!pg_set_entry(c.flags, c.p + (w - c.v))
      /\ pde = M!pg_set_entry(l, PT_BASE[c.pgd] + w \div E)
      /\ w \div E \in Slots(i)
  BY Translated
<1>2. pde.p = TRUE /\ pde.rw = l.rw /\ pde.usr = l.usr
  BY <1>1 DEF M!pg_set_entry
<1>3. /\ pte.p = TRUE /\ pte.rw = c.flags.rw /\ pte.usr = c.flags.usr
      /\ pte.pfn = c.p + (w - c.v)
  BY <1>1 DEF M!pg_set_entry
<1>4. (l.rw /\ c.flags.rw) = c.flags.rw /\ (l.usr /\ c.flags.usr) = c.flags.usr
  BY <1>1, LevelGrants
<1>5. M!Walk(mem, c.pgd, w) = [p |-> pde.p /\ pte.p, rw |-> pde.rw /\ pte.rw,
                               usr |-> pde.usr /\ pte.usr, pfn |-> pte.pfn]
  BY DEF M!Walk, M!pd32_get_idx
<1> HIDE DEF l, pde, pte
<1>6. (TRUE /\ TRUE) = TRUE
  OBVIOUS
<1> QED
  BY <1>2, <1>3, <1>4, <1>5, <1>6, Zenon DEF M!pg_set_entry

\* RightsAsAsked follows from the invariant.
LEMMA Rights == IInv => RightsAsAsked
<1> SUFFICES ASSUME IInv, pg, NEW i \in 1 .. 8, NEW k \in 0 .. Script[i].size - 1
             PROVE  LET c == Script[i]
                    IN  M!Walk(mem, c.pgd, c.v + k) = M!pg_set_entry(c.flags, c.p + k)
  BY Eight DEF RightsAsAsked
<1> DEFINE c == Script[i]
<1>1. c.v + k \in PagesOf(c) /\ c.p + ((c.v + k) - c.v) = c.p + k
  BY CallsFit, SMT DEF PagesOf
<1> QED
  BY <1>1, WalkOf

\* Every page of the eight calls has, once paging is on, the frame and the rights its
\* call asked for, although the two levels of entries combine their rights.
THEOREM RightsHold == Spec => []RightsAsAsked
  BY Rights, InvTheorem, PTL

\* What the directories and their entries occupy is what the layout keeps for them.
LEMMA PagingPlaces ==
  ASSUME IInv, pg
  PROVE  PagingFrames \subseteq Directories \cup Tables
<1>1. P!TablesPrivate
  BY SameServed DEF IInv, Mapping, P!ServedInv, P!IInv
<1>2. ASSUME NEW d \in Directories, NEW i \in Entries, mem[d][i].p
      PROVE  mem[d][i].pfn \in Directories \cup Tables
  <2>1. mem[d][i] # P!Zero
    BY <1>2 DEF P!Zero
  <2> QED
    BY <1>1, <2>1, SameOperators DEF P!TablesPrivate
<1> QED
  BY <1>2 DEF PagingFrames

\* KernelKeepsRunning does: its pages are pages of the kernel's two calls.
LEMMA Running == IInv => KernelKeepsRunning
<1> SUFFICES ASSUME IInv, pg, NEW f \in KernelFrames \cup PagingFrames
             PROVE  M!Walk(mem, cr3, f) = M!pg_set_entry(KRN_RW, f)
  BY DEF KernelKeepsRunning
<1>1. cr3 = PGD_ADDR_KERNEL
  BY DEF IInv
<1>2. CASE f \in KernelFrames
  <2>1. f \in PagesOf(Script[1]) /\ Script[1].p + (f - Script[1].v) = f
    BY <1>2, Eight, KernelCall, Scale, SMT DEF KernelFrames, PagesOf
  <2> QED
    BY <1>1, <2>1, WalkOf, Eight, KernelCall
<1>3. CASE f \in PagingFrames
  <2>1. f \in PagesOf(Script[2]) /\ Script[2].p + (f - Script[2].v) = f
    BY <1>3, PagingPlaces, Paging, Eight, TablesCall, Scale, SMT DEF PagesOf
  <2> QED
    BY <1>1, <2>1, WalkOf, Eight, TablesCall
<1> QED
  BY <1>2, <1>3

\* The kernel goes on running when it turns paging on: its 4 MB, and every directory and
\* table that it will read or write by physical address, are mapped at their own
\* addresses, writable, and for ring 0.
THEOREM KernelRuns == Spec => []KernelKeepsRunning
  BY Running, InvTheorem, PTL

-----------------------------------------------------------------------------
(* The tables were zero *)

\* OnlyCalls in terms of this module's instance
LEMMA SameOnlyCalls ==
  OnlyCalls <=>
    /\ phase = "clear" => \A t \in Tables, j \in Entries : mem[t][j] = P!Zero
    /\ phase # "clear" =>
          /\ P!UnusedZero
          /\ \A d \in Directories, w \in P!Page :
                 P!Pte(mem, d, w) # P!Zero =>
                     \E i \in 1 .. calls : d = Script[i].pgd /\ w \in PagesOf(Script[i])
  BY SameOperators DEF OnlyCalls, P!UnusedZero

\* Clearing the directories establishes the second part of OnlyCalls from the first.
LEMMA ClearOnly ==
  ASSUME CleanInv, ClearDirectories
  PROVE  OnlyCalls'
<1>1. /\ \A t \in Tables, j \in Entries : mem[t][j] = P!Zero
      /\ mem \in P!Memory
  BY SameOperators, SameOnlyCalls DEF CleanInv, IInv, ClearDirectories
<1>2. mem' = [f \in DOMAIN mem |->
                 IF f \in Directories THEN [i \in Entries |-> M!Zero] ELSE mem[f]]
      /\ phase' = "map"
  BY DEF ClearDirectories
<1>3. \A d \in Directories, i \in Entries : mem'[d][i] = P!Zero
  BY <1>1, <1>2, SameOperators DEF P!Memory
<1>4. ASSUME NEW d \in Directories, NEW i \in Entries, NEW j \in Entries,
             PT_BASE[d] + i \in Directories \cup Tables
      PROVE  mem'[PT_BASE[d] + i][j] = P!Zero
  <2>1. PT_BASE[d] + i \in Tables \ Directories
    BY <1>4, PgdHolds, SameOperators
  <2>2. mem'[PT_BASE[d] + i] = mem[PT_BASE[d] + i]
    BY <1>1, <1>2, <2>1 DEF P!Memory
  <2> QED
    BY <1>1, <2>1, <2>2
<1>5. ASSUME NEW d \in Directories, NEW w \in P!Page
      PROVE  P!Pte(mem', d, w) = P!Zero
  <2>1. P!pd32_get_idx(w) \in Entries
    BY EHolds, FrameHolds, PgdHolds, CallsHold, ImagesHold, P!Indexes, SameOperators
  <2> QED
    BY <1>3, <2>1, EHolds, FrameHolds, PgdHolds, CallsHold, ImagesHold, P!PteNone
<1> QED
  BY <1>2, <1>4, <1>5, SameOperators DEF OnlyCalls

\* A step of a call maps a page of the call, and a table it allocates is zero.
LEMMA StepOnly ==
  ASSUME CleanInv, phase # "clear", phase' # "clear", MappingP, MappingP',
         P!Step \/ (calls < 8 /\ P!Accept(Script[calls + 1])) \/ UNCHANGED P!vars,
         calls' = calls \/ (calls' = calls + 1 /\ ~P!SetPte)
  PROVE  OnlyCalls'
<1>1. P!IInv /\ P!ServedInv /\ P!UnusedZero
  BY SameOnlyCalls DEF CleanInv, MappingP, P!ServedInv
<1>2. [P!Next]_(P!vars)
  <2>1. calls \in 0 .. 8
    BY Eight DEF CleanInv, IInv
  <2>2. calls < 8 => calls + 1 \in 1 .. 8
    BY <2>1, SMT
  <2> QED
    BY <2>2, ScriptCall DEF P!Next
<1>3. P!UnusedZero'
  BY <1>1, <1>2, EHolds, FrameHolds, PgdHolds, CallsHold, ImagesHold, P!StepUnused
<1>4. calls \in 0 .. 8 /\ 1 .. calls \subseteq 1 .. calls'
  BY Eight, SMT DEF CleanInv, IInv
<1>5. ASSUME NEW d \in Directories, NEW w \in P!Page, P!Pte(mem', d, w) # P!Zero
      PROVE  \E i \in 1 .. calls' : d = Script[i].pgd /\ w \in PagesOf(Script[i])
  <2>1. CASE P!Pte(mem, d, w) # P!Zero
    BY <1>4, <2>1, SameOnlyCalls DEF CleanInv
  <2>2. CASE P!Pte(mem, d, w) = P!Zero
    <3>1. P!Pte(mem', d, w) # P!Pte(mem, d, w)
      BY <1>5, <2>2
    <3>2. P!SetPte
      BY <1>1, <1>2, <3>1, EHolds, FrameHolds, PgdHolds, CallsHold, ImagesHold,
         P!StepTranslates DEF P!CleanInv
    <3>3. d = req.pgd /\ w = gi * E + ti
      BY <1>1, <3>1, <3>2, EHolds, FrameHolds, PgdHolds, CallsHold, ImagesHold,
         P!SetPteTranslates
    <3>4. w \in PagesOf(req)
      BY <1>1, <3>2, <3>3, SetPtePage
    <3>5. calls \in 1 .. 8 /\ req = Script[calls]
      <4>1. req # P!NoCall
        <5>1. \E i \in 1 .. 8 : req = Script[i]
          BY <1>1, <3>2, UnderWay DEF P!Step
        <5>2. \A i \in 1 .. 8 : Script[i].aligned = TRUE
          BY CallsFit
        <5> QED
          BY <5>1, <5>2 DEF P!NoCall
      <4> QED
        BY <1>4, <4>1, SMT DEF MappingP
    <3>6. calls \in 1 .. calls'
      BY <3>2, <3>5, SMT
    <3> QED
      BY <3>3, <3>4, <3>5, <3>6
  <2> QED
    BY <2>1, <2>2
<1> QED
  BY <1>3, <1>5, SameOperators DEF OnlyCalls, P!UnusedZero

\* RAM with zero tables satisfies CleanInv.
LEMMA InitClean == ASSUME ZeroedTables PROVE Init => CleanInv
  BY InitInv DEF Init, CleanInv, OnlyCalls, ZeroedTables

\* Each step of init_paging keeps it.
LEMMA StepClean == CleanInv /\ [Next]_vars => CleanInv'
<1> SUFFICES ASSUME CleanInv, [Next]_vars PROVE CleanInv'
  OBVIOUS
<1>1. IInv'
  BY StepInv DEF CleanInv
<1>2. phase # "clear" => MappingP
  BY SameMapping DEF CleanInv, IInv
<1>3. phase' # "clear" => MappingP'
  BY <1>1, SameMappingNext DEF IInv
<1>4. CASE ClearDirectories
  BY <1>1, <1>4, ClearOnly DEF CleanInv
<1>5. CASE CallMap
  <2>1. P!Accept(Script[calls + 1]) /\ calls < 8
    BY <1>5, Eight, SameAccept DEF CallMap
  <2>2. ~P!SetPte
    BY <2>1 DEF P!Accept, P!SetPte
  <2> QED
    BY <1>1, <1>2, <1>3, <1>5, <2>1, <2>2, StepOnly DEF CallMap, CleanInv
<1>6. CASE MapStep
  BY <1>1, <1>2, <1>3, <1>6, SameStep, StepOnly DEF MapStep, CleanInv
<1>7. CASE UNCHANGED <<mem, locals, calls>> /\ (phase' = "clear" <=> phase = "clear")
  <2>1. CASE phase = "clear"
    <3>1. phase' = "clear" /\ mem' = mem
      BY <1>7, <2>1
    <3> QED
      BY <1>1, <2>1, <3>1 DEF CleanInv, OnlyCalls
  <2>2. CASE phase # "clear"
    <3>1. UNCHANGED P!vars /\ calls' = calls /\ phase' # "clear"
      BY <1>7, <2>2 DEF P!vars, P!locals, locals
    <3> QED
      BY <1>1, <1>2, <1>3, <2>2, <3>1, StepOnly DEF CleanInv
  <2> QED
    BY <2>1, <2>2
<1> QED
  BY <1>4, <1>5, <1>6, <1>7 DEF Next, LoadDirectory, EnablePaging, vars

\* With tables that were zero at boot, only the pages of the calls are ever mapped.
THEOREM CleanTheorem == ASSUME ZeroedTables PROVE Spec => []CleanInv
  BY InitClean, StepClean, PTL DEF Spec

\* The pages present in an address space are those of its calls.
LEMMA PresentOnly ==
  ASSUME CleanInv, pg, NEW d \in Directories, NEW w \in Present(d)
  PROVE  \E i \in 1 .. 8 : d = Script[i].pgd /\ w \in PagesOf(Script[i])
<1>1. PICK i \in Entries, j \in Entries :
         w = i * E + j /\ mem[d][i].p /\ mem[mem[d][i].pfn][j].p
  BY DEF Present
<1>2. mem[d][i].pfn \in Directories \cup Tables
  BY <1>1, PagingPlaces DEF CleanInv, PagingFrames
<1>3. w \in P!Page
  <2>1. i * E + j \in 0 .. E * E - 1
    BY Scale, SMT DEF Entries
  <2> QED
    BY <1>1, <2>1, SameOperators
<1>4. P!pd32_get_idx(w) = i /\ P!pt32_get_idx(w) = j
  <2>1. i \in Nat /\ j \in 0 .. E - 1
    BY Scale, SMT DEF Entries
  <2> QED
    BY <1>1, <2>1, Quotient DEF P!pd32_get_idx, P!pt32_get_idx
<1>5. P!Pte(mem, d, w).p
  BY <1>1, <1>2, <1>4 DEF P!Pte
<1>6. P!Pte(mem, d, w) # P!Zero
  BY <1>5 DEF P!Zero
<1>7. phase # "clear" /\ calls = 8
  BY Eight DEF CleanInv, IInv
<1> QED
  BY <1>3, <1>6, <1>7, SameOnlyCalls DEF CleanInv

\* Every page of every call is present.
LEMMA PresentAll ==
  ASSUME IInv, pg, NEW i \in 1 .. 8, NEW w \in PagesOf(Script[i])
  PROVE  w \in Present(Script[i].pgd)
<1> DEFINE d == Script[i].pgd
           q == w \div E
           r == w % E
<1>1. /\ w \in P!Page /\ q \in Slots(i)
      /\ M!Pte(mem, d, w) = M!pg_set_entry(Script[i].flags, Script[i].p + (w - Script[i].v))
      /\ mem[d][q] = M!pg_set_entry(Level(d, q), PT_BASE[d] + q)
  BY Translated
<1>2. q \in Entries /\ r \in Entries /\ w = q * E + r
  <2>1. q \in Entries
    BY <1>1, SlotTables
  <2>2. r \in Entries /\ w \in Nat
    BY SlotOf
  <2>3. w = q * E + r
    BY <1>1, EHolds, FrameHolds, PgdHolds, CallsHold, ImagesHold, P!Indexes
       DEF P!pd32_get_idx, P!pt32_get_idx
  <2> QED
    BY <2>1, <2>2, <2>3
<1>3. mem[d][q].p
  BY <1>1 DEF M!pg_set_entry
<1>4. mem[mem[d][q].pfn][r].p
  <2>1. M!Pte(mem, d, w).p
    BY <1>1 DEF M!pg_set_entry
  <2>2. M!Pte(mem, d, w) = IF mem[d][q].p /\ mem[d][q].pfn \in Directories \cup Tables
                           THEN mem[mem[d][q].pfn][r] ELSE M!Zero
    BY DEF M!Pte, M!pd32_get_idx, M!pt32_get_idx
  <2>3. ~M!Zero.p
    BY DEF M!Zero
  <2> QED
    BY <2>1, <2>2, <2>3
<1> HIDE DEF q, r
<1> QED
  BY <1>2, <1>3, <1>4 DEF Present

\* The pages of a task that ring 3 reaches, and the frames it reaches them at
LEMMA User1 ==
  ASSUME CleanInv, pg
  PROVE  /\ \A w : w \in UserPages(PGD_ADDR_PROCESS1) <=>
                       w \in 4 * MB .. 5 * MB - 1 \/ w = 6 * MB
         /\ \A w \in UserPages(PGD_ADDR_PROCESS1) :
                M!Walk(mem, PGD_ADDR_PROCESS1, w).pfn = w
<1> DEFINE d == PGD_ADDR_PROCESS1
<1>0. d \in Directories /\ d # PGD_ADDR_KERNEL /\ d # PGD_ADDR_PROCESS2
  BY Places, Scale, SMT DEF Tasks
<1>1. ASSUME NEW w \in Present(d)
      PROVE  \E i \in {3, 5, 7} : d = Script[i].pgd /\ w \in PagesOf(Script[i])
  <2>1. PICK i \in 1 .. 8 : d = Script[i].pgd /\ w \in PagesOf(Script[i])
    BY <1>0, PresentOnly
  <2>2. i \in {3, 5, 7}
    BY <1>0, <2>1, WhichCall, KernelCall, TablesCall, TaskCalls, SharedCalls, StackCalls
  <2> QED
    BY <2>1, <2>2
<1>2. ASSUME NEW i \in {3, 5, 7}, NEW w \in PagesOf(Script[i])
      PROVE  /\ w \in Present(d)
             /\ M!Walk(mem, d, w).usr = Script[i].flags.usr
             /\ M!Walk(mem, d, w).pfn = Script[i].p + (w - Script[i].v)
  <2>1. i \in 1 .. 8 /\ Script[i].pgd = d
    BY Eight, TaskCalls, SharedCalls, StackCalls, SMT
  <2>2. M!Walk(mem, d, w)
            = M!pg_set_entry(Script[i].flags, Script[i].p + (w - Script[i].v))
    BY <2>1, WalkOf DEF CleanInv
  <2> QED
    BY <2>1, <2>2, PresentAll DEF CleanInv, M!pg_set_entry
<1>3. USR_RW.usr = TRUE /\ KRN_RW.usr = FALSE
  BY DEF USR_RW, KRN_RW
<1>4. /\ Script[3].flags = USR_RW /\ Script[3].p = 4 * MB /\ Script[3].v = 4 * MB
      /\ Script[5].flags = USR_RW /\ Script[5].p = 6 * MB /\ Script[5].v = 6 * MB
      /\ Script[7].flags = KRN_RW
  BY Eight, TaskCalls, SharedCalls, StackCalls
<1>5. /\ PagesOf(Script[3]) = 4 * MB .. 5 * MB - 1
      /\ \A w : w \in PagesOf(Script[5]) <=> w = 6 * MB
  BY Eight, TaskCalls, SharedCalls, Scale, SMT DEF PagesOf
<1>6. ASSUME NEW w \in UserPages(d)
      PROVE  (w \in 4 * MB .. 5 * MB - 1 \/ w = 6 * MB) /\ M!Walk(mem, d, w).pfn = w
  <2>1. w \in Present(d) /\ M!Walk(mem, d, w).usr
    BY <1>6 DEF UserPages
  <2>2. w \in PagesOf(Script[3]) \/ w \in PagesOf(Script[5])
    BY <1>1, <1>2, <1>3, <1>4, <2>1
  <2>3. w \in Int
    BY <1>5, <2>2, Scale, SMT
  <2>4. M!Walk(mem, d, w).pfn = w
    BY <1>2, <1>4, <2>2, <2>3, Scale, SMT
  <2> QED
    BY <1>5, <2>2, <2>4
<1>7. ASSUME NEW w, w \in 4 * MB .. 5 * MB - 1 \/ w = 6 * MB
      PROVE  w \in UserPages(d)
  BY <1>2, <1>3, <1>4, <1>5, <1>7 DEF UserPages
<1> QED
  BY <1>6, <1>7

\* Those of the other task
LEMMA User2 ==
  ASSUME CleanInv, pg
  PROVE  /\ \A w : w \in UserPages(PGD_ADDR_PROCESS2) <=>
                       w \in 5 * MB .. 6 * MB - 1 \/ w = 7 * MB
         /\ \A w \in UserPages(PGD_ADDR_PROCESS2) :
                M!Walk(mem, PGD_ADDR_PROCESS2, w).pfn = IF w = 7 * MB THEN 6 * MB ELSE w
<1> DEFINE d == PGD_ADDR_PROCESS2
<1>0. d \in Directories /\ d # PGD_ADDR_KERNEL /\ d # PGD_ADDR_PROCESS1
  BY Places, Scale, SMT DEF Tasks
<1>1. ASSUME NEW w \in Present(d)
      PROVE  \E i \in {4, 6, 8} : d = Script[i].pgd /\ w \in PagesOf(Script[i])
  <2>1. PICK i \in 1 .. 8 : d = Script[i].pgd /\ w \in PagesOf(Script[i])
    BY <1>0, PresentOnly
  <2>2. i \in {4, 6, 8}
    BY <1>0, <2>1, WhichCall, KernelCall, TablesCall, TaskCalls, SharedCalls, StackCalls
  <2> QED
    BY <2>1, <2>2
<1>2. ASSUME NEW i \in {4, 6, 8}, NEW w \in PagesOf(Script[i])
      PROVE  /\ w \in Present(d)
             /\ M!Walk(mem, d, w).usr = Script[i].flags.usr
             /\ M!Walk(mem, d, w).pfn = Script[i].p + (w - Script[i].v)
  <2>1. i \in 1 .. 8 /\ Script[i].pgd = d
    BY Eight, TaskCalls, SharedCalls, StackCalls, SMT
  <2>2. M!Walk(mem, d, w)
            = M!pg_set_entry(Script[i].flags, Script[i].p + (w - Script[i].v))
    BY <2>1, WalkOf DEF CleanInv
  <2> QED
    BY <2>1, <2>2, PresentAll DEF CleanInv, M!pg_set_entry
<1>3. USR_RW.usr = TRUE /\ USR_RO.usr = TRUE /\ KRN_RW.usr = FALSE
  BY DEF USR_RW, USR_RO, KRN_RW
<1>4. /\ Script[4].flags = USR_RW /\ Script[4].p = 5 * MB /\ Script[4].v = 5 * MB
      /\ Script[6].flags = USR_RO /\ Script[6].p = 6 * MB /\ Script[6].v = 7 * MB
      /\ Script[8].flags = KRN_RW
  BY Eight, TaskCalls, SharedCalls, StackCalls
<1>5. /\ PagesOf(Script[4]) = 5 * MB .. 6 * MB - 1
      /\ \A w : w \in PagesOf(Script[6]) <=> w = 7 * MB
  BY Eight, TaskCalls, SharedCalls, Scale, SMT DEF PagesOf
<1>6. ASSUME NEW w \in UserPages(d)
      PROVE  /\ w \in 5 * MB .. 6 * MB - 1 \/ w = 7 * MB
             /\ M!Walk(mem, d, w).pfn = IF w = 7 * MB THEN 6 * MB ELSE w
  <2>1. w \in Present(d) /\ M!Walk(mem, d, w).usr
    BY <1>6 DEF UserPages
  <2>2. w \in PagesOf(Script[4]) \/ w \in PagesOf(Script[6])
    BY <1>1, <1>2, <1>3, <1>4, <2>1
  <2>3. w \in Int
    BY <1>5, <2>2, Scale, SMT
  <2>4. M!Walk(mem, d, w).pfn = IF w = 7 * MB THEN 6 * MB ELSE w
    BY <1>2, <1>4, <1>5, <2>2, <2>3, Scale, SMT
  <2> QED
    BY <1>5, <2>2, <2>4
<1>7. ASSUME NEW w, w \in 5 * MB .. 6 * MB - 1 \/ w = 7 * MB
      PROVE  w \in UserPages(d)
  BY <1>2, <1>3, <1>4, <1>5, <1>7 DEF UserPages
<1> QED
  BY <1>6, <1>7

-----------------------------------------------------------------------------
(* The address spaces of the tasks *)

\* TasksIsolated follows from the invariant.
LEMMA Isolated == CleanInv => TasksIsolated
<1> SUFFICES ASSUME CleanInv, pg
             PROVE  /\ \A d \in Tasks :
                           UserFrames(d) \cap (KernelFrames \cup PagingFrames) = {}
                    /\ UserFrames(PGD_ADDR_PROCESS1) \cap UserFrames(PGD_ADDR_PROCESS2)
                          \subseteq {SharedFrame}
  BY DEF TasksIsolated
<1>1. \A f \in UserFrames(PGD_ADDR_PROCESS1) : f \in 4 * MB .. 5 * MB - 1 \/ f = 6 * MB
  BY User1 DEF UserFrames
<1>2. \A f \in UserFrames(PGD_ADDR_PROCESS2) : f \in 5 * MB .. 6 * MB - 1 \/ f = 6 * MB
  BY User2 DEF UserFrames
<1>3. \A f \in KernelFrames \cup PagingFrames : f < 4 * MB \/ f >= 16 * MB
  BY PagingPlaces, Paging, Scale, SMT DEF KernelFrames, CleanInv
<1>4. ASSUME NEW d \in Tasks, NEW f \in UserFrames(d)
      PROVE  f \notin KernelFrames \cup PagingFrames
  <2>1. f \in Nat /\ 4 * MB <= f /\ f < 7 * MB
    BY <1>1, <1>2, Scale, SMT DEF Tasks
  <2> QED
    BY <1>3, <2>1, Scale, SMT
<1>5. ASSUME NEW f \in UserFrames(PGD_ADDR_PROCESS1) \cap UserFrames(PGD_ADDR_PROCESS2)
      PROVE  f = SharedFrame
  BY <1>1, <1>2, Scale, SMT DEF SharedFrame
<1> QED
  BY <1>4, <1>5

\* Ring 3 reaches neither the kernel's memory nor a directory or a table, and the tasks
\* have no frame in common but the shared one.
THEOREM TasksAreIsolated == ASSUME ZeroedTables PROVE Spec => []TasksIsolated
  BY Isolated, CleanTheorem, PTL

\* OnePageShared does.
LEMMA OneShared == CleanInv => OnePageShared
<1> DEFINE d1 == PGD_ADDR_PROCESS1
           d2 == PGD_ADDR_PROCESS2
           shared == UserFrames(d1) \cap UserFrames(d2)
           at(d) == {w \in UserPages(d) : M!Walk(mem, d, w).pfn \in shared}
<1> SUFFICES ASSUME CleanInv, pg
             PROVE  (\A d \in Tasks : Cardinality(at(d)) = 1) /\ at(d1) # at(d2)
  BY DEF OnePageShared
<1>1. \A f \in shared : f = 6 * MB
  BY Isolated DEF TasksIsolated, SharedFrame
<1>2. 6 * MB \in UserPages(d1) /\ M!Walk(mem, d1, 6 * MB).pfn = 6 * MB
  BY User1
<1>3. 7 * MB \in UserPages(d2) /\ M!Walk(mem, d2, 7 * MB).pfn = 6 * MB
  BY User2
<1>4. 6 * MB \in shared
  BY <1>2, <1>3 DEF UserFrames
<1>5. at(d1) = {6 * MB}
  <2>1. ASSUME NEW w \in at(d1) PROVE w = 6 * MB
    BY <1>1, User1
  <2> QED
    BY <1>2, <1>4, <2>1
<1>6. at(d2) = {7 * MB}
  <2>1. ASSUME NEW w \in at(d2) PROVE w = 7 * MB
    <3>1. w \in UserPages(d2) /\ M!Walk(mem, d2, w).pfn = 6 * MB
      BY <1>1
    <3>2. w \in 5 * MB .. 6 * MB - 1 \/ w = 7 * MB
      BY <3>1, User2
    <3>3. w # 7 * MB => w = 6 * MB
      BY <3>1, User2
    <3> QED
      BY <3>2, <3>3, Scale, SMT
  <2> QED
    BY <1>3, <1>4, <2>1
<1>7. Cardinality({6 * MB}) = 1 /\ Cardinality({7 * MB}) = 1
  BY FS_Singleton
<1>8. 6 * MB # 7 * MB
  BY Scale, SMT
<1> HIDE DEF at
<1> QED
  BY <1>5, <1>6, <1>7, <1>8 DEF Tasks

\* One page of each task, at different addresses, reaches a frame of the other.
THEOREM OneIsShared == ASSUME ZeroedTables PROVE Spec => []OnePageShared
  BY OneShared, CleanTheorem, PTL

\* The pages of the calls are what a task finds in its address space.
LEMMA TaskPages ==
  ASSUME CleanInv, pg, NEW d \in Tasks, NEW w \in Present(d)
  PROVE  \E i \in 3 .. 8 :
            /\ d = Script[i].pgd /\ w \in PagesOf(Script[i])
            /\ M!Walk(mem, d, w) = M!pg_set_entry(Script[i].flags, Script[i].p + (w - Script[i].v))
            /\ M!Walk(mem, d, w).pfn = Script[i].p + (w - Script[i].v)
<1>1. d \in Directories /\ d # PGD_ADDR_KERNEL
  BY Places
<1>2. PICK i \in 1 .. 8 : d = Script[i].pgd /\ w \in PagesOf(Script[i])
  BY <1>1, PresentOnly
<1>3. i \in 3 .. 8
  BY <1>1, <1>2, WhichCall, KernelCall, TablesCall, SMT
<1>4. M!Walk(mem, d, w) = M!pg_set_entry(Script[i].flags, Script[i].p + (w - Script[i].v))
  BY <1>2, WalkOf DEF CleanInv
<1>5. M!Walk(mem, d, w).pfn = Script[i].p + (w - Script[i].v)
  BY <1>4 DEF M!pg_set_entry
<1> QED
  BY <1>2, <1>3, <1>4, <1>5

\* The page at 0xC0000000 of a task, and the frames below 4 MB that tasks reach
LEMMA KernelStack ==
  ASSUME CleanInv, pg, NEW d \in Tasks
  PROVE  M!Walk(mem, d, VIRTUAL_KERNEL_STACK)
             = M!pg_set_entry(KRN_RW, IF d = PGD_ADDR_PROCESS1 THEN 2 * MB ELSE 2 * MB + 1)
<1>1. PGD_ADDR_PROCESS1 # PGD_ADDR_PROCESS2
  BY Places, Scale, SMT
<1>2. CASE d = PGD_ADDR_PROCESS1
  <2>1. /\ VIRTUAL_KERNEL_STACK \in PagesOf(Script[7]) /\ Script[7].pgd = d
        /\ Script[7].flags = KRN_RW
        /\ Script[7].p + (VIRTUAL_KERNEL_STACK - Script[7].v) = 2 * MB
    BY <1>2, Eight, StackCalls, Room, Scale, SMT DEF PagesOf
  <2>2. M!Walk(mem, d, VIRTUAL_KERNEL_STACK) = M!pg_set_entry(KRN_RW, 2 * MB)
    BY <2>1, WalkOf DEF CleanInv
  <2> QED
    BY <1>2, <2>2
<1>3. CASE d = PGD_ADDR_PROCESS2
  <2>1. /\ VIRTUAL_KERNEL_STACK \in PagesOf(Script[8]) /\ Script[8].pgd = d
        /\ Script[8].flags = KRN_RW
        /\ Script[8].p + (VIRTUAL_KERNEL_STACK - Script[8].v) = 2 * MB + 1
    BY <1>3, Eight, StackCalls, Room, Scale, SMT DEF PagesOf
  <2>2. M!Walk(mem, d, VIRTUAL_KERNEL_STACK) = M!pg_set_entry(KRN_RW, 2 * MB + 1)
    BY <2>1, WalkOf DEF CleanInv
  <2> QED
    BY <1>1, <1>3, <2>2
<1> QED
  BY <1>2, <1>3 DEF Tasks

\* OwnStacks does.
LEMMA Stacked == CleanInv => OwnStacks
<1> SUFFICES ASSUME CleanInv, pg, NEW d \in Tasks
             PROVE  OwnKernelStack(d) /\ OwnUserStack(d)
  BY DEF OwnStacks
<1>0. PGD_ADDR_PROCESS1 # PGD_ADDR_PROCESS2
  BY Places, Scale, SMT
<1>1. OwnKernelStack(d)
  <2> DEFINE stack == M!Walk(mem, d, VIRTUAL_KERNEL_STACK)
             own(e) == IF e = PGD_ADDR_PROCESS1 THEN 2 * MB ELSE 2 * MB + 1
  <2>1. stack.p /\ stack.rw /\ ~stack.usr /\ stack.pfn = own(d)
    BY KernelStack DEF M!pg_set_entry, KRN_RW
  <2>2. ASSUME NEW e \in Tasks, NEW w \in Present(e), M!Walk(mem, e, w).pfn = own(d)
        PROVE  e = d /\ w = VIRTUAL_KERNEL_STACK
    <3>1. PICK i \in 3 .. 8 :
             /\ e = Script[i].pgd /\ w \in PagesOf(Script[i])
             /\ M!Walk(mem, e, w).pfn = Script[i].p + (w - Script[i].v)
      BY TaskPages
    <3>2. own(d) < 4 * MB
      BY Scale, SMT
    <3>3. CASE i \in 3 .. 6
      <4>1. Script[i].p >= 4 * MB /\ Script[i].p \in Nat /\ Script[i].v \in Nat
        BY <3>3, WhichCall, TaskCalls, SharedCalls, Scale, SMT
      <4>2. w \in Int /\ w >= Script[i].v
        BY <3>1, <3>3, SlotOf, SMT DEF PagesOf
      <4>3. Script[i].p + (w - Script[i].v) = own(d)
        BY <2>2, <3>1
      <4> HIDE DEF own
      <4> QED
        BY <3>2, <4>1, <4>2, <4>3, Scale, SMT
    <3>4. CASE i \in 7 .. 8
      <4>1. w = VIRTUAL_KERNEL_STACK
        BY <3>1, <3>4, WhichCall, StackCalls, Room, SMT DEF PagesOf
      <4>2. own(e) = own(d)
        BY <2>2, <4>1, KernelStack DEF M!pg_set_entry
      <4>3. e = d
        BY <1>0, <4>2, Scale, SMT DEF Tasks
      <4> QED
        BY <4>1, <4>3
    <3> QED
      BY <3>3, <3>4, SMT
  <2> HIDE DEF own
  <2> QED
    BY <2>1, <2>2 DEF OwnKernelStack
<1>2. OwnUserStack(d)
  <2> DEFINE i == IF d = PGD_ADDR_PROCESS1 THEN 3 ELSE 4
  <2>1. /\ i \in 1 .. 8 /\ Script[i].pgd = d /\ Script[i].flags = USR_RW
        /\ Stack(d) \in PagesOf(Script[i])
        /\ Script[i].p + (Stack(d) - Script[i].v) = Stack(d)
    <3>1. CASE d = PGD_ADDR_PROCESS1
      BY <3>1, Eight, TaskCalls, Scale, SMT DEF PagesOf, Stack, PROCESS1_STACK_ADDR
    <3>2. CASE d = PGD_ADDR_PROCESS2
      BY <1>0, <3>2, Eight, TaskCalls, Scale, SMT DEF PagesOf, Stack, PROCESS2_STACK_ADDR
    <3> QED
      BY <3>1, <3>2 DEF Tasks
  <2>2. M!Walk(mem, d, Stack(d)) = M!pg_set_entry(USR_RW, Stack(d))
    BY <2>1, WalkOf DEF CleanInv
  <2>3. ASSUME NEW e \in Tasks \ {d} PROVE Stack(d) \notin UserFrames(e)
    <3>1. CASE d = PGD_ADDR_PROCESS1
      <4>1. e = PGD_ADDR_PROCESS2 /\ Stack(d) = 5 * MB - 1
        BY <3>1 DEF Tasks, Stack, PROCESS1_STACK_ADDR
      <4>2. \A f \in UserFrames(e) : f \in 5 * MB .. 6 * MB - 1 \/ f = 6 * MB
        BY <4>1, User2 DEF UserFrames
      <4> QED
        BY <4>1, <4>2, Scale, SMT
    <3>2. CASE d = PGD_ADDR_PROCESS2
      <4>1. e = PGD_ADDR_PROCESS1 /\ Stack(d) = 6 * MB - 1
        BY <1>0, <3>2 DEF Tasks, Stack, PROCESS2_STACK_ADDR
      <4>2. \A f \in UserFrames(e) : f \in 4 * MB .. 5 * MB - 1 \/ f = 6 * MB
        BY <4>1, User1 DEF UserFrames
      <4> QED
        BY <4>1, <4>2, Scale, SMT
    <3> QED
      BY <3>1, <3>2 DEF Tasks
  <2> QED
    BY <2>2, <2>3 DEF OwnUserStack, M!pg_set_entry, USR_RW
<1> QED
  BY <1>1, <1>2

\* Each task has its kernel stack at 0xC0000000, for ring 0 only and reached through no
\* other page, and a stack of ring 3 that the other task does not reach.
THEOREM StacksAreOwn == ASSUME ZeroedTables PROVE Spec => []OwnStacks
  BY Stacked, CleanTheorem, PTL
=============================================================================
