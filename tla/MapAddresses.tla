---------------------------- MODULE MapAddresses ----------------------------
(***************************************************************************)
(* map_addresses of tp_exam/src/pagination.c: installs the translation of  *)
(* a range of pages in a page directory, allocating tables as it goes.     *)
(* One action per step of its two nested loops; a caller makes one call    *)
(* after another.  Paging is off while it runs, so that it reads and       *)
(* writes physical memory.                                                 *)
(***************************************************************************)
EXTENDS PageTables

CONSTANTS
    Pgd,     \* the frames of the page directories
    Base,    \* ptb_addr_base of each directory: its table i is Base + i
    Calls,   \* the calls the caller may make
    Images   \* what RAM may hold before the first call

\* The last page of a range, in 32-bit arithmetic: v_start + size - 1
LastPage(v, size) == (v + size - 1) % NPAGES

\* pgd_start_idx .. pgd_end_idx of a call
PgdRange(c) == pd32_get_idx(c.v) .. pd32_get_idx(LastPage(c.v, c.size))

Call == [pgd : Pgd, ptb : Page, v : Page, p : Page, size : Page,
         flags : Flags, aligned : BOOLEAN]

\* The caller zeroes its directories (the memset of init_paging) and passes
\* one table area per directory; the areas and the directories are disjoint.
ASSUME PgdAssumption ==
    /\ Pgd \subseteq Frame
    /\ Base \in [Pgd -> Page]
    /\ \A d, e \in Pgd, i \in Index : e # Base[d] + i
    /\ \A d, e \in Pgd : d # e => \/ Base[d] + E <= Base[e]
                                  \/ Base[e] + E <= Base[d]

ASSUME CallsAssumption ==
    /\ Calls \subseteq Call
    /\ \A c \in Calls : /\ c.ptb = Base[c.pgd]
                        /\ \A i \in PgdRange(c) : c.ptb + i \in Frame

ASSUME ImagesAssumption ==
    /\ Images \subseteq Memory
    /\ \A m \in Images : \A d \in Pgd, i \in Index : m[d][i] = Zero

NoCall == [size |-> 0, aligned |-> FALSE]

VARIABLES
    mem,     \* the frames that hold directories and tables
    pc,      \* "idle": no call; "pgd", "pte": at the head of that loop
    req,     \* the call as it was made (NoCall before the first)
    v, p,    \* v_start and p_start, which the function changes as it goes
    gi,      \* pgd_idx
    glast,   \* pgd_end_idx
    pt,      \* pte: the frame of the table in use
    ti,      \* pte_idx
    tlast    \* pte_end_idx

locals == <<v, p, gi, glast, pt, ti, tlast>>
vars == <<mem, pc, req, locals>>

pgd_start_idx == pd32_get_idx(req.v)

Init ==
    /\ mem \in Images
    /\ pc = "idle" /\ req = NoCall
    /\ v = 0 /\ p = 0 /\ gi = 0 /\ glast = 0 /\ pt = 0 /\ ti = 0 /\ tlast = 0

\* An argument that is not page-aligned: report and return
Reject(c) ==
    /\ pc = "idle"
    /\ ~c.aligned
    /\ req' = c
    /\ UNCHANGED <<mem, pc, locals>>

\* Steps 1 to 3: the range of directory entries, and the loop's first index
Accept(c) ==
    /\ pc = "idle"
    /\ c.aligned
    /\ pc' = "pgd" /\ req' = c
    /\ v' = c.v /\ p' = c.p
    /\ gi' = pd32_get_idx(c.v)
    /\ glast' = pd32_get_idx(LastPage(c.v, c.size))
    /\ UNCHANGED <<mem, pt, ti, tlast>>

\* pte_base: the table reserved for the directory entry.
\* (A definition whose name starts with Bad is a faulty variant of the one that
\* follows, a bug the properties must notice.)
BadTable == req.ptb
pte_base == req.ptb + gi

\* pte_start_idx, pte_end_idx: computed from v_start as the loop left it
BadFirstIndex == 0
FirstIndex == IF gi = pgd_start_idx THEN pt32_get_idx(v) ELSE 0

BadLastIndex == IF gi = glast THEN pt32_get_idx(LastPage(v, req.size)) ELSE E
LastIndex == IF gi = glast THEN pt32_get_idx(LastPage(v, req.size)) ELSE E - 1

\* Step 4: the directory entry, allocated when its word is 0.  The table it
\* points to is not cleared.
Directory(pde) ==
    /\ pc = "pgd" /\ gi <= glast
    /\ mem' = [mem EXCEPT ![req.pgd][gi] = pde]
    /\ pt' = pde.pfn
    /\ ti' = FirstIndex
    /\ tlast' = LastIndex
    /\ pc' = "pte"
    /\ UNCHANGED <<req, v, p, gi, glast>>

AllocTable ==
    /\ pc = "pgd" /\ gi <= glast /\ mem[req.pgd][gi] = Zero
    /\ Directory(pg_set_entry(req.flags, pte_base))

ReuseTable ==
    /\ pc = "pgd" /\ gi <= glast /\ mem[req.pgd][gi] # Zero
    /\ Directory(mem[req.pgd][gi])

\* The condition of the loop on the table's entries, and the frame after p_start
BadMoreEntries == ti < tlast
MoreEntries == ti <= tlast

BadNextFrame == p
NextFrame == (p + 1) % NPAGES

\* Step 5: one turn of that loop
SetPte ==
    /\ pc = "pte" /\ MoreEntries
    /\ mem' = [mem EXCEPT ![pt][ti] = pg_set_entry(req.flags, p)]
    /\ p' = NextFrame
    /\ ti' = ti + 1
    /\ UNCHANGED <<pc, req, v, gi, glast, pt, tlast>>

\* pgd_idx++
BadNextDirectory == gi
NextDirectory == gi + 1

\* The end of that loop: v_start moves to the next directory entry
NextTable ==
    /\ pc = "pte" /\ ~MoreEntries
    /\ v' = ((gi + 1) * E) % NPAGES
    /\ gi' = NextDirectory
    /\ pc' = "pgd"
    /\ UNCHANGED <<mem, req, p, glast, pt, ti, tlast>>

Return ==
    /\ pc = "pgd" /\ gi > glast
    /\ pc' = "idle"
    /\ UNCHANGED <<mem, req, locals>>

\* The steps of a call under way
Step == AllocTable \/ ReuseTable \/ SetPte \/ NextTable \/ Return

Next == (\E c \in Calls : Reject(c) \/ Accept(c)) \/ Step

Spec == Init /\ [][Next]_vars

\* One thread runs the function, interrupts are off: it never stops halfway
FairSpec == Spec /\ WF_vars(Step)

-----------------------------------------------------------------------------
(* Properties *)

\* The values the variables range over, in every state: every index the
\* loops use stays inside the directory, the table and physical memory.
TypeOK ==
    /\ mem \in Memory
    /\ pc \in {"idle", "pgd", "pte"}
    /\ req \in Calls \cup {NoCall}
    /\ v \in Page /\ p \in Page
    /\ gi \in 0 .. E /\ glast \in Index
    /\ pt \in Frame \cup {0}
    /\ ti \in 0 .. E /\ tlast \in Index
    /\ pc # "idle" => req \in Calls
    /\ pc = "pte" => pt \in Frame /\ gi \in Index

\* A directory entry is 0 or present and points to the table reserved for
\* its directory and its index: no two entries of any two directories ever
\* share a table, and no table is a directory.
TablesPrivate ==
    \A d \in Pgd, i \in Index :
        mem[d][i] # Zero => /\ mem[d][i].p
                            /\ mem[d][i].pfn = Base[d] + i
                            /\ mem[d][i].pfn \in Frame

\* The calls whose range map_addresses covers exactly: it does not reach past
\* the end of memory, is not the empty range at address 0, and lies in one
\* directory entry or starts on a boundary of one (4 MB).
Covered(c) ==
    /\ c.aligned
    /\ c.v + c.size \in 1 .. NPAGES
    /\ c.p + c.size <= NPAGES
    /\ \/ pt32_get_idx(c.v) = 0
       \/ pd32_get_idx(c.v) = pd32_get_idx(c.v + c.size - 1)
       \/ c.size = 0

\* When such a call returns, each page of its range translates to the frame
\* asked for with the attributes asked for, whatever the tables held before.
RequestServed ==
    pc = "idle" /\ req # NoCall /\ Covered(req) =>
        \A w \in req.v .. req.v + req.size - 1 :
            Pte(mem, req.pgd, w) = pg_set_entry(req.flags, req.p + (w - req.v))

\* The comments of the function (Steps 2 and 5) promise the pages of the
\* range: the number of entries written, seen in p_start, is num_pages.
PagesCounted ==
    pc = "idle" /\ req # NoCall /\ req.aligned /\ req.v + req.size <= NPAGES =>
        p = (req.p + req.size) % NPAGES

\* No step changes the translation of a page outside the range of the call
\* under way, in its own directory or in another one.
OthersUntouched ==
    [][\A d \in Pgd, w \in Page :
          Pte(mem', d, w) # Pte(mem, d, w) =>
              /\ d = req.pgd
              /\ w \in req.v .. req.v + req.size - 1]_vars

\* Every call returns.
CallReturns == pc # "idle" ~> pc = "idle"

-----------------------------------------------------------------------------
(* The inductive strengthening of the invariants above *)

\* In a call, the loops run over the directory entries of its range, and the
\* table in use is the one reserved for the current entry.
InRange ==
    pc # "idle" =>
        /\ req.aligned
        /\ glast = pd32_get_idx(LastPage(req.v, req.size))
        /\ gi >= pgd_start_idx
        /\ pc = "pte" => /\ gi <= glast
                         /\ mem[req.pgd][gi] # Zero
                         /\ pt = Base[req.pgd] + gi

IInv == TypeOK /\ TablesPrivate /\ InRange

\* The page the loops have reached: all before it in the range are written
Reached ==
    CASE pc = "pte" -> gi * E + ti
      [] pc # "pte" /\ gi = pgd_start_idx -> req.v
      [] pc # "pte" /\ gi # pgd_start_idx /\ gi > glast -> req.v + req.size
      [] OTHER -> gi * E

\* In a Covered call the loops advance page by page: p_start keeps pace with
\* the page reached, the bounds of the inner loop meet the end of the range
\* or of the table, and the pages passed are in place.
Serving ==
    pc # "idle" /\ Covered(req) =>
        /\ Reached \in req.v .. req.v + req.size
        /\ p = (req.p + (Reached - req.v)) % NPAGES
        /\ pc = "pgd" => v = IF gi = pgd_start_idx THEN req.v
                                                   ELSE (gi * E) % NPAGES
        /\ pc = "pte" => /\ ti <= tlast + 1
                         /\ gi * E + tlast + 1 = IF gi = glast
                                                 THEN req.v + req.size
                                                 ELSE (gi + 1) * E
        /\ \A w \in req.v .. Reached - 1 :
               Pte(mem, req.pgd, w) = pg_set_entry(req.flags, req.p + (w - req.v))

ServedInv == IInv /\ Serving /\ RequestServed
=============================================================================
