----------------------------- MODULE InitPaging -----------------------------
(***************************************************************************)
(* init_paging of tp_exam/tp.c: clears three page directories, makes eight *)
(* calls of map_addresses at the addresses of the real layout, loads the   *)
(* kernel's directory and turns paging on.  Composes MapAddresses.         *)
(*                                                                         *)
(* Addresses are page numbers, written in megabytes: with the 1024 entries *)
(* of a real table a table covers 4 MB, 0x400000 is page 4 * MB = 1024,    *)
(* and the layout below is the code's.  With a smaller E it is the same    *)
(* layout at a smaller scale, where only the pages stay pages.             *)
(***************************************************************************)
EXTENDS Naturals, Sequences, FiniteSets

CONSTANTS
    E,      \* ENTRIES_PER_PTE, a multiple of 4
    RAM     \* what the directories and tables may hold at boot

\* A table has 1024 entries.  The layout below makes sense from 8 entries on, where the
\* tables of the kernel's 4 entries that map 16 to 32 MB end before task 1's directory.
ASSUME SizeAssumption == E \in Nat /\ E % 4 = 0 /\ E >= 8

VARIABLES
    mem, pc, req, v, p, gi, glast, pt, ti, tlast,   \* of map_addresses
    phase,      \* "clear", "map", "cr3", then "done"
    calls,      \* the calls made
    cr3,        \* the directory in use
    pg          \* CR0.PG

MB == E \div 4          \* the pages of a megabyte

PGD_ADDR_KERNEL   == 16 * MB    \* 0x1000000
PGD_ADDR_PROCESS1 == 21 * MB    \* 0x1500000
PGD_ADDR_PROCESS2 == 26 * MB    \* 0x1a00000
Entries == 0 .. E - 1
Directories == {PGD_ADDR_KERNEL, PGD_ADDR_PROCESS1, PGD_ADDR_PROCESS2}
PT_BASE == [d \in Directories |-> d + 1]

VIRTUAL_KERNEL_STACK == 3 * E * MB      \* 0xC0000000

\* The pages of the last bytes of the tasks' stacks, 0x4fffff and 0x5fffff
PROCESS1_STACK_ADDR == 5 * MB - 1
PROCESS2_STACK_ADDR == 6 * MB - 1

KRN_RW == [rw |-> TRUE, usr |-> FALSE]
USR_RW == [rw |-> TRUE, usr |-> TRUE]
USR_RO == [rw |-> FALSE, usr |-> TRUE]

Map(d, from, to, pages, attr) ==
    [pgd |-> d, ptb |-> PT_BASE[d], v |-> from, p |-> to, size |-> pages,
     flags |-> attr, aligned |-> TRUE]

\* The eight calls, in order.  (A definition whose name starts with Bad is a
\* faulty variant of the one that follows, a bug the properties must notice.)
MapKernel == Map(PGD_ADDR_KERNEL, 0, 0, 4 * MB, KRN_RW)

BadMapTables == Map(PGD_ADDR_KERNEL, 16 * MB, 16 * MB, 8 * MB, KRN_RW)
MapTables == Map(PGD_ADDR_KERNEL, 16 * MB, 16 * MB, 16 * MB, KRN_RW)

BadMapTask1 == Map(PGD_ADDR_PROCESS1, 4 * MB, 4 * MB, 2 * MB, USR_RW)
BadLevelTask1 == Map(PGD_ADDR_PROCESS1, 4 * MB, 4 * MB, MB, KRN_RW)
MapTask1 == Map(PGD_ADDR_PROCESS1, 4 * MB, 4 * MB, MB, USR_RW)
MapTask2 == Map(PGD_ADDR_PROCESS2, 5 * MB, 5 * MB, MB, USR_RW)

BadMapShared2 == Map(PGD_ADDR_PROCESS2, 6 * MB, 6 * MB, 1, USR_RO)
MapShared1 == Map(PGD_ADDR_PROCESS1, 6 * MB, 6 * MB, 1, USR_RW)
MapShared2 == Map(PGD_ADDR_PROCESS2, 7 * MB, 6 * MB, 1, USR_RO)

BadMapStack2 == Map(PGD_ADDR_PROCESS2, VIRTUAL_KERNEL_STACK, 2 * MB, 1, KRN_RW)
MapStack1 == Map(PGD_ADDR_PROCESS1, VIRTUAL_KERNEL_STACK, 2 * MB, 1, KRN_RW)
MapStack2 == Map(PGD_ADDR_PROCESS2, VIRTUAL_KERNEL_STACK, 2 * MB + 1, 1, KRN_RW)

Script == << MapKernel, MapTables, MapTask1, MapTask2,
             MapShared1, MapShared2, MapStack1, MapStack2 >>

\* The tables those calls allocate
Tables ==
    {PT_BASE[PGD_ADDR_KERNEL] + i : i \in {0} \cup 4 .. 7} \cup
    {PT_BASE[d] + i : d \in {PGD_ADDR_PROCESS1, PGD_ADDR_PROCESS2}, i \in {1, 3 * MB}}

M == INSTANCE MapAddresses WITH
        E <- E, Frame <- Directories \cup Tables, Pgd <- Directories,
        Base <- PT_BASE, Calls <- {Script[i] : i \in 1 .. Len(Script)},
        Images <- {}

ASSUME RAMAssumption == RAM \subseteq M!Memory

locals == <<pc, req, v, p, gi, glast, pt, ti, tlast>>
vars == <<mem, locals, phase, calls, cr3, pg>>

Init ==
    /\ mem \in RAM
    /\ pc = "idle" /\ req = M!NoCall
    /\ v = 0 /\ p = 0 /\ gi = 0 /\ glast = 0 /\ pt = 0 /\ ti = 0 /\ tlast = 0
    /\ phase = "clear" /\ calls = 0
    /\ cr3 = 0 /\ pg = FALSE

\* memset of the three directories
ClearDirectories ==
    /\ phase = "clear"
    /\ mem' = [f \in DOMAIN mem |->
                  IF f \in Directories THEN [i \in Entries |-> M!Zero] ELSE mem[f]]
    /\ phase' = "map"
    /\ UNCHANGED <<locals, calls, cr3, pg>>

\* The next call of map_addresses
CallMap ==
    /\ phase = "map" /\ calls < Len(Script)
    /\ M!Accept(Script[calls + 1])
    /\ calls' = calls + 1
    /\ UNCHANGED <<phase, cr3, pg>>

MapStep ==
    /\ phase = "map"
    /\ M!Step
    /\ UNCHANGED <<phase, calls, cr3, pg>>

\* The last call has returned: set_cr3(pgd_kernel)
LoadDirectory ==
    /\ phase = "map" /\ calls = Len(Script) /\ pc = "idle"
    /\ cr3' = PGD_ADDR_KERNEL
    /\ phase' = "cr3"
    /\ UNCHANGED <<mem, locals, calls, pg>>

\* set_cr0(cr0 | CR0_PG)
EnablePaging ==
    /\ phase = "cr3"
    /\ pg' = TRUE
    /\ phase' = "done"
    /\ UNCHANGED <<mem, locals, calls, cr3>>

Next == ClearDirectories \/ CallMap \/ MapStep \/ LoadDirectory \/ EnablePaging

Spec == Init /\ [][Next]_vars

-----------------------------------------------------------------------------
(* Properties of the address spaces once paging is on *)

Tasks == {PGD_ADDR_PROCESS1, PGD_ADDR_PROCESS2}
KernelFrames == 0 .. 4 * MB - 1     \* the kernel's 4 MB, its stacks included
SharedFrame == 6 * MB

\* The pages present in an address space
Present(d) ==
    UNION {{i * E + j : j \in {k \in Entries : mem[mem[d][i].pfn][k].p}} :
           i \in {k \in Entries : mem[d][k].p}}

\* The pages of an address space that ring 3 reaches, and their frames
UserPages(d) == {w \in Present(d) : M!Walk(mem, d, w).usr}
UserFrames(d) == {M!Walk(mem, d, w).pfn : w \in UserPages(d)}

\* The frames the paging structures occupy
PagingFrames ==
    Directories \cup
    UNION {{mem[d][i].pfn : i \in {k \in Entries : mem[d][k].p}} : d \in Directories}

\* The kernel goes on running after it turns paging on: its memory, and every
\* directory and table it will dereference by physical address, is mapped at
\* its own address, writable, and out of reach of ring 3.
KernelKeepsRunning ==
    pg => \A f \in KernelFrames \cup PagingFrames :
              M!Walk(mem, cr3, f) = M!pg_set_entry(KRN_RW, f)

\* The rights of the two levels combine (tp_exam/README.md:57): still, every
\* page of every call has exactly the frame and the rights the call gave,
\* although calls with other rights use the same tables.
RightsAsAsked ==
    pg => \A i \in 1 .. Len(Script) :
              LET c == Script[i]
              IN  \A k \in 0 .. c.size - 1 :
                      M!Walk(mem, c.pgd, c.v + k) = M!pg_set_entry(c.flags, c.p + k)

\* Ring 3 reaches neither the kernel's memory nor any directory or table, and
\* the two tasks have no frame in common but the shared one.
TasksIsolated ==
    pg => /\ \A d \in Tasks : UserFrames(d) \cap (KernelFrames \cup PagingFrames) = {}
          /\ UserFrames(PGD_ADDR_PROCESS1) \cap UserFrames(PGD_ADDR_PROCESS2)
                \subseteq {SharedFrame}

\* The tasks share memory of one page, at two addresses (tp_exam/README.md:22):
\* one page of each reaches a frame that the other reaches too.
OnePageShared ==
    pg => LET shared == UserFrames(PGD_ADDR_PROCESS1) \cap UserFrames(PGD_ADDR_PROCESS2)
              at(d) == {w \in UserPages(d) : M!Walk(mem, d, w).pfn \in shared}
          IN  /\ \A d \in Tasks : Cardinality(at(d)) = 1
              /\ at(PGD_ADDR_PROCESS1) # at(PGD_ADDR_PROCESS2)

\* Each task has stacks of its own (tp_exam/README.md:25-26).  The page at 0xC0000000 is
\* for ring 0 only and its frame is reached by nobody else; the page its esp starts in,
\* for ring 3, is its, writable, and the other task does not reach the frame.
OwnKernelStack(d) ==
    LET stack == M!Walk(mem, d, VIRTUAL_KERNEL_STACK)
    IN  /\ stack.p /\ stack.rw /\ ~stack.usr
        /\ \A e \in Tasks : \A w \in Present(e) :
               M!Walk(mem, e, w).pfn = stack.pfn => e = d /\ w = VIRTUAL_KERNEL_STACK

Stack(d) == IF d = PGD_ADDR_PROCESS1 THEN PROCESS1_STACK_ADDR ELSE PROCESS2_STACK_ADDR
OwnUserStack(d) ==
    LET stack == M!Walk(mem, d, Stack(d))
    IN  /\ stack.p /\ stack.rw /\ stack.usr
        /\ \A e \in Tasks \ {d} : stack.pfn \notin UserFrames(e)

OwnStacks == pg => \A d \in Tasks : OwnKernelStack(d) /\ OwnUserStack(d)

\* "All tasks see this same mapping [of the kernel] in their address space"
\* (tp_exam/Technical_choices.txt:5).
KernelInEveryTask ==
    pg => \A d \in Tasks, f \in KernelFrames :
              LET e == M!Walk(mem, d, f) IN e.p /\ e.pfn = f

-----------------------------------------------------------------------------
(* The inductive strengthening of the invariants above *)

PagesOf(c) == c.v .. c.v + c.size - 1

\* Each page of the call translates as it asked.
Installed(c) ==
    \A w \in PagesOf(c) :
        M!Pte(mem, c.pgd, w) = M!pg_set_entry(c.flags, c.p + (w - c.v))

\* The attributes of a directory entry: those of the call that allocates its table
Level(d, i) == IF d \in Tasks /\ i = 1 THEN USR_RW ELSE KRN_RW

\* While init_paging makes its calls and after: the call under way is in step with the
\* script, the ones that have returned stay installed, and every directory entry has
\* the attributes of its first call.
Mapping ==
    /\ M!ServedInv
    /\ req = IF calls = 0 THEN M!NoCall ELSE Script[calls]
    /\ \A d \in Directories, i \in Entries :
           mem[d][i] # M!Zero => mem[d][i] = M!pg_set_entry(Level(d, i), PT_BASE[d] + i)
    /\ \A i \in 1 .. calls : i < calls \/ pc = "idle" => Installed(Script[i])

IInv ==
    /\ phase \in {"clear", "map", "cr3", "done"}
    /\ mem \in M!Memory
    /\ calls \in 0 .. Len(Script)
    /\ phase = "clear" => /\ calls = 0 /\ pc = "idle" /\ req = M!NoCall
                          /\ v = 0 /\ p = 0 /\ gi = 0 /\ glast = 0
                          /\ pt = 0 /\ ti = 0 /\ tlast = 0
    /\ phase # "clear" => Mapping
    /\ phase \in {"cr3", "done"} => /\ calls = Len(Script) /\ pc = "idle"
                                    /\ cr3 = PGD_ADDR_KERNEL
    /\ pg => phase = "done"

\* When the tables were zero at boot, the tables not in use still are, and every
\* translation is of a page of a call.
ZeroedTables == \A m \in RAM : \A t \in Tables, j \in Entries : m[t][j] = M!Zero

OnlyCalls ==
    /\ phase = "clear" => \A t \in Tables, j \in Entries : mem[t][j] = M!Zero
    /\ phase # "clear" =>
          /\ \A d \in Directories, i, j \in Entries :
                 mem[d][i] = M!Zero /\ PT_BASE[d] + i \in Directories \cup Tables =>
                     mem[PT_BASE[d] + i][j] = M!Zero
          /\ \A d \in Directories, w \in M!Page :
                 M!Pte(mem, d, w) # M!Zero =>
                     \E i \in 1 .. calls : d = Script[i].pgd /\ w \in PagesOf(Script[i])

CleanInv == IInv /\ OnlyCalls
=============================================================================
