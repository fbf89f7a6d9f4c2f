------------------------------- MODULE Setup --------------------------------
(***************************************************************************)
(* What the kernel does to set the processor and the chips up, and to      *)
(* memory on the way: the string functions, the start, the segments of the *)
(* tps, the serial line, tp4's tables, and the layouts of all the values   *)
(* it writes.  None runs while another does and they share no state here,  *)
(* so a behaviour is of one of them, which has the variables to itself.    *)
(***************************************************************************)
EXTENDS Strings, Fields, Descriptors, Trampolines

CONSTANTS
    idt_trampoline, Installs, Irqs,             \* of Startup
    Programs, MaxNMI,                           \* of Segmentation
    FcrJunk, FifoDepth, MaxBytes, MaxRead,      \* of Uart
    E,                                          \* of Tp4
    MaxWrites                                   \* of Layouts

VARIABLES
    part,                               \* the one that runs
    v1, v2, v3, v4, v5, v6, v7,         \* its variables, but for the strings'
    v8, v9, v10, v11, v12, v13

Parts == {"strings", "startup", "segments", "line", "tables", "layouts"}
pool == <<v1, v2, v3, v4, v5, v6, v7, v8, v9, v10, v11, v12, v13>>

\* When no string function is the one that runs
NoString ==
    /\ mem = (CHOOSE b \in Boots : TRUE).mem /\ call = (CHOOSE b \in Boots : TRUE).call
    /\ df = 0 /\ Init

S == INSTANCE Startup WITH
        irr <- v1, isr1 <- v2, isr2 <- v3, chip <- v4, out <- v5, gate <- v6, built <- v7,
        idtr <- v8, install <- v9, event <- v10
ASSUME StartupAssumption == S!InstallsAssumption

G == INSTANCE Segmentation WITH
        prog <- v1, pc <- v2, grub <- v3, gdt <- v4, size <- v5, seg <- v6, tr <- v7,
        tss <- v8, esp <- v9, ram <- v10, handlers <- v11, fault <- v12, nmis <- v13
ASSUME SegmentsAssumption == G!ProgramsAssumption

L == INSTANCE Uart WITH
        chip <- v1, reg <- v2, rx <- v3, arrived <- v4, sent <- v5, junk <- v6, step <- v7,
        pc <- v8, can <- v9, skipped <- v10, data <- v11
ASSUME LineAssumption == L!LineAssumption

T == INSTANCE Tp4 WITH
        speculates <- v1, mem <- v2, cr3 <- v3, pg <- v4, tlb <- v5, pc <- v6,
        shown <- v7, fault <- v8
ASSUME TablesAssumption == T!ScaleAssumption

R == INSTANCE Layouts WITH type <- v1, raw <- v2, meant <- v3, writes <- v4

-----------------------------------------------------------------------------
SetupInit ==
    /\ part \in Parts
    /\ IF part = "strings" THEN Init ELSE NoString
    /\ CASE part = "strings"  -> /\ v1 = 0 /\ v2 = 0 /\ v3 = 0 /\ v4 = 0 /\ v5 = 0 /\ v6 = 0
                                 /\ v7 = 0 /\ v8 = 0 /\ v9 = 0 /\ v10 = 0
         [] part = "startup"  -> S!Init
         [] part = "segments" -> G!Init
         [] part = "line"     -> L!Init
         [] part = "tables"   -> T!Init /\ v9 = 0 /\ v10 = 0
         [] part = "layouts"  -> /\ R!Init /\ v5 = 0 /\ v6 = 0 /\ v7 = 0 /\ v8 = 0
                                 /\ v9 = 0 /\ v10 = 0
    /\ part \notin {"segments", "line"} => v11 = 0
    /\ part # "segments" => v12 = 0 /\ v13 = 0

StringStep == part = "strings" /\ Next /\ UNCHANGED <<part, pool>>
Start      == part = "startup" /\ S!Next /\ UNCHANGED <<part, vars, v11, v12, v13>>
Segments   == part = "segments" /\ G!Next /\ UNCHANGED <<part, vars>>
Line       == part = "line" /\ L!Next /\ UNCHANGED <<part, vars, v12, v13>>
Tables     == part = "tables" /\ T!Next /\ UNCHANGED <<part, vars, v9, v10, v11, v12, v13>>
Write ==
    /\ part = "layouts" /\ R!Next
    /\ UNCHANGED <<part, vars, v5, v6, v7, v8, v9, v10, v11, v12, v13>>

SetupNext == StringStep \/ Start \/ Segments \/ Line \/ Tables \/ Write
SetupSpec == SetupInit /\ [][SetupNext]_<<part, vars, pool>>

-----------------------------------------------------------------------------
(* Properties, next to StoresExact and Searched of module Strings *)

\* pic_init: whatever the BIOS and GRUB left, the chips are as the handlers expect.
ControllersReady == part = "startup" => S!ControllersReady

\* intr_init: every event leads through its gate to its own trampoline or to the handler
\* a tp installs, and every line to its ends of interrupt.
EventsLead == part = "startup" => S!GatesLead /\ S!LinesAcknowledged /\ S!HandlerReached

\* tp1, tp3, tp5, the exam: the tables are loaded without a fault whenever an NMI comes,
\* C code has flat segments, and every selector still means what was loaded.
SegmentsUsable == part = "segments" => G!NoFault /\ G!FlatKernel /\ G!SelectorsReload

\* An NMI or a system call gives the program its segments and its stack back.
Restored == [][part = "segments" => G!RestoredStep]_<<part, pool>>

\* uart_init sets the line up, in silence, whatever the chip and the stack held.
LineSetUp == part = "line" => L!LineSetUp

\* uart_read gives each byte once and in order.
ReadOnce == part = "line" => L!ReadOnce

\* tp4: no step faults before Q9 has cleared the entry the kernel is mapped through, the
\* directory is changed through its own mapping, and no translation in use is stale.
TablesReached == part = "tables" => T!OnlyQ9Faults /\ T!Coherent

\* Masks, bit-fields and the processor find the same value in every field, whatever is
\* written in the others.
FieldsHold == part = "layouts" => R!SeenAsMeant /\ R!FieldsHold
=============================================================================
