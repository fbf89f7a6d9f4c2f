------------------------------- MODULE Reports ------------------------------
(***************************************************************************)
(* What the kernel computes in order to print it: the page report, the GDT *)
(* report, tp0's memory map, the stack trace, and printf's formats and     *)
(* digits.  None runs while another does and they share no state, so a     *)
(* behaviour is of one of them, which has the variables to itself.         *)
(***************************************************************************)
EXTENDS PageReport

CONSTANTS
    LOW, MID, HIGH, LIM, PAGE, Gdts,                \* of GdtReport
    FOUR_GB, Maps, Reserved, Ram, Dword,            \* of MemoryMap
    Below, Stack, MaxDepth, MaxLines, Boots,        \* of StackTrace
    PrintfCalls,                                    \* of Format
    WIDTH, DECSZ                                    \* of Digits

VARIABLES
    part,                                       \* the one that runs
    v1, v2, v3, v4, v5, v6, v7, v8, v9, v10     \* its variables, but for the page report's

Parts == {"pages", "gdt", "map", "trace", "format", "digits"}
pool == <<v1, v2, v3, v4, v5, v6, v7, v8, v9, v10>>

\* When the page report is not the one that runs
NoPages ==
    /\ dir = (CHOOSE d \in Directories : TRUE) /\ tables = (CHOOSE t \in Tables : TRUE)
    /\ Init

G == INSTANCE GdtReport WITH
        Tables <- Gdts, asked <- v1, gdt <- v2, limit <- v3, i <- v4, printed <- v5
ASSUME GdtAssumption == G!RadixAssumption /\ G!TablesAssumption

M == INSTANCE MemoryMap WITH
        map <- v1, mmap_length <- v2, entry <- v3, lines <- v4, mem <- v5, probed <- v6, at <- v7
ASSUME MapAssumption == M!MapsAssumption

T == INSTANCE StackTrace WITH
        mem <- v1, esp <- v2, ebp <- v3, calls <- v4, trace <- v5, lines <- v6, at <- v7
ASSUME TraceAssumption == T!StackAssumption

F == INSTANCE Format WITH
        Calls <- PrintfCalls, fmt <- v1, args <- v2, bits <- v3, at <- v4, interp <- v5,
        lng <- v6, size <- v7, params <- v8, taken <- v9, panicked <- v10
ASSUME FormatAssumption == F!CallsAssumption

D == INSTANCE Digits WITH
        conv <- v1, number <- v2, asked <- v3, value <- v4,
        precision <- v5, rep <- v6, out <- v7, at <- v8
ASSUME DigitsAssumption == D!WidthAssumption

-----------------------------------------------------------------------------
ReportsInit ==
    /\ part \in Parts
    /\ IF part = "pages" THEN Init ELSE NoPages
    /\ CASE part = "pages" -> /\ v1 = 0 /\ v2 = 0 /\ v3 = 0 /\ v4 = 0 /\ v5 = 0
                              /\ v6 = 0 /\ v7 = 0 /\ v8 = 0 /\ v9 = 0 /\ v10 = 0
         [] part = "gdt"    -> G!Init /\ v6 = 0 /\ v7 = 0 /\ v8 = 0 /\ v9 = 0 /\ v10 = 0
         [] part = "map"    -> M!Init /\ v8 = 0 /\ v9 = 0 /\ v10 = 0
         [] part = "trace"  -> T!Init /\ v8 = 0 /\ v9 = 0 /\ v10 = 0
         [] part = "format" -> F!Init
         [] part = "digits" -> D!Init /\ v9 = 0 /\ v10 = 0

Pages  == part = "pages" /\ Next /\ UNCHANGED <<part, pool>>
Gdt    == part = "gdt" /\ G!Next /\ UNCHANGED <<part, vars, v6, v7, v8, v9, v10>>
Map    == part = "map" /\ M!Next /\ UNCHANGED <<part, vars, v8, v9, v10>>
Calls  == part = "trace" /\ T!Calling /\ UNCHANGED <<part, vars, v8, v9, v10>>
Trace  == part = "trace" /\ T!Tracing /\ UNCHANGED <<part, vars, v8, v9, v10>>
Printf == part = "format" /\ F!Next /\ UNCHANGED <<part, vars>>
Digits == part = "digits" /\ D!Next /\ UNCHANGED <<part, vars, v9, v10>>

Report == Pages \/ Gdt \/ Map \/ Trace \/ Printf \/ Digits
ReportsNext == Calls \/ Report

\* Nothing makes the kernel call, return or fault; a report that has begun goes on
ReportsSpec ==
    /\ ReportsInit /\ [][ReportsNext]_<<part, vars, pool>>
    /\ WF_<<part, vars, pool>>(Report)

-----------------------------------------------------------------------------
(* Properties, next to ReportExact and BlocksMaximal of module PageReport *)

\* print_gdt_content: a line says of its entry what initialize_segment_descriptor was
\* asked for, although the fields were cut apart and the sum passes 32 bits.
LinesExact == part = "gdt" => G!LinesExact

\* tp0: the list is the memory map, also for a region that ends at 4 GB.
MapListed == part = "map" => M!MapListed

\* stack_trace: the active calls from the innermost on, whatever has returned before.
CallersFirst == part = "trace" => T!CallersFirst

\* __vsnprintf: each conversion takes its own argument, at its own width.
ArgumentsInStep == part = "format" => F!ArgumentsInStep

\* The digits are the numeral of the number, and fit in their local arrays.
NumeralExact == part = "digits" => D!NumeralExact

\* Every report comes to its end: the loops over tables, maps, frames, formats and
\* digits do, from every state their callers leave; a fault is reported to its panic,
\* the GDT to its last entry, and every argument of printf is used.
Begun == part = "trace" => T!Begun
Ended ==
    CASE part = "pages" -> pc = "done"      [] part = "gdt" -> G!WholeTable
      [] part = "map" -> M!Done             [] part = "trace" -> T!Reported
      [] part = "format" -> F!AllConverted  [] part = "digits" -> D!Done
ReportsEnd == Begun ~> Ended
=============================================================================
