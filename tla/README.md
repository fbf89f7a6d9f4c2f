# A verification development for the SecOS kernel and its exam OS

The repository is a 32-bit x86 teaching kernel ("secos", `kernel/`), six
exercises on it (`tp0` to `tp5`: one `tp()` function each, called by the
kernel's `start()`), and the beginning of a small multi-task OS (`tp_exam`:
GDT, paging with one address space per task, helpers).  There is one processor,
no scheduler yet, and maskable interrupts are off until a tp turns them on.
What is hard in it is arithmetic on addresses and indexes over 32 bits, memory
that holds what ran before, code that interrupts itself (exceptions, NMIs,
IRQs), and machine state that is only right if several hand-written tables
agree.  The project models those parts, checks them with TLC, and proves most of
their safety properties with TLAPS for every value of their constants.

## 1. Inventory

Component | State | Operations | What makes it correct
---|---|---|---
Page tables, `map_addresses` (`tp_exam/src/pagination.c`, `pagemem.h`) | directories and tables in physical memory | install the translation of a range, allocating tables | indexes in bounds, private tables, exactly the range asked for
Paging layout, `init_paging` (`tp_exam/tp.c`) | three directories, CR3, CR0.PG | memset, eight calls, load, enable | the kernel survives, tasks are isolated, one shared page, own stacks
Page report, `analyze_page_mapping` (`tp_exam/src/utils.c`) | reads tables, prints blocks | two nested loops with an open block | says exactly what is mapped, in maximal blocks
Console (`print.c`, `uart.c`) | the static `vprint_buffer`, the transmitter | `printf`, `panic`, `uart_write`, `uart_flush` | bounded buffer, whole messages in order, last words out, no endless wait
Interrupt path (`idt.s`, `intr.c`, `excp.c`, `tp2`, `tp5`) | IDT, ring 0 stack, registers | deliver, trampoline, dispatch, resume | context handed over right, interrupted code restored, every vector's frame alike
PICs (`pic.c`, `pic.h`) | masks, bases, requests, lines in service | `pic_init`, acknowledge, end of interrupt | in the mode the handlers expect, each line ended once, none blocked
Boot (`entry.s`, `start.c`, `linker.lds`) | stack, order of initialization, gates | `entry`, `start`, `intr_init`, `lidt` | each event reaches its own trampoline, stack below `__kernel_start__`
Segmentation (`segmem.h`, `tp1`, `tp3`, `tp5`, `gdt_setup.c`, `tp_exam/tp.c`) | GDT, GDTR, TR, segment registers, TSS | build descriptors, load, `iret` to ring 3, enter ring 0 again | no fault whenever an NMI comes, flat segments for C code, selectors still mean what was loaded
UART set-up and reception (`uart.c` 9-75) | register banks behind LCR, receive FIFO | `uart_init`, `uart_read` | each write reaches what it is for, each byte is read once
Paging exercise (`tp4`) | one directory, three tables, the TLB | fill, enable, remap, clear | the tables stay reachable, no stale translation is relied on
Memory map exercise (`tp0`) | the multiboot map | list, probe three addresses | each region with its bounds, the loop ends
Stack trace (`stack.c`) | reads the stack | `stack_trace` | the active calls, innermost first, and it ends
Conversions (`print.c` 57-283) | a format's state, the words of the arguments | `__vsnprintf`, `__format_add_*` | each conversion takes its own argument, digits are the number's
Strings (`string.h`) | memory, edi, esi, ecx, the direction flag | `memset`, `memcpy`, `strchr`, `strlen` | write exactly their bytes, find the first occurrence, keep the flag
Descriptors and their report (`segmem.h`, `utils.c`) | the GDT's fields | `initialize_segment_descriptor`, `print_gdt_content` | a line says what was asked of its descriptor
Register layouts (`cr.h`, `segmem.h`, `pagemem.h`, `intr.h` and others) | one value described by fields, masks and constants | every way of writing it | all of them, and the processor, mean the same bits
Other displays, interrupt helpers of the exam, build files | none | print, or not called | not modelled (section 5)

How they interact: `start()` calls `pic_init`, `uart_init`, `intr_init`, prints
the banner, calls `tp()`, and panics.  `tp()` of the exam builds the GDT, calls
`init_paging`, which calls `map_addresses` and then `analyze_page_mapping`.
Everything prints through `printf`.  Any instruction may be interrupted by an
NMI, the code's own instructions may fault; the trampolines call `intr_hdlr`,
which prints, and for an exception `excp_hdlr`, which prints, traces the stack and
panics (the NMI returns).  Shared state between these: the static print buffer,
the UART, the ring 0 stack, the PICs.

The hazards of each component, at their lines, are under "hazards" in
PROJECT.json; those a property covers name it.

## 2. The modules

Module | Models | Role
---|---|---
`PageTables` | `pagemem.h` | entries, memory, indexes, `pg_set_entry`, the MMU's walk (external)
`MapAddresses` | `map_addresses` | one action per step of its loops; invariants and their inductive strengthening
`AddressSpace`, `MapRefinement` | - | abstract: requests installed page by page; and the refinement mapping
`MapAddressesProof` | - | theorems about `map_addresses`
`InitPaging`, `InitPagingProof` | `init_paging` | composes `MapAddresses` (INSTANCE) with the real sequence of calls; theorems, from those about `map_addresses`
`PageReport`, `PageReportProof` | `analyze_page_mapping`, `print_block_info` | its loops; theorems
`Log`, `Console`, `ConsoleProof` | `print.c`, `uart.c`, what `start`, `intr_hdlr`, `excp_hdlr` print | abstract: messages come out whole; activations on a stack, one buffer, one transmitter; theorems
`Pic` | the 8259s in use | requests, service, priorities, end of interrupt
`Interrupts`, `InterruptsProof` | `idt.s`, `intr.c`, `excp.c`, `build_int_desc`, tp2's and tp5's handlers | the stack word by word; theorems
`Trampolines`, `Startup` | `idt.s`'s places, `pic_init`, `intr_init`, tp2's and tp5's writes to the IDT | words to the chips, gates, events on the way
`Descriptors`, `Segmentation` | `segmem.h`; tp1, tp3, tp5, the exam | instruction sequences on a processor that checks each load
`GdtReport`, `GdtReportProof` | `initialize_segment_descriptor`, `print_gdt_content` | cut into fields and put together again; theorems
`Fields`, `Layouts` | the unions of `cr.h`, `segmem.h`, `pagemem.h`, ... | bit-fields, masks and the processor's places
`Format`, `Pieces`, `Digits` | `__vsnprintf`, `__format_add_*`, `uint64_to_hex` | arguments taken word by word; digits found from the last
`Strings` | `string.h` | one repetition at a time
`Uart` | `uart_init`, `uart_read` | registers behind LCR, receiver
`Tp4` | tp4's `tp()` | tables changed through their own mapping, under a TLB
`StackTrace` | `entry.s`'s stack, `stack_trace` | calls, returns, a fault, the walk
`MemoryMap` | tp0's `tp()` | the walk over the multiboot map, the probes
`MCMapAddresses`, `MCInitPaging`, `MCConsole`, `MCInterrupts` | - | small instances for TLC
`Reports`, `ReportsProof` | - | composes the page report, the GDT report, tp0's map, the stack trace, formats and digits; theorems
`Setup`, `SetupProof` | - | composes the strings, the start, the segments, the serial line, tp4 and the layouts; theorems
`MCReports`, `MCSetup` | - | the constants of the two, for TLC

A definition whose name starts with `Bad` is a faulty variant of the definition
that follows it: it is not part of a specification, it is used to make sure that
a property notices such a fault.

`Reports` and `Setup` each compose several modules, checked in one run: what they
model never runs at the same time and shares no state, so a behaviour is of one part
(the variable `part`), whose variables are a pool, `v1`, `v2`, ..., that its INSTANCE
maps to the module's own names.  A theorem about a part is therefore stated of
`ReportsSpec` or `SetupSpec`, the specifications that the runs check.

### Page tables and map_addresses

Addresses are page numbers; `E` stands for the 1024 entries of a table, memory
has `E * E` pages, and all sums are taken modulo that, as 32-bit addresses are.
A frame that holds a directory or a table is a function from indexes to entries;
an entry keeps P, RW, US and the frame number.  `Accept` is the code up to the
outer loop (lines 14-23), `AllocTable` and `ReuseTable` the two branches of lines
25-40, `SetPte` a turn of the inner loop, `NextTable` lines 49-52, `Return` the
end, `Reject` the alignment check.  `v` and `p` are `v_start` and `p_start`, which
the code changes as it goes; line 40 computes the last index of the last table
from the changed `v_start` and the whole size, and the model does the same.

Two facts about the callers are assumptions on constants: directories are zeroed
first (the memset of `init_paging`), and each has a table area of its own.  RAM
elsewhere holds anything (`Images`).

`Covered` names the calls for which the code maps exactly its range: the range
lies in one directory entry or starts at a 4 MB boundary, and does not pass the
end of memory.  All eight calls of `init_paging` are covered.

### init_paging

`InitPaging` makes the eight calls with their own arguments, in megabytes of
`E \div 4` pages, so that with `E = 1024` every number is the code's.  The runs use
`E = 16`, the same layout at a smaller scale: 4 KB pages stay one page, everything
else is in the same tables and at the same entries relative to one another.  (The
passing run also passes with `E = 1024`, in a few seconds more.)  The properties speak of
the state with paging on, through the walk that combines both levels.

### Page report and GDT report

`PageReport` has one action per branch of the loops.  It keeps the block that is open
(`block_start_pte`, last frame and flags) and the calls of `print_block_info` with
the ranges it prints.  `ReportExact` is stated at every step, not only at the end:
at any moment the report is right for the pages passed.

`GdtReport` keeps the places of a descriptor's fields and makes their sizes
constants (`LOW`, `MID`, `HIGH`, `LIM`, `PAGE`), so that TLC can try every base and
limit and the proof covers the real ones.  The end of a segment is a sum that wraps
at 2^32, as `print_gdt_content` computes it.

### Console

The stack of activations is what makes this model: `main` prints the banner,
`tp()`'s text and the last panic; software interrupts, faults and NMIs push a
handler that prints its own messages through the same `vprint_buffer` and the
same transmitter.  A print is formatting, one character at a time, then for each
character a poll and a send, separate steps because an NMI may come between.  A
message is cut to the buffer by `Room` (the `len--` of `__vsnprintf`).  The holding
register is one character deep (no code relies on a transmit FIFO); the UART
drains it when it likes.  `panic` is its message, 16 NULs, and a halt.  An
unsupported conversion is a panic on top of the print that met it.
`Log` says what it is all for: a message begun comes out whole and alone.  The
mapping takes `out` to the line followed by the character in the transmitter, and
`rest` to the part of the buffer still to be sent.

### Interrupts and Pic

The eight general registers are one value, and the ring 0 stack is a sequence of
words that remember which register was pushed; popping a word of another kind
gives a value no context has.  `Deliver` is the processor, through the gates of
`build_int_desc`; `Trampoline` the 256 entries of `idt.s` (with or without the -1,
bare iret for 20-31, and the way to `ack_pic1` or `ack_pic2`); then `idt_common`,
`intr_hdlr`, `resume_from_intr`, `iret`.  tp2's and tp5's handlers, compiled
functions that undo their prologue by hand and iret themselves, are alternatives
in the IDT.  `interrupted` and `event` are history: what a handler broke into,
and what was delivered.  An NMI may come at every step, and a step is a block of
a trampoline: consecutive pushes, which touch only the stack and the registers of the
code they run in, are one.  The
code that is interrupted is in ring 0 or ring 3; it may run the macro
`force_interrupts_on` (`asm.h:7`).  No tp of this commit does so, but the PICs and
the IRQ entries are there for the tps, and the exam's statement
(`tp_exam/README.md`) asks for it.  An `int` whose vector has an error code, or is
an IRQ's, is excluded by an assumption: no code makes one.

### Startup and Trampolines

`Startup` begins with the chips as the BIOS left them.  `pic_init` is eight words
to four ports; the chips tell initialization words apart by their order, so a word
too many becomes a mask.  `intr_init` writes 256 gates by adding to an address,
then `lidt`; `Trampolines` says where `idt.s` and its `.align` put each entry.
Then the writes by which tp2 and tp5 install a handler, one half of the offset
after the other.  Device lines, with interrupts off, and NMIs come at any time.

### Segmentation

A program is the sequence of instructions that matter of one `tp()`: writes of
descriptors, `lgdt`, far jumps, loads of segment registers, `ltr`, writes of the TSS,
`iret` to ring 3, `int`, the string instructions that use es.  The processor checks
each load as the hardware does (privilege, type, presence, limit of the table) and
keeps the hidden part, which later changes of the table do not reach.  An NMI
may come before every instruction; its gate has the code selector of GRUB's table
(`intr.c:18`), whatever table is in use.  `Descriptors` has the descriptors of
`segmem.h` and the programs.

### Uart

The chip's eight ports mean different registers according to the last LCR.  Junk
bits of `fcr`, a local of which two fields are set, are any.  A 16550 and a 16650
differ in one bank.  Reception is `uart_read`: a test of LSR, then a read of RBR,
and bytes that arrive between the two.

### Tp4

The questions of tp4 in order, with every write of a table entry in two steps (the
attributes, then the frame, as `pg_set_entry` does), addressed through the
translation in force.  The TLB keeps translations used, drops them when it
likes, and, if `speculates`, fills itself ahead.

### StackTrace, MemoryMap, Format, Digits, Strings, Layouts

`StackTrace` builds a stack by calls and returns that leave their words behind,
then faults and walks.  `MemoryMap` walks regions up to and above 4 GB, whose
bounds are 64-bit sums that are printed in 32 bits.  `Format` is the state machine
over a format's characters: what it takes from the stack, word by word, against
what the caller pushed.  A call is a sequence of the pieces of module `Pieces`: a plain
character, `%%`, a conversion the kernel does not know, or `Conversion`, which is characters
and the argument that C, or the kernel for its own `B`, `D` and `X`, has for them.  (The two
calls of this commit that give `X` one word are not among them: see the end of section 3.)  `Digits` is the digits of a
number of `WIDTH` bits, found from the last.  `Strings` is `rep stos`, `rep movs` and `scas` one repetition at a time,
from either value of the direction flag.  `Layouts` applies every kind of write the
code has (assignment to a field, or of a mask, a raw constant, `pg_set_entry`,
`gdt_seg_sel`, `build_int_desc`) to each union of `Fields`, and compares all the ways of
reading the result with where the processor's manual puts it.

## 3. The runs

Run | Question | Bounds | States
---|---|---|---
`map_clean` | do calls keep tables private, touch only their range, return, and implement the address spaces? | 4 entries, 16 pages, 2 directories, 8 calls in any order and number | 10361
`map_stale` | is a covered request served whatever the tables held? | the same calls; tables full of leftovers but for one entry, any entry | 147217
`map_crossing` (violated) | does a call write `num_pages` entries? | one call more, from the last page of a table into the next |
`init_paging` | does the layout do what the exam asks? | `E = 16` | 135
`init_stale` (violated) | does it still, if tables hold entries of an earlier boot? | `E = 16` |
`init_kernel_mapped` (violated) | is the kernel in every task's address space? | `E = 16` |
`console` | do messages come out whole and in order, to the last? | buffer of 4, 2 traps, no NMI | 4283
`console_nmi` | does the kernel always halt and the buffer hold, with NMIs? | 1 trap, 1 NMI at any step | 170829
`console_nmi_text` (violated) | is an NMI really ignored by the text being printed? | 1 NMI |
`interrupts` | is every context handed over and restored, every line ended and served? | 3 exceptions, 4 `int` vectors, 3 lines, 3 requests or spurious ones, 1 NMI, both rings, 3 IDTs | 98070
`reports` | does what is computed for printing say what it is about, and end? | see below | 304866
`setup` | are the processor, the chips and memory as the kernel means them after it set them up? | see below | 110171

Why these bounds are enough.  Four entries give a table with a first, a last and
inner entries, and an address space with tables on both sides of a range; every
case of the index arithmetic (same table, next table, several, wrap at the end of
memory) is among the calls.  A console buffer of 4 takes messages of 0, shorter
than the room, of the room and longer.  The vectors of `interrupts` have one of
every kind of entry in `idt.s`; the three lines are the master's most and least
urgent and one of the slave; three requests are enough for one line to be in
service, one latched and one spurious.  With one NMI nesting reaches its
depth: interrupts are off in handlers, so only an NMI breaks into one, and a
second is blocked until the first returns.

`reports`: every content of one page table over three consecutive frames, the last
frame of memory and two flags, after a 4 MB page and before one, up to the end of
memory; tables of three descriptors in a memory of 16 bytes, so that segments end at
memory's end and past it; memory maps of up to three regions that end at 4 GB,
across it and above; a kernel stack of 9 words over two of GRUB's, calls three
deep; formats of two conversions (so that one can spoil the next) with every
modifier, and the shapes of the repository's own calls; every number of 8 bits.

`setup`: every `memset` and `memcpy` of 0 to 12 bytes, which is no word, less than a
word, words, words and bytes, and every memory for the searches; every gate,
with one line of each chip and an NMI before every step; the four programs with two NMIs, so
that one may come on the way to the other's end; two bytes in the receiver and four
sent, more than fit; tp4 with tables of 16 entries (a multiple of 4, as in
`InitPaging`), speculating or not; two writes to every layout, from cleared and from
full, because a mask that spills over shows only against the other's field.

`CHECK_DEADLOCK FALSE` is used where the code stops for good: `init_paging`, a report
or a program ends, a call returns, the kernel halts after a panic.

Fairness.  `MapAddresses`, `Cpu` and the reports are the processor running
one instruction stream that nothing suspends: weak fairness on it is what the
hardware gives.  (In `reports`, only to steps of a report: a program need not call or
fault.)  The UART sends what it holds (WF on `Transmit`).  Nothing is
assumed of callers, faults, NMIs, devices, or of code turning interrupts on.  The
processor takes an interrupt that is asserted before the next instruction of code
with interrupts on (`Execute`), which is why `LineServed` needs no strong fairness.

### What the violated runs say

- `map_crossing`: the last index (`pagination.c:40`) is computed from a `v_start`
  already moved to the next boundary: a range that starts inside a 4 MB entry and
  ends in another maps the wrong number of pages.  No call of `init_paging` does.
- `init_stale`: directories are cleared, tables are not.  On RAM that is not zero,
  pages nobody asked for are mapped, for ring 3 as well.
- `init_kernel_mapped`: `Technical_choices.txt` says all tasks see the kernel's
  mapping; no directory of a task has it.
- `console_nmi_text`: an NMI in the middle of a print changes what is printed,
  although `excp.c` calls it ignored: its handler prints through the same buffer.

### Seen while modelling, and not a run

The properties of the passing runs leave these out, and say so at their
definitions or in the inputs that are given to them.

- The declaration of `printf` (`print.h:12-14`) has the compiler check C's conversions,
  where `X` is an unsigned int; the kernel's own `X` takes 64 bits (`print.c:247`).
  `utils.c:11` and `:366` give it one word, so it prints a word of the caller's frame with
  it.  `CallsAssumption`, which states what each conversion is given, excludes the two
  calls; `ArgumentsInStep` is false of them.
- `uart_init` writes FCR while LCR selects the EFR's bank, and EFR while it does not
  (`uart.c:22`, `:29`): on a 16650 each register gets the other's word.
- tp4 (`tp.c:106`, `:115`) changes tables in use without `invlpg`, and an entry is
  half written between two stores: a processor that looks translations up ahead may
  keep a stale or half-written one.  `Coherent` claims nothing of those.
- `entry.s` does not clear ebp, so a trace goes on through GRUB's frames; where
  those form a cycle it does not end (`stack.c:15`).
- `__clear_page` and `__copy_page` give a page's bytes as the count of a 32-bit
  string instruction: four pages (`pagemem.h:160`; not called).
- tp0's last probe, announced at 0xffffffff, is at 0x100000000, which is address 0 in
  32 bits (`tp0/tp.c:45`); without paging it does not trap.
- tp1's GDT is a local of `tp()` that `start()` overwrites on its way to its panic:
  an NMI after the return finds no code segment (`tp1/tp.c:82`).  `SegmentsUsable`
  stops at the return.
- tp3's ring 3 stack is the stack that TSS.s0.esp names: an NMI writes over the
  words ring 3 pushed (`tp3/tp.c:90`).  `Restored` is about tp5 and the exam.
- `create_gdt_with_required_desc` does not do what its comment says: the address of
  a parameter is taken for that of the TSS (`gdt_setup.c:27-38`; not called).
- In the exam, TSS.s0.esp is a physical address that the tasks' directories do not
  map (`tp.c:63`), and user stacks begin at 0x4fffff where the document has 0x3fffff
  (`tp.c:166`).  `ring3_transition` is not called yet.
- An NMI before `lidt` goes through GRUB's table, or none.
- `strchr` says it found nothing when the character is the last one looked at
  (`string.h:108`), and the smallest 64-bit integer is not printed as a numeral
  (`print.c:94`).

## 4. What is proved

All for every value of the constants that the assumptions allow, not only the
small instances.  The assumptions named `...Assumption` are evaluated by TLC in a run.

**`map_addresses`** (any `E` at least 1, any disjoint table areas, zeroed directories,
calls that stay in the areas, any RAM).
`TypeCorrect`: every index stays in its table, every frame in memory.
`PrivateTables`: no two directory entries of any directories share a table, no
table is a directory.  `RequestsServed`: a covered call leaves each page of its range
translated as asked, whatever the tables held.  `OthersKept`: if all calls are
covered (`CoveredOnly`) and the RAM of the tables is zero (`ZeroedTables`), no page
outside the requests is ever mapped.  `CallsImplement`: under the same hypotheses
the specification implements `AddressSpace`, that is the safety part of
`ImplementsAddressSpace`.  Without `ZeroedTables` the last two are false, which is the run
`init_stale`; without `CoveredOnly`, `map_crossing`.

Neither `TypeOK` nor `TablesPrivate` is inductive: that the
table in use is in bounds follows from the directory entry that was read, which
follows from where tables are placed.  `IInv` adds `InRange`: during a call the
loops run over the directory entries of the range, and the table in use is the one
reserved for the current entry.  `RequestServed` needs to know, in the middle of
a call, what has been done: `Serving` says that `p_start` keeps pace with the page
reached, that the inner loop's bounds meet the end of the range or of the table
(this is where `Covered` is used, and where line 40 fails without it), and that the
pages passed are in place.  `CleanInv` adds `UnusedZero`: a table that no entry points to yet
is still zero, so that allocating it changes no translation.  The refinement then
maps `SetPte` to the abstract installation of one page, `Accept` and `Return` to a
request's beginning and end, the rest to stuttering.  The proofs have a lemma per
action, and lemmas on division and wrap-around.

**init_paging** (any `E` that is a multiple of 4 and at least 8, the real 1024 among
them).  `KernelRuns` (`KernelKeepsRunning`) and `RightsHold` (`RightsAsAsked`) need nothing
of the RAM: when paging goes on, the kernel's 4 MB and the directories and
tables it uses are mapped at their own addresses, and each page of the eight calls has
exactly its frame and its rights, through both levels.  `TasksAreIsolated`, `OneIsShared`
and `StacksAreOwn` assume that RAM was zero where the tables are (`ZeroedTables`), without
which `init_stale` shows them false.  The argument takes the theorems about
`map_addresses` through an instance: the eight calls meet its assumptions on calls
and areas (this is arithmetic on the layout, for every scale), so `ServedInv` holds of
them.  The invariant adds `Mapping`: the directory entries of the finished calls have the
levels' flags that the walk combines with those of the pages, and finished calls are
installed.  `CleanInv` adds that nothing else is mapped (`OnlyCalls`); isolation is then a
fact about the ranges of the calls.

**Console** (any buffer, lengths of messages, number of traps).  `BoundsInvariant` and
`ConsoleTyped`: with any number of NMIs the buffer's indexes and the stack of
activations keep their bounds; the invariant is that each activation's counters
are bounded by its own message (`Bounded`), not only that of the top.
The rest is without NMIs (`MaxNMI = 0`).
`MessagesWhole`: the console implements `Log`.  `QuietInv` says
that only traps return, and to code between two prints (`Nested`), and that the
message under way lies in the buffer as far as it is formatted (`Placed`); with an
NMI `Nested` fails, and with it the theorem, which is `console_nmi_text`.
`LastWordsOut` (`LastWords`): when the kernel halts, the message it halts with is
complete on the line, with only NULs behind it.  `TextInTurn` (`TextIntact`): main's
characters come out in their order, each once, whatever handlers print in between.
For these `OutputInv` relates the line to the state: what has gone out is the messages
finished so far, in the order of the activations, and the part sent of the one under way.

**Interrupts** (any registers, vectors, lines, number of events and of requests).
`StackInv` says for every level of nesting which words lie on the stack, given the
label its handler has reached; `PathInv` adds that nesting goes no deeper than an NMI
in a handler, and which lines are in service: none that the handler's own
trampoline will not end.  From these: `InterruptsInvariant`, `InterruptsTyped`,
`HandlersContext`, `ContextsRestored` (an action property), `NamesIndexed`, `LinesRetired` and
`EoisExact` (an action property, of both controllers).

**Page report** (any `E`, directory and tables).  `ReportInv` says that the open block
with those printed are the translations of the pages before the current one;
`MaximalInv` that a block under way could not have been joined to the one printed
before.  From these: `ReportInvariant`, `ReportTyped`, `ReportsExactly`, `ReportsMaximal`.

**Reports** (`ReportsInv`).  `GdtLinesTrue` (`LinesExact`) is the theorem about the GDT report
below, beside the other parts.  `RegionsListed` (`MapListed`): for every memory map tp0's
list has a line for each region, in order, whose bounds are the region's if it ends
below 4 GB; `MapInv` says of each line the region it was printed for.
`TraceShowsCallers` (`CallersFirst`): for a stack of any size, any calls and returns before the fault,
and anything that GRUB left, the trace begins with the return addresses of the active
calls.  `TraceInv` has a function from the active calls to the places of their frames:
each frame holds the place of the next and the return address, frames of inner calls lie below,
and the words that returned calls left behind are in none of them; the walk has
passed the innermost frames, in order.
`NumeralsExact` (`NumeralExact`): for numbers of any width that is a multiple of 4, decimal digits
that fit in the array (`WidthAssumption`: for 64 bits there are 20 of at most 24), every
conversion, precision and sign.  `DigitsInv` says that after `k` digits what is left is
the quotient of the magnitude by the `k`-th power of the base, that digit `k` is a remainder of
such a quotient, and that the digits written so far are worth what their place in
the number is; `LeadInv` that the last quotient before the end was not 0, so no zero leads.
The least number, whose negation overflows, keeps only `SizesInv`: its digits still fit.
Both the powers and the value of digits are recursive functions, over any number of digits.
That such a function exists and has its equations is `Recursion`, proved from `Inductive`,
induction for a set of numbers, which is the least element of its complement (`WFMin`).

**GDT report** (any sizes of the fields that make up the same memory in both units,
`RadixAssumption`; any table, `TablesAssumption`).  The lemmas are that cutting a number by
div and mod into three fields and adding them up again is the identity (`BaseKept`,
`LimitKept`), and that one more than a remainder is the remainder of one more
(`EndKept`).  `GdtInv` says that the lines printed are those of the entries passed.
`GdtLinesExact`: `LinesExact` at every step.  `GdtWholeTable`: when the loop ends, although
its bound is the last byte and not the size, the whole table is printed, once.

**Strings** (any memory, place, size, byte, and direction flag).  `StringsInv` relates
edi, esi and ecx to the bytes done so far.  From it: `StoresExactly` (with
`StoresInPlace`, `MemsetSets`, `MemcpyCopies` for a source apart from its destination, and
`DirectionKept`) and `SearchesFind`.

`StringsInSetup`: both hold of the composition with the other parts.

**Start** (wherever the trampolines are, any handlers that may be installed but for the
vector of the NMI, any lines).  `ChipsAreReady` (`ControllersReady`): `ChipInv` says which
word each chip expects after each word of `pic_init`, and what it has kept of those before; the
lines that call meanwhile are requests, never in service.  `GatesLeadOn` (`EventsLead`): `GateInv`
says that the gates built so far are present interrupt gates that lead to their
trampolines, and which halves the tp has written in its own gate; `EventInv`
where the last event went.  The lemmas are that every trampoline takes 16 bytes, so that
adding 16 for each vector meets `.align 16` (`TrampolinePlaces`, by the cardinality of the
set of bytes before it), that a place tells its vector (`PlaceTells`), and that the
halves of an address make it up again (`Halves`).

**Serial line** (any junk in `fcr`'s other bits, any buffer, number of bytes and depth of the
FIFO).  `LineIsSetUp` (`LineSetUp`): `RegInv` says for each write of `uart_init` which bank
is selected then and what is already in place.  `LineReadOnce` (`ReadOnce`): `ReadInv` says
that the receiver, the buffer and the bytes flushed increase, in this order of
age, and that a byte seen by `__uart_can_recv` may be replaced before it is read but does not
go away.

**Segments** (any number of NMIs).  `SegmentsStayUsable` (`SegmentsUsable`) and
`ContextsComeBack` (`Restored`, an action property).  `SegInv` has three parts.  `TableInv`
says which entries the program has described by each of its instructions, and when
GDTR and TR are its own: an NMI needs the code entry from the first instruction on, so either
GRUB's table is still in force or entry 1 is already flat code.  `RegOK` and `Own` say
which selectors a register may hold at each instruction, and that what was loaded
with each is of the kind the table has there.  `Nest` follows the nesting, which is at
most an NMI in a system call or in the protection fault of tp3: a handler (`Over`)
has the kernel's selectors and the data registers of what it interrupted, finds that one's
`cs` two words above its stack pointer (and its `esp` and `ss` above, if it came from ring 3),
and has left the words above that one's own stack pointer alone.  An NMI after tp1's
return may fault, and this is the only fault the invariant allows (`Gone`).  The
programs are literal sequences; `OpsOf` reads the kind of each instruction off them, and there is a
lemma for each kind.

**tp4** (tables of any number `E` of entries that is a multiple of 4 and at least 16, the
real 1024 among them, full of zeros or of junk).  `TablesAreReached` (`TablesReached`).
`TablesInv` says what each entry holds before each step, for the steps `2 * i + 2` and `2 * i + 3`
that write entry `i` of the first table, and so on up to Q9, the half-written entry (frame 0)
included; `TlbInv` what may be cached at all: the kernel's pages and those of the tables
are only ever mapped at their own addresses, so what is kept of them cannot be wrong, and
0xc0000000 leads to the directory or, through the junk, to a frame of no table.
`FollowInv` is for a processor that caches nothing ahead: a page is cached from its first
use on, which comes after its last change.  `FaultInv` is `OnlyQ9Faults` for the steps.
That a step finds its pages then follows, and from where its access goes what it writes.
The program is a concatenation whose loops are functions of the entry, so that lemmas give
its length and the step at each place (`Steps4`).

**Formats** (any number of pieces in any order, `CallsAssumption`: any padding, and every
length that means something for the conversion, with the argument it calls for).
`ArgumentsTaken` (`ArgumentsInStep`): `FormatInv` says which piece of the call is read and
how far, what `interp`, `lng` and `size` are there (`ReadTo`: of `%lld`, `size` is 4
with `lng` after one `l` and 8 after two), that one argument is taken for each conversion
passed, and that the words not taken yet are those pushed behind these arguments'.
It is needed because `ArgumentsInStep` alone speaks of what was taken, not of what the next
`va_arg` will find.  `UptoOf` and `FlattenIs` say what the folds are that join the characters
and the words (by `Recursion` again), `PlacesOf` where an element is in what is joined.

Only model-checked:

- liveness (`CallReturns`, `Halts`, `LineServed`, `ReportsEnd`, and the fair parts of the two
  refinements), which needs ENABLED;
- `FieldsHold`: the layouts are the code's own finite tables, some forty of them, and their
  only constant is the number of writes.  TLC explores them completely for two writes, so
  for every pair; a proof would evaluate each field's offset by hand.

## 5. Not modelled

- The multiboot header, the linker's section addresses and the build files: data
  for other programs, no behaviour here.
- `display_tss`, `display_cr3`, `display_interrupt_descriptor` and the like: they
  print the fields of one structure; the fields' places are in `Layouts`.
- `register_interrupt_handler` and `create_gdt_with_required_desc`: no code calls them.
- The accessors of registers that no code calls (MSRs, debug registers, cr4).
- The bodies of the multiboot structures of `grub_mbi.h` that no code reads.
- Caches, 4 MB pages in `map_addresses` (it makes none), accessed and dirty bits, the
  instruction `hlt` waking up, double faults of the processor's own making.
- Printed wording, everywhere.
- Composition of `Segmentation` with `InitPaging`: no program of this commit takes an
  interrupt in a task's address space.

## 6. Plan

What is left, in the order of its importance to the system:

1. When `ring3_transition` is called (`tp_exam/tp.c:182`): tasks on the directories
   `InitPaging` builds, entering ring 0 through the TSS that `Segmentation` builds, on the
   words of `Interrupts`; the property is that the stack the processor pushes to is
   mapped in the directory in force.
2. A scheduler, when there is one: task switches at the timer's interrupt, with
   CR3 and TSS.s0.esp changed at different moments.
3. Proofs: the safety part of `AllConverted` (at the end of a format every argument is
   used), from `FormatInv`; `FieldsHold`, should the layouts get parameters.
