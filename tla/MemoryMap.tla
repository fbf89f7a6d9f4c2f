------------------------------ MODULE MemoryMap -----------------------------
(***************************************************************************)
(* tp() of tp0: it lists the memory map that GRUB leaves in the multiboot  *)
(* information, then reads, writes and reads again three addresses.        *)
(* Addresses are in units of any size; places in the map are in bytes.     *)
(***************************************************************************)
EXTENDS Integers, Sequences

CONSTANTS
    FOUR_GB,    \* 4 GB, in those units
    Maps,       \* sequences of regions [addr, len, type], 64-bit as in the map
    Reserved,   \* the address of the second probe
    Ram,        \* what keeps a write
    Dword        \* what a word may hold

MapsAssumption ==
    FOUR_GB \in Nat \ {0} /\ \A m \in Maps : m \in Seq([addr : Nat, len : Nat \ {0}, type : Nat])

VARIABLES
    map,        \* at mmap_addr
    mmap_length,
    entry,      \* from mmap_addr
    lines,
    mem,
    probed,     \* of each probe: its address, and what it read before and after
    at

vars == <<map, mmap_length, entry, lines, mem, probed, at>>

SIZEOF == 24                        \* struct multiboot_mmap_entry, packed
Uint32(n) == n % FOUR_GB
Probed == {0, Reserved, FOUR_GB - 1}
Pattern == 10                       \* 0xaaaaaaaa

Init ==
    /\ map \in Maps /\ mmap_length = SIZEOF * Len(map)
    /\ entry = 0 /\ lines = << >>
    /\ mem \in [Probed -> Dword]
    /\ probed = << >> /\ at = "walk"

\* What is after the map
Junk == [addr |-> 1, len |-> 1, type |-> 0]
Entry == IF entry < mmap_length THEN map[1 + entry \div SIZEOF] ELSE Junk

intTypeToChar(num) ==
    CASE num = 1 -> "AVAILABLE" [] num = 2 -> "RESERVED"
      [] num = 3 -> "ACPI_RECLAIMABLE" [] num = 4 -> "NVS" [] OTHER -> "ERROR"

\* (A definition whose name starts with Bad is a faulty variant of the one that
\* follows, a bug the properties must notice.)
BadLine(e) ==
    [first |-> Uint32(e.addr), last |-> Uint32(e.addr + e.len), name |-> intTypeToChar(e.type)]
Line(e) ==
    [first |-> Uint32(e.addr), last |-> Uint32(e.len + e.addr - 1),
     name |-> intTypeToChar(e.type)]

Walk ==
    /\ at = "walk" /\ entry < mmap_length
    /\ lines' = Append(lines, Line(Entry))
    /\ entry' = entry + SIZEOF
    /\ UNCHANGED <<map, mmap_length, mem, probed, at>>

EndWalk ==
    /\ at = "walk" /\ entry >= mmap_length
    /\ at' = "probe"
    /\ UNCHANGED <<map, mmap_length, entry, lines, mem, probed>>

\* The addresses of the probes, as pointers of 32 bits: the last one is cut to 0
Pointers == <<0, Reserved, Uint32(FOUR_GB)>>

Probe ==
    /\ at = "probe"
    /\ LET a == Pointers[Len(probed) + 1] IN
       /\ mem' = IF a \in Ram THEN [mem EXCEPT ![a] = Pattern] ELSE mem
       /\ probed' = Append(probed, [addr |-> a, before |-> mem[a], after |-> mem'[a]])
    /\ at' = IF Len(probed) + 1 = Len(Pointers) THEN "done" ELSE at
    /\ UNCHANGED <<map, mmap_length, entry, lines>>

Next == Walk \/ EndWalk \/ Probe
Spec == Init /\ [][Next]_vars

-----------------------------------------------------------------------------
(* Properties *)

\* Region i ends below 4 GB
Below4GB(i) == map[i].addr + map[i].len <= FOUR_GB

\* The list has a line for each region of the map, in its order and no more: its first
\* and its last address, also when that is the last of the 4 GB, as tp0's README has
\* them.  (A region above 4 GB has a line too, with its addresses cut.)
MapListed ==
    at # "walk" =>
        /\ Len(lines) = Len(map)
        /\ \A i \in {k \in DOMAIN map : Below4GB(k)} :
              /\ lines[i].first = map[i].addr
              /\ lines[i].last - lines[i].first + 1 = map[i].len

\* The walk ends, and then the probes.
Done == at = "done"
=============================================================================
