------------------------------- MODULE MCSetup -------------------------------
(***************************************************************************)
(* Small instances of Setup for TLC.                                       *)
(***************************************************************************)
EXTENDS Setup, FiniteSetsExt

CONSTANT Top   \* the last address of the string functions' memory

(* Strings: every store that fits in two words and the bytes of a third *)

MCAddr == 0 .. Top
MCByte == 0 .. Top + 3

\* A memory whose bytes all differ, and none is what memset sets
Distinct == [a \in Addr |-> a + 3]
StoreCalls ==
    {k \in [op : {"memset", "memcpy"}, dst : Addr, src : Addr, c : {2}, size : 0 .. Top + 1] :
        /\ k.dst + k.size <= Top + 1 /\ k.src + k.size <= Top + 1
        /\ k.op = "memset" => k.src = 0}

\* Memories of bytes that are c, 0, or not, with a last one that is
Marked(s) == [a \in Addr |-> IF a \in s \union {Top} THEN 0 ELSE 1]
SearchCalls ==
    {k \in [op : {"strchr", "strlen"}, dst : {0, 1}, src : {0}, c : {0}, size : 0 .. Top] :
        k.op = "strlen" => k.size = 0}

MCBoots ==
    [mem : {Distinct}, call : StoreCalls]
        \union [mem : {Marked(s) : s \in SUBSET (0 .. 5)}, call : SearchCalls]

(* The start, with the trampolines at the first address of .idt_jmp (utils/linker.lds,
   tp0/README.md:38), and the handlers bp_handler of tp2, syscall_isr of tp5, and one
   in another 64 KB *)
FirstTrampoline == 3153936
Handlers ==
    { [nr |-> 3, handler |-> FirstTrampoline + 4096 + 32, ring |-> 0],
      [nr |-> 48, handler |-> FirstTrampoline + 4096 + 64, ring |-> 3],
      [nr |-> 48, handler |-> FirstTrampoline + 65536, ring |-> 3] }

(* The serial line.  Three of the bits of fcr that are not set have any value: rx and tx,
   which clear the FIFOs, and rx_trigger's lowest. *)
AnyJunk == {SumSet(b) : b \in SUBSET {2, 4, 64}}
=============================================================================
