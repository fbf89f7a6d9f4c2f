------------------------------- MODULE Strings ------------------------------
(***************************************************************************)
(* The string functions of kernel/include/string.h, one repetition of a    *)
(* string instruction at a time.                                           *)
(* Each runs with the direction flag cleared, which __fix_str_dir saves    *)
(* and restores.                                                           *)
(***************************************************************************)
EXTENDS Integers

CONSTANTS
    Addr,       \* the addresses
    Byte,       \* what a byte may hold, 0 included
    Boots       \* what may be asked of what memory: [mem, call]

LONG == 4       \* sizeof(ulong_t)

Ops == {"memset", "memcpy", "strchr", "strlen"}

ASSUME AddrAssumption == Addr \subseteq Nat

Call == [op : Ops, dst : Nat, src : Nat, c : Byte, size : Nat]
ASSUME BootsAssumption == Boots \subseteq [mem : [Addr -> Byte], call : Call]

\* The bytes of memset and memcpy exist; strlen searches a zero
Fits(k) ==
    /\ k.op \in {"memset", "memcpy"} => k.dst .. k.dst + k.size - 1 \subseteq Addr
    /\ k.op = "memcpy" => k.src .. k.src + k.size - 1 \subseteq Addr
    /\ k.op = "strlen" => k.c = 0
ASSUME FitsAssumption == \A b \in Boots : Fits(b.call)

VARIABLES
    mem,
    old,        \* mem at the call
    call,
    df,         \* the direction flag
    flags,      \* what save_flags saved
    caller,     \* the direction flag at the call
    edi, esi, ecx,
    pc,         \* "split", "words", "after", "bytes", "scan", "done"
    zf,         \* the last byte scanned was the one searched for
    found       \* what strchr returns, -1 for a null pointer, or strlen

vars == <<mem, old, call, caller, df, flags, edi, esi, ecx, pc, zf, found>>

Init ==
    /\ \E b \in Boots : mem = b.mem /\ old = b.mem /\ call = b.call
    /\ df \in {0, 1} /\ flags = df /\ caller = df
    /\ edi = call.dst /\ esi = call.src /\ ecx = 0
    /\ pc = "split" /\ zf = FALSE /\ found = 0

\* cnt and rm, as __divrm gives them
Words == call.size \div LONG
Rest == call.size % LONG

\* save_flags, cld
Rep(count, at) == ecx' = count /\ pc' = at /\ flags' = df /\ df' = 0

\* load_flags
EndRep(at) == pc' = at /\ df' = flags /\ UNCHANGED flags

Split ==
    /\ pc = "split" /\ call.op \notin {"strchr", "strlen"}
    /\ IF Words > 0 THEN Rep(Words, "words")
       ELSE IF Rest > 0 THEN Rep(Rest, "bytes")
       ELSE pc' = "done" /\ UNCHANGED <<df, flags, ecx>>
    /\ UNCHANGED <<mem, old, call, caller, edi, esi, zf, found>>

Step(w) == IF df = 0 THEN w ELSE -w

\* stos or movs of w bytes
Store(w) ==
    /\ ecx > 0
    /\ mem' = [a \in Addr |->
                  IF a \in edi .. edi + w - 1
                  THEN IF call.op = "memcpy" THEN mem[esi + (a - edi)] ELSE call.c
                  ELSE mem[a]]
    /\ edi' = edi + Step(w)
    /\ esi' = IF call.op = "memcpy" THEN esi + Step(w) ELSE esi
    /\ ecx' = ecx - 1
    /\ UNCHANGED <<old, call, caller, df, flags, pc, zf, found>>

StoreWord == pc = "words" /\ Store(LONG)
StoreByte == pc = "bytes" /\ Store(1)

EndWords ==
    /\ pc = "words" /\ ecx = 0
    /\ EndRep("after")
    /\ UNCHANGED <<mem, old, call, caller, edi, esi, ecx, zf, found>>

\* dloc.linear += cnt * sizeof(ulong_t).  (A definition whose name starts with Bad is a
\* faulty variant of the one that follows, a bug the properties must notice.)
BadAfter ==
    /\ pc = "after"
    /\ edi' = call.dst + LONG * Words
    /\ esi' = call.src
    /\ IF Rest > 0 THEN Rep(Rest, "bytes") ELSE pc' = "done" /\ UNCHANGED <<df, flags, ecx>>
    /\ UNCHANGED <<mem, old, call, caller, zf, found>>
After ==
    /\ pc = "after"
    /\ edi' = call.dst + LONG * Words
    /\ esi' = IF call.op = "memcpy" THEN call.src + LONG * Words ELSE esi
    /\ IF Rest > 0 THEN Rep(Rest, "bytes") ELSE pc' = "done" /\ UNCHANGED <<df, flags, ecx>>
    /\ UNCHANGED <<mem, old, call, caller, zf, found>>

EndBytes ==
    /\ pc = "bytes" /\ ecx = 0
    /\ EndRep("done")
    /\ UNCHANGED <<mem, old, call, caller, edi, esi, ecx, zf, found>>

\* strchr's length; strlen's is -1, which no string reaches
StartScan ==
    /\ pc = "split" /\ call.op \in {"strchr", "strlen"}
    /\ Rep(IF call.op = "strchr" THEN call.size ELSE -1, "scan")
    /\ UNCHANGED <<mem, old, call, caller, edi, esi, zf, found>>

\* repnz scasb
ScanByte ==
    /\ pc = "scan" /\ ecx # 0 /\ ~zf
    /\ zf' = (mem[edi] = call.c)
    /\ edi' = edi + Step(1)
    /\ ecx' = ecx - 1
    /\ UNCHANGED <<mem, old, call, caller, df, flags, esi, pc, found>>

BadEndScan ==
    /\ pc = "scan" /\ (ecx = 0 \/ zf)
    /\ found' = IF call.op = "strlen" THEN edi - call.dst ELSE IF ecx = 0 THEN -1 ELSE edi - 1
    /\ EndRep("done")
    /\ UNCHANGED <<mem, old, call, caller, edi, esi, ecx, zf>>
EndScan ==
    /\ pc = "scan" /\ (ecx = 0 \/ zf)
    /\ found' = IF call.op = "strlen" THEN (edi - 1) - call.dst
                ELSE IF ecx = 0 THEN -1 ELSE edi - 1
    /\ EndRep("done")
    /\ UNCHANGED <<mem, old, call, caller, edi, esi, ecx, zf>>

Next ==
    \/ Split \/ StoreWord \/ StoreByte \/ EndWords \/ After \/ EndBytes
    \/ StartScan \/ ScanByte \/ EndScan

Spec == Init /\ [][Next]_vars

-----------------------------------------------------------------------------
(* Properties *)

Target == call.dst .. call.dst + call.size - 1

\* memset and memcpy never write a byte outside those asked for, not even for a moment,
\* and the searches write none.
OutsideUntouched ==
    /\ call.op \in {"memset", "memcpy"} => \A a \in Addr \ Target : mem[a] = old[a]
    /\ call.op \in {"strchr", "strlen"} => mem = old

\* memset ends with every byte asked for set, whatever the alignment and the direction
\* flag of the caller.
SetWhole == pc = "done" /\ call.op = "memset" => \A a \in Target : mem[a] = call.c

\* memcpy, of memory that is apart or further on, ends with the bytes that were there.
Copied ==
    pc = "done" /\ call.op = "memcpy"
        /\ (call.dst <= call.src \/ call.src + call.size <= call.dst) =>
            \A a \in Target : mem[a] = old[call.src + (a - call.dst)]

\* The caller's direction flag is as it was.
FlagRestored == pc = "done" => df = caller

\* memset and memcpy do what they are asked to, to the bytes they are asked for and to no
\* other, and every function gives the direction flag back.
StoresExact == OutsideUntouched /\ SetWhole /\ Copied /\ FlagRestored

\* strlen is the place of the first zero.  strchr finds the first byte that is c, but
\* not in the last place, where it cannot tell it from none.
Searched ==
    pc = "done" =>
        /\ call.op = "strlen" =>
                mem[call.dst + found] = 0 /\ \A i \in 0 .. found - 1 : mem[call.dst + i] # 0
        /\ call.op = "strchr" =>
                IF found = -1
                THEN \A a \in call.dst .. call.dst + call.size - 2 : mem[a] # call.c
                ELSE mem[found] = call.c /\ \A a \in call.dst .. found - 1 : mem[a] # call.c
=============================================================================
