----------------------------- MODULE StackTrace -----------------------------
(***************************************************************************)
(* The kernel's stack from entry.s on, its frames as calls and returns     *)
(* leave them, and stack_trace (kernel/core/stack.c), which excp_hdlr      *)
(* calls at a fault with the ebp of the code that faulted, before its      *)
(* panic.  Memory is counted in words, and paging is off.                  *)
(***************************************************************************)
EXTENDS Naturals, SequencesExt

CONSTANTS
    Below,      \* the words that are GRUB's, below the kernel's stack
    Stack,      \* the words of the kernel's stack
    MaxDepth,   \* calls below start (a bound)
    MaxLines,   \* lines of a trace that are recorded (a bound)
    Boots       \* what GRUB leaves: its ebp, and the words below

StackAssumption ==
    /\ Below \in Nat \ {0} /\ Stack \in Nat /\ Stack >= 2 /\ MaxLines \in Nat
    /\ \A b \in Boots : b.ebp \in Nat /\ b.below \in [0 .. Below - 1 -> Nat]

KernelStart == Below + Stack        \* &__kernel_start__, the top of the stack

VARIABLES
    mem,
    esp, ebp,
    calls,      \* the return addresses of the active calls, the last one first
    trace,      \* the ebp of stack_trace; not in use before the fault
    lines,      \* what it has printed
    at          \* "run", "trace", "panic"

vars == <<mem, esp, ebp, calls, trace, lines, at>>

\* A return address is outside the stack and names the call it is of
Eip(n) == KernelStart + 1 + n

\* call, then push %ebp and mov %esp, %ebp
Entered(m, sp, bp, eip) == [m EXCEPT ![sp - 1] = eip, ![sp - 2] = bp]

\* entry.s calls start with the ebp that GRUB had
Init ==
    \E b \in Boots :
        LET m == [a \in 0 .. KernelStart |-> IF a < Below THEN b.below[a] ELSE 0]
        IN  /\ mem = Entered(m, KernelStart, b.ebp, Eip(0))
            /\ esp = KernelStart - 2 /\ ebp = KernelStart - 2
            /\ calls = <<Eip(0)>>
            /\ trace = 0 /\ lines = << >> /\ at = "run"

\* A function that has "locals" words of its own calls another one
Call(locals) ==
    /\ at = "run" /\ Len(calls) <= MaxDepth
    /\ esp - locals - 2 >= Below
    /\ mem' = Entered(mem, esp - locals, ebp, Eip(Len(calls)))
    /\ esp' = esp - locals - 2
    /\ ebp' = esp - locals - 2
    /\ calls' = <<Eip(Len(calls))>> \o calls
    /\ UNCHANGED <<trace, lines, at>>

\* leave, ret: the words stay where they are
Return ==
    /\ at = "run" /\ Len(calls) > 1
    /\ esp' = ebp + 2
    /\ ebp' = mem[ebp]
    /\ calls' = Tail(calls)
    /\ UNCHANGED <<mem, trace, lines, at>>

\* A fault: excp_hdlr calls stack_trace(ctx->gpr.ebp.raw)
Fault ==
    /\ at = "run"
    /\ trace' = ebp
    /\ at' = "trace"
    /\ UNCHANGED <<mem, esp, ebp, calls, lines>>

\* while(ebp && ebp < &__kernel_start__).  (A definition whose name starts with Bad is a
\* faulty variant of the one that follows, a bug the properties must notice.)
BadFollowed == trace < KernelStart
Followed == trace # 0 /\ trace < KernelStart

\* One turn of the loop
BadFrame ==
    /\ at = "trace" /\ Followed
    /\ lines' = IF Len(lines) < MaxLines THEN Append(lines, mem[mem[trace] + 1]) ELSE lines
    /\ trace' = mem[trace]
    /\ UNCHANGED <<mem, esp, ebp, calls, at>>
Frame ==
    /\ at = "trace" /\ Followed
    /\ lines' = IF Len(lines) < MaxLines THEN Append(lines, mem[trace + 1]) ELSE lines
    /\ trace' = mem[trace]
    /\ UNCHANGED <<mem, esp, ebp, calls, at>>

\* The loop ends, and panic("fatal exception !") follows
Panic ==
    /\ at = "trace" /\ ~Followed
    /\ at' = "panic"
    /\ UNCHANGED <<mem, esp, ebp, calls, trace, lines>>

Calling == (\E l \in {0, 1} : Call(l)) \/ Return \/ Fault
Tracing == Frame \/ Panic
Next == Calling \/ Tracing

Spec == Init /\ [][Next]_vars

-----------------------------------------------------------------------------
(* Properties *)

\* Whatever was called and has returned before, a trace starts with the return
\* addresses of the active calls, the innermost first, each once; none is missing when
\* it ends.
CallersFirst ==
    /\ \A i \in 1 .. Len(lines) : i <= Len(calls) => lines[i] = calls[i]
    /\ at = "panic" => Len(lines) >= (IF Len(calls) < MaxLines THEN Len(calls) ELSE MaxLines)

\* A fault is reported to its last word: the trace ends and "fatal exception !" follows.
Begun == at = "trace"
Reported == at = "panic"
=============================================================================
