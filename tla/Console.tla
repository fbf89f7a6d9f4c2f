------------------------------- MODULE Console -------------------------------
(***************************************************************************)
(* The kernel's output: printf and panic of kernel/core/print.c, the       *)
(* polled transmitter of kernel/core/uart.c, and the interrupt handlers of *)
(* kernel/core/intr.c and excp.c, which print too.                         *)
(*                                                                         *)
(* The kernel runs with maskable interrupts off.  What can break into it   *)
(* is an interrupt or an exception of its own code, or a non-maskable      *)
(* interrupt, at any step.  The handler runs on top of what it interrupted *)
(* and prints with the same static buffer and the same transmitter.        *)
(*                                                                         *)
(* A character is a pair <<message, position>>; the wording and the        *)
(* arguments of a message are left out, its length is not.                 *)
(***************************************************************************)
EXTENDS Integers, Sequences, FiniteSets

CONSTANTS
    BUFSZ,      \* sizeof vprint_buffer
    Length,     \* the length of each message, before it is cut
    MaxTraps,   \* bound on the software interrupts of tp()
    MaxNMI      \* bound on the non-maskable interrupts

Message == {"release", "text", "halted",                \* of start() and tp()
            "event", "irq", "exception", "ignored",     \* of the handlers
            "trace", "fatal", "unsupported"}

ASSUME BufferAssumption == BUFSZ \in Nat \ {0}
ASSUME LengthAssumption == Length \in [Message -> Nat]
ASSUME BoundsAssumption == MaxTraps \in Nat /\ MaxNMI \in Nat

NUL == <<"NUL", 0>>
None == <<"none", 0>>       \* an empty transmitter

VARIABLES
    buffer,     \* vprint_buffer
    stack,      \* the activations, the one that runs first
    thr,        \* the transmitter's holding register
    line,       \* the characters the UART has sent
    traps, nmis \* the interrupts so far

vars == <<buffer, stack, thr, line, traps, nmis>>

\* What runs: main, or a handler on top of it.  `todo` is the messages it has
\* still to print, `at` the step of the print under way, `sz` its buf.sz, `n`
\* the count given to uart_write.
Kind == {"main", "trap", "fault", "nmi", "panic"}
Step == {"ready", "format", "poll", "send", "flush", "flush send", "halt"}
Activation == [kind : Kind, todo : Seq(Message), at : Step, sz : Nat, n : Nat]

Run(kind, todo) == [kind |-> kind, todo |-> todo, at |-> "ready", sz |-> 0, n |-> 0]

top == Head(stack)
message == Head(top.todo)
Continue(a) == stack' = <<a>> \o Tail(stack)
Push(a) == stack' = <<a>> \o stack

\* start(), once the UART and the IDT are set up: the banner, tp(), panic
Init ==
    /\ buffer = [i \in 0 .. BUFSZ - 1 |-> NUL]
    /\ stack = << Run("main", <<"release", "text", "halted">>) >>
    /\ thr = None /\ line = << >>
    /\ traps = 0 /\ nmis = 0

-----------------------------------------------------------------------------
(* __vprintf: format the message into the buffer, then write the buffer *)

StartPrint ==
    /\ top.at = "ready" /\ top.todo # << >>
    /\ Continue([top EXCEPT !.at = "format", !.sz = 0])
    /\ UNCHANGED <<buffer, thr, line, traps, nmis>>

\* len-- keeps room for the final NUL: __buf_add drops what does not fit.
\* (A definition whose name starts with Bad is a faulty variant of the one that
\* follows, a bug the properties must notice.)
BadRoom == BUFSZ
Room == BUFSZ - 1

\* What is printed of a message
Size(m) == IF Length[m] < Room THEN Length[m] ELSE Room

FormatChar ==
    /\ top.at = "format" /\ top.sz < Size(message)
    /\ buffer' = [buffer EXCEPT ![top.sz] = <<message, top.sz + 1>>]
    /\ Continue([top EXCEPT !.sz = @ + 1])
    /\ UNCHANGED <<thr, line, traps, nmis>>

\* __vsnprintf returns a count with the NUL, uart_write is given one less
BadCount == top.sz + 1
Count == top.sz

\* The NUL goes to buffer[sz] without a check
FormatEnd ==
    /\ top.at = "format" /\ top.sz = Size(message)
    /\ buffer' = [i \in DOMAIN buffer \cup {top.sz} |->
                     IF i = top.sz THEN NUL ELSE buffer[i]]
    /\ Continue([top EXCEPT !.at = "poll", !.sz = 0, !.n = Count])
    /\ UNCHANGED <<thr, line, traps, nmis>>

\* A conversion the kernel does not know: a panic on top of the print
Unsupported ==
    /\ top.at = "format" /\ message = "text"
    /\ Push(Run("panic", <<"unsupported">>))
    /\ UNCHANGED <<buffer, thr, line, traps, nmis>>

\* __uart_write: poll the transmitter until it is empty...
BadCanSend == TRUE
CanSend == thr = None

Poll ==
    /\ top.at = "poll" /\ top.sz < top.n
    /\ CanSend
    /\ Continue([top EXCEPT !.at = "send"])
    /\ UNCHANGED <<buffer, thr, line, traps, nmis>>

\* ... then give it the next character
Send ==
    /\ top.at = "send"
    /\ thr' = buffer[top.sz]
    /\ Continue([top EXCEPT !.at = "poll", !.sz = @ + 1])
    /\ UNCHANGED <<buffer, line, traps, nmis>>

EndPrint ==
    /\ top.at = "poll" /\ top.sz = top.n
    /\ Continue([top EXCEPT !.at = "ready", !.todo = Tail(@)])
    /\ UNCHANGED <<buffer, thr, line, traps, nmis>>

-----------------------------------------------------------------------------
(* panic after its message: uart_flush sends NULs, then the kernel halts *)

NULs == 16

StartFlush ==
    /\ top.at = "ready" /\ top.todo = << >>
    /\ top.kind \in {"main", "fault", "panic"}
    /\ Continue([top EXCEPT !.at = "flush", !.n = NULs])
    /\ UNCHANGED <<buffer, thr, line, traps, nmis>>

\* The faulty variant counts the polls, not the characters sent
BadFlushPoll ==
    /\ top.at = "flush" /\ top.n > 0
    /\ Continue(IF thr = None THEN [top EXCEPT !.at = "flush send"]
                              ELSE [top EXCEPT !.n = @ - 1])
    /\ UNCHANGED <<buffer, thr, line, traps, nmis>>
FlushPoll ==
    /\ top.at = "flush" /\ top.n > 0
    /\ CanSend
    /\ Continue([top EXCEPT !.at = "flush send"])
    /\ UNCHANGED <<buffer, thr, line, traps, nmis>>

FlushSend ==
    /\ top.at = "flush send"
    /\ thr' = NUL
    /\ Continue([top EXCEPT !.at = "flush", !.n = @ - 1])
    /\ UNCHANGED <<buffer, line, traps, nmis>>

Halt ==
    /\ top.at = "flush" /\ top.n = 0
    /\ Continue([top EXCEPT !.at = "halt"])
    /\ UNCHANGED <<buffer, thr, line, traps, nmis>>

-----------------------------------------------------------------------------
(* Interrupts: intr_hdlr prints the event, excp_hdlr what it does about it *)

\* tp() runs between the banner and the last panic
inTp == top.kind = "main" /\ top.at = "ready" /\ Len(top.todo) \in {1, 2}

\* An `int` with a vector above the exceptions'
SoftwareInterrupt ==
    /\ inTp /\ traps < MaxTraps
    /\ traps' = traps + 1
    /\ Push(Run("trap", <<"event", "irq">>))
    /\ UNCHANGED <<buffer, thr, line, nmis>>

\* tp() faults, or printf does on an argument of tp()'s: excp_hdlr does not return
Fault ==
    /\ top.kind = "main"
    /\ inTp \/ (top.at = "format" /\ message = "text")
    /\ Push(Run("fault", <<"event", "exception", "trace", "fatal">>))
    /\ UNCHANGED <<buffer, thr, line, traps, nmis>>

\* NMIs are blocked until the handler of the last one returns
NMI ==
    /\ nmis < MaxNMI
    /\ \A i \in DOMAIN stack : stack[i].kind # "nmi"
    /\ nmis' = nmis + 1
    /\ Push(Run("nmi", <<"event", "exception", "ignored">>))
    /\ UNCHANGED <<buffer, thr, line, traps>>

BadReturn ==
    /\ top.at = "ready" /\ top.todo = << >> /\ top.kind = "nmi"
    /\ stack' = Tail(stack)
    /\ UNCHANGED <<buffer, thr, line, traps, nmis>>

\* The handler returns to what it interrupted
Return ==
    /\ top.at = "ready" /\ top.todo = << >> /\ top.kind \in {"trap", "nmi"}
    /\ stack' = Tail(stack)
    /\ UNCHANGED <<buffer, thr, line, traps, nmis>>

\* The UART sends the character it holds
Transmit ==
    /\ thr # None
    /\ line' = Append(line, thr)
    /\ thr' = None
    /\ UNCHANGED <<buffer, stack, traps, nmis>>

Printf == StartPrint \/ FormatChar \/ FormatEnd \/ Poll \/ Send \/ EndPrint
Panic == StartFlush \/ FlushPoll \/ FlushSend \/ Halt
Cpu == Printf \/ Unsupported \/ Panic \/ SoftwareInterrupt \/ Fault \/ Return

Next == Cpu \/ NMI \/ Transmit

Spec == Init /\ [][Next]_vars

\* The processor goes on and the UART sends; nothing makes an NMI come.
FairSpec == Spec /\ WF_vars(Cpu) /\ WF_vars(Transmit)

-----------------------------------------------------------------------------
(* Properties *)

\* vprint_buffer (print.c:7) is never written past its end, whatever is printed
\* and whatever breaks in, and every message is one the kernel has.
TypeOK ==
    /\ DOMAIN buffer = 0 .. BUFSZ - 1
    /\ \A i \in DOMAIN buffer : buffer[i] \in (Message \X Nat) \cup {NUL}
    /\ stack \in Seq(Activation)
    /\ traps \in 0 .. MaxTraps /\ nmis \in 0 .. MaxNMI

\* The characters a message prints
Text(m) == [i \in 1 .. Size(m) |-> <<m, i>>]
Flush == [i \in 1 .. NULs |-> NUL]

\* What has been given to the line, and what is left to give of the print under way
Out == IF thr = None THEN line ELSE Append(line, thr)
Rest ==
    CASE top.at \in {"poll", "send"} ->
            [i \in 1 .. top.n - top.sz |-> buffer[top.sz + i - 1]]
      [] top.at \in {"flush", "flush send"} -> [i \in 1 .. top.n |-> NUL]
      [] OTHER -> << >>

L == INSTANCE Log WITH Texts <- {Text(m) : m \in Message} \cup {Flush},
                       out <- Out, rest <- Rest

\* Without NMIs, printf, panic and the handlers give the UART whole messages,
\* cut to the buffer, one after the other, with no character lost, repeated or
\* out of place, and every message begun is sent to its end.
ImplementsLog == L!FairSpec

\* When panic stops the kernel (print.c:19-20), the last message it printed has
\* left the UART: the flush pushes it out of the transmitter.
LastWords ==
    top.at = "halt" =>
        \E m \in {"halted", "fatal", "unsupported"}, k \in 0 .. NULs :
            LET last == Len(line) - k       \* where its last character is
            IN  /\ Size(m) <= last
                /\ \A i \in 1 .. Size(m) : line[last - Size(m) + i] = <<m, i>>
                /\ \A i \in last + 1 .. Len(line) : line[i] = NUL

\* What main prints, and where its characters are in the output
MainText == Text("release") \o Text("text") \o Text("halted")
Mine == {i \in 1 .. Len(Out) : Out[i][1] \in {"release", "text", "halted"}}

\* A non-maskable interrupt is ignored (excp.c:39): main's own text comes out as
\* if it had not come, each character in its turn.
TextIntact ==
    \A i \in Mine :
        LET turn == Cardinality({j \in Mine : j <= i})
        IN  turn <= Len(MainText) /\ Out[i] = MainText[turn]
=============================================================================
