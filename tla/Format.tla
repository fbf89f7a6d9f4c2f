------------------------------- MODULE Format -------------------------------
(***************************************************************************)
(* __vsnprintf of kernel/core/print.c: a state machine over the characters *)
(* of a format that takes its arguments from the caller's stack with       *)
(* va_arg, 32 bits or 64 at a time.  Nothing but the format says how many  *)
(* words an argument has, so one that is taken too short or too long       *)
(* shifts all that follow.                                                 *)
(*                                                                         *)
(* A character of a format is a token: "%", a modifier ("l", "h", "digit"),*)
(* a conversion, "text" for another character; "k" stands for a conversion *)
(* the kernel does not know.                                               *)
(***************************************************************************)
EXTENDS Naturals, SequencesExt, Pieces

CONSTANT Calls      \* the calls, as the sequences of the pieces of their formats

CallsAssumption ==
    \A k \in Calls : k \in Seq(Range(k)) /\ \A j \in 1 .. Len(k) : IsPiece(k[j])

VARIABLES
    fmt, args, bits,    \* the call
    at,             \* the next character
    interp, lng, size,
    params,         \* the words not taken yet
    taken,          \* what each conversion took: its words, and the bits it converts
    panicked        \* panic was called: it does not return

-----------------------------------------------------------------------------
call == <<fmt, args, bits>>
vars == <<call, at, interp, lng, size, params, taken, panicked>>

\* A word of the stack: its argument and its place in it
Word(arg, part) == <<arg, part>>

\* The words of the arguments, and below them what the caller's frame holds
Junk == Word(0, 0)
Pushed(a) ==
    FlattenSeq([i \in 1 .. Len(a) |-> [p \in 1 .. a[i] |-> Word(i, p)]]) \o <<Junk, Junk>>

Init ==
    /\ \E k \in Calls : /\ fmt = FlattenSeq([j \in 1 .. Len(k) |-> k[j].fmt])
                       /\ args = FlattenSeq([j \in 1 .. Len(k) |-> k[j].args])
                       /\ bits = FlattenSeq([j \in 1 .. Len(k) |-> k[j].bits])
    /\ at = 1
    /\ interp = FALSE /\ lng = FALSE /\ size = 4
    /\ params = Pushed(args)
    /\ taken = << >> /\ panicked = FALSE

c == fmt[at]
Reading == at <= Len(fmt) /\ ~panicked
Interpreting == Reading /\ interp
Advance == at' = at + 1

Percent ==
    /\ Reading /\ ~interp /\ c = "%"
    /\ interp' = TRUE /\ size' = 4
    /\ Advance /\ UNCHANGED <<call, lng, params, taken, panicked>>

Text ==
    /\ Reading /\ ~interp /\ c # "%"
    /\ Advance /\ UNCHANGED <<call, interp, lng, size, params, taken, panicked>>

Long ==
    /\ Interpreting /\ c = "l"
    /\ IF lng THEN size' = 8 /\ UNCHANGED lng ELSE lng' = TRUE /\ UNCHANGED size
    /\ Advance /\ UNCHANGED <<call, interp, params, taken, panicked>>

Short ==
    /\ Interpreting /\ c = "h"
    /\ size' = size \div 2
    /\ Advance /\ UNCHANGED <<call, interp, lng, params, taken, panicked>>

\* Padding and precision are skipped
Digit ==
    /\ Interpreting /\ c = "digit"
    /\ Advance /\ UNCHANGED <<call, interp, lng, size, params, taken, panicked>>

\* va_arg of `words` words, of which `width` bits are converted
Take(words, width) ==
    /\ taken' = Append(taken, [words |-> SubSeq(params, 1, words), width |-> width])
    /\ params' = SubSeq(params, words + 1, Len(params))

Converted == interp' = FALSE /\ lng' = FALSE

\* d, i, u, x obey the modifiers
Sized ==
    /\ Interpreting /\ c \in Integer
    /\ IF size >= 8 THEN Take(2, 64)
       ELSE Take(1, CASE size = 4 -> 32 [] size = 2 -> 16 [] OTHER -> 8)
    /\ Converted /\ Advance /\ UNCHANGED <<call, size, panicked>>

\* The others have a size of their own
OneWord ==
    /\ Interpreting /\ c \in Single
    /\ Take(1, IF c = "c" THEN 8 ELSE 32)
    /\ Converted /\ Advance /\ UNCHANGED <<call, size, panicked>>

\* The kernel's own conversions take 64 bits.  (A definition whose name starts with Bad is
\* a faulty variant of the one that follows, a bug the properties must notice.)
BadTwoWords ==
    /\ Interpreting /\ c \in Double
    /\ Take(1, 64)
    /\ Converted /\ Advance /\ UNCHANGED <<call, size, panicked>>
TwoWords ==
    /\ Interpreting /\ c \in Double
    /\ Take(2, 64)
    /\ Converted /\ Advance /\ UNCHANGED <<call, size, panicked>>

EscapedPercent ==
    /\ Interpreting /\ c = "%"
    /\ Converted /\ Advance /\ UNCHANGED <<call, size, params, taken, panicked>>

Unsupported ==
    /\ Interpreting /\ c = "k"
    /\ panicked' = TRUE
    /\ UNCHANGED <<call, at, interp, lng, size, params, taken>>

Next == \/ Percent \/ Text \/ Long \/ Short \/ Digit
        \/ Sized \/ OneWord \/ TwoWords \/ EscapedPercent \/ Unsupported

Spec == Init /\ [][Next]_vars

-----------------------------------------------------------------------------
(* Properties *)

\* Every conversion takes the words of its own argument, all of them and no other, and
\* keeps as many bits of it as its own modifiers say: whatever modifiers the conversions
\* before it had.
ArgumentsInStep ==
    \A i \in 1 .. Len(taken) :
        /\ i <= Len(args)
        /\ taken[i].words = [p \in 1 .. args[i] |-> Word(i, p)]
        /\ taken[i].width = bits[i]

\* The whole format is read and every argument is used, or the kernel panics: at a
\* conversion it does not know, and only there.
AllConverted ==
    \/ at > Len(fmt) /\ Len(taken) = Len(args) /\ ~interp
    \/ panicked /\ c = "k"
=============================================================================
