------------------------------- MODULE Digits -------------------------------
(***************************************************************************)
(* The conversions of numbers of kernel/core/print.c: __format_add_idec,   *)
(* __format_add_udec, uint64_to_hex and __format_add_bin.  The digits are  *)
(* found from the last one on, kept in a small local array, and written    *)
(* from its end.                                                           *)
(*                                                                         *)
(* WIDTH stands for the 64 bits of a number.                               *)
(***************************************************************************)
EXTENDS Integers, SequencesExt

CONSTANTS
    WIDTH,      \* the bits of uint64_t, a multiple of 4
    DECSZ       \* the size of the array for decimal digits: 24

\* b to the power of n
Power(b, n) ==
    LET power[k \in Nat] == IF k = 0 THEN 1 ELSE b * power[k - 1] IN power[n]

\* 64 bits need 20 decimal digits, fewer than 24
WidthAssumption ==
    /\ WIDTH \in Nat \ {0} /\ WIDTH % 4 = 0
    /\ DECSZ \in Nat /\ Power(2, WIDTH) <= Power(10, DECSZ)

MIN == -Power(2, WIDTH - 1)
Minus == -16                    \* the character '-', which is no digit
HEXSZ == WIDTH \div 4           \* sizeof(uint64_t) * 2, and the greatest precision
Unlimited == Power(2, WIDTH)    \* (size_t)-1, far above HEXSZ

VARIABLES
    conv,       \* "idec", "udec", "hex" or "bin"
    number,     \* the argument
    asked,      \* the precision asked for, or the number of bits of bin
    value,      \* what is left of the number
    precision,  \* what is left of the precision
    rep,        \* the digits found, the last of the number first
    out,        \* the characters written
    at          \* "digits", "write", "done"

given == <<conv, number, asked>>
vars == <<given, value, precision, rep, out, at>>

\* Division as C has it: towards zero
Div(a, b) == IF a < 0 THEN -((-a) \div b) ELSE a \div b
Rem(a, b) == a - b * Div(a, b)

Greatest(c) == IF c = "idec" THEN Power(2, WIDTH - 1) - 1 ELSE Unlimited - 1
Asked(c) == CASE c = "hex" -> 0 .. HEXSZ + 2 [] c = "bin" -> {WIDTH \div 2, WIDTH} [] OTHER -> {0}

\* The negation of the least number overflows: it stays what it is, or is computed
\* without a sign
Negate(n) == IF n = MIN THEN {MIN, -MIN} ELSE {-n}

\* A precision of zero, or of more digits than a number has, is none
Precision(p) == IF p = 0 \/ p > HEXSZ THEN Unlimited ELSE p

Init ==
    /\ conv \in {"idec", "udec", "hex", "bin"}
    /\ number \in (IF conv = "idec" THEN MIN ELSE 0) .. Greatest(conv)
    /\ asked \in Asked(conv)
    /\ rep = << >> /\ at = "digits"
    /\ precision = IF conv = "hex" THEN Precision(asked) ELSE asked
    /\ IF conv = "idec" /\ number < 0
       THEN value \in Negate(number) /\ out = <<Minus>>
       ELSE value = number /\ out = << >>

Zero ==
    /\ conv \in {"idec", "udec"} /\ at = "digits"
    /\ number = 0
    /\ out' = <<0>> /\ at' = "done"
    /\ UNCHANGED <<given, value, precision, rep>>

\* A digit is value % 10 + '0', whatever the sign of the remainder
DecimalDigit ==
    /\ conv \in {"idec", "udec"} /\ at = "digits" /\ value # 0
    /\ rep' = Append(rep, Rem(value, 10))
    /\ value' = Div(value, 10)
    /\ UNCHANGED <<given, precision, out, at>>

\* Without a precision, until nothing is left, but once
MoreHex == precision # 0 /\ ~(precision > HEXSZ /\ value = 0 /\ rep # << >>)

HexDigit ==
    /\ conv = "hex" /\ at = "digits" /\ MoreHex
    /\ rep' = Append(rep, value % 16)
    /\ value' = value \div 16
    /\ precision' = precision - 1
    /\ UNCHANGED <<given, out, at>>

\* The bits are written as they are found, the highest first.  (A definition whose name
\* starts with Bad is a faulty variant of the one that follows, a bug the properties must
\* notice.)
BadBinShift == precision
BinShift == precision - 1
BinDigit ==
    /\ conv = "bin" /\ at = "digits" /\ precision > 0
    /\ out' = Append(out, (value \div Power(2, BinShift)) % 2)
    /\ precision' = precision - 1
    /\ UNCHANGED <<given, value, rep, at>>

EndDigits ==
    /\ at = "digits"
    /\ CASE conv = "hex" -> ~MoreHex
         [] conv = "bin" -> precision = 0
         [] OTHER -> number # 0 /\ value = 0
    /\ at' = "write"
    /\ UNCHANGED <<given, value, precision, rep, out>>

\* while(sz--)
Write ==
    /\ at = "write"
    /\ IF rep = << >> THEN at' = "done" /\ UNCHANGED <<rep, out>>
       ELSE out' = Append(out, Last(rep)) /\ rep' = Front(rep) /\ UNCHANGED at
    /\ UNCHANGED <<given, value, precision>>

Next == Zero \/ DecimalDigit \/ HexDigit \/ BinDigit \/ EndDigits \/ Write

Spec == Init /\ [][Next]_vars

-----------------------------------------------------------------------------
(* Properties *)

\* The number that digits of a base stand for
ValueOf(digits, base) ==
    LET worth[n \in 0 .. Len(digits)] ==
            IF n = 0 THEN 0 ELSE base * worth[n - 1] + digits[n]
    IN  worth[Len(digits)]

Unsigned == IF out # << >> /\ out[1] = Minus THEN Tail(out) ELSE out
Canonical(digits, base) ==
    /\ digits # << >> /\ \A i \in 1 .. Len(digits) : digits[i] \in 0 .. base - 1
    /\ Len(digits) > 1 => digits[1] # 0

\* What is written is the numeral of the number, with its sign and no leading zero;
\* with a precision, that many digits of it, zeros included.  (All numbers but the
\* least one, whose negation overflows.)  The local arrays hold the digits of every
\* number, the least one included.
NumeralExact ==
    /\ Len(rep) <= IF conv = "hex" THEN HEXSZ ELSE DECSZ
    /\ at = "done" =>
        CASE conv \in {"idec", "udec"} ->
                number # MIN =>
                    /\ Canonical(Unsigned, 10)
                    /\ number = (IF Unsigned = out THEN 1 ELSE -1) * ValueOf(Unsigned, 10)
          [] conv = "hex" ->
                IF asked \in 1 .. HEXSZ
                THEN Len(out) = asked /\ ValueOf(out, 16) = number % Power(16, asked)
                ELSE Canonical(out, 16) /\ ValueOf(out, 16) = number
          [] conv = "bin" -> Len(out) = asked /\ ValueOf(out, 2) = number % Power(2, asked)

\* Every conversion comes to this, that of the least number included.
Done == at = "done"
=============================================================================
