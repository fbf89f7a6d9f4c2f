-------------------------------- MODULE Log ---------------------------------
(***************************************************************************)
(* What the console promises: messages come out one after the other, whole *)
(* and in order, character by character.                                   *)
(***************************************************************************)
EXTENDS Sequences

CONSTANT Texts      \* the texts that may be printed

VARIABLES
    out,    \* the characters handed to the line, in order
    rest    \* what is left of the message under way

Init == out = << >> /\ rest = << >>

Begin ==
    /\ rest = << >>
    /\ rest' \in Texts
    /\ UNCHANGED out

Emit ==
    /\ rest # << >>
    /\ out' = Append(out, Head(rest))
    /\ rest' = Tail(rest)

Next == Begin \/ Emit

Spec == Init /\ [][Next]_<<out, rest>>

\* A message begun comes out to its end
FairSpec == Spec /\ WF_<<out, rest>>(Emit)
=============================================================================
