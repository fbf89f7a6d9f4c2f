------------------------------- MODULE Pieces -------------------------------
(***************************************************************************)
(* The caller's side of printf.  A format is made of pieces: a piece is    *)
(* its characters with, for each argument it has, the words that are       *)
(* pushed and the bits that mean something.                                *)
(***************************************************************************)
EXTENDS Naturals, Sequences

Piece(chars, words, width) == [fmt |-> chars, args |-> words, bits |-> width]
Plain == { Piece(t, << >>, << >>) : t \in {<<"text">>, <<"%", "%">>, <<"%", "k">>} }

\* The conversions of C's printf, and the kernel's own B, D and X of 64 bits ("force size
\* to 64 bits", print.c:242)
Integer == {"d", "u", "x"}
Single == {"s", "c", "b", "p"}
Double == {"B", "D", "X"}
Lengths == { << >>, <<"l">>, <<"l", "l">>, <<"h">>, <<"h", "h">> }

Wide(length, conv) == conv \in Double \/ length = <<"l", "l">>
Bits(length, conv) ==
    IF Wide(length, conv) THEN 64
    ELSE IF length = <<"h">> THEN 16
    ELSE IF length = <<"h", "h">> \/ conv = "c" THEN 8
    ELSE 32
Conversion(digits, length, conv) ==
    Piece(<<"%">> \o [d \in 1 .. digits |-> "digit"] \o length \o <<conv>>,
          <<IF Wide(length, conv) THEN 2 ELSE 1>>, <<Bits(length, conv)>>)

IsPiece(p) ==
    \/ p \in Plain
    \/ \E digits \in 0 .. Len(p.fmt), conv \in Integer \union Single \union Double :
         \E length \in IF conv \in Integer THEN Lengths ELSE {<< >>} :
             p = Conversion(digits, length, conv)
=============================================================================
