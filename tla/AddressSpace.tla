---------------------------- MODULE AddressSpace ----------------------------
(***************************************************************************)
(* What map_addresses promises its caller: a set of address spaces, each a *)
(* map from pages to translations.  A request names pages of one address   *)
(* space and their translations; they are installed one at a time, nothing *)
(* else changes, and the next request waits until all are in place.        *)
(***************************************************************************)
CONSTANTS
    Space,      \* the address spaces
    VPage,      \* the pages of an address space
    Unmapped,   \* the translation of a page never mapped
    Requests    \* the requests: sets of records [space, page, to]

VARIABLES
    translation,  \* translation[s][w]: what the page w of s maps to
    todo          \* the installations still owed to the request under way

Init ==
    /\ translation = [s \in Space |-> [w \in VPage |-> Unmapped]]
    /\ todo = {}

Request ==
    /\ todo = {}
    /\ todo' \in Requests
    /\ UNCHANGED translation

Install ==
    \E t \in todo :
        /\ translation' = [translation EXCEPT ![t.space][t.page] = t.to]
        /\ todo' = todo \ {t}

Next == Request \/ Install

Spec == Init /\ [][Next]_<<translation, todo>>

\* What is owed is installed: a request does not stop halfway.
FairSpec == Spec /\ WF_<<translation, todo>>(Install)
=============================================================================
