--------------------------- MODULE MCMapAddresses ---------------------------
(***************************************************************************)
(* Small instances of map_addresses: directories and tables of 4 entries,  *)
(* an address space of 16 pages, two directories (frames 1 and 6) with     *)
(* their tables in the frames that follow.                                 *)
(***************************************************************************)
EXTENDS MapRefinement, FiniteSets, Functions

MCPgd == {1, 6}
MCBase == [d \in MCPgd |-> d + 1]
MCFrame == {1, 2, 3, 4, 6, 8, 9, 10}

KRW == [rw |-> TRUE, usr |-> FALSE]
URW == [rw |-> TRUE, usr |-> TRUE]
URO == [rw |-> FALSE, usr |-> TRUE]

CallOf(d, from, to, n, fl) ==
    [pgd |-> d, ptb |-> d + 1, v |-> from, p |-> to, size |-> n,
     flags |-> fl, aligned |-> TRUE]

\* Ranges in one table, up to a table's last page, over several tables from a
\* 4 MB boundary, up to the last page of memory, onto pages mapped before,
\* empty and misaligned ones.
CoveredCalls ==
    { CallOf(1, 0, 0, 2, KRW),       CallOf(1, 4, 4, 7, URW),
      CallOf(1, 6, 12, 1, URO),      CallOf(6, 5, 13, 3, URW),
      CallOf(6, 12, 0, 4, KRW),      CallOf(6, 9, 2, 0, URW),
      CallOf(6, 8, 3, 1, URO),
      [CallOf(1, 2, 2, 1, KRW) EXCEPT !.aligned = FALSE] }

\* RAM full of zeroes
ZeroImages == { [f \in MCFrame |-> [i \in Index |-> Zero]] }

\* RAM whose tables hold what ran before: entries that are present
Leftover == [p |-> TRUE, rw |-> TRUE, usr |-> TRUE, pfn |-> 15]
StaleImages ==
    { [f \in MCFrame |-> [i \in Index |->
          IF f \in MCPgd \/ <<f, i>> \in zeroed THEN Zero ELSE Leftover]] :
      zeroed \in {{}} \cup {{<<f, i>>} : f \in MCFrame \ MCPgd, i \in Index} }

\* The reach of the calls is also what they do not cover: a range that starts
\* inside a table and goes on in the next.
CrossingCalls == CoveredCalls \cup { CallOf(1, 3, 3, 2, URW) }
=============================================================================
