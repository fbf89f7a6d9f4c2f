---------------------------- MODULE MCInitPaging ----------------------------
(***************************************************************************)
(* init_paging with tables of 16 entries, for RAM whose tables are zero    *)
(* and for RAM that still holds the tables of an earlier boot.             *)
(***************************************************************************)
EXTENDS InitPaging

Leftover == [p |-> TRUE, rw |-> TRUE, usr |-> TRUE, pfn |-> 9 * MB]

Filled(frames) ==
    [f \in Directories \cup Tables |->
        [i \in Entries |-> IF f \in frames THEN Leftover ELSE M!Zero]]

\* The directories hold anything: init_paging clears them
CleanTables == { Filled({}), Filled(Directories) }

\* A table of each task holds entries of before
StaleTables == { Filled({PT_BASE[d] + 1 : d \in Tasks}) }
=============================================================================
