--------------------------- MODULE MapRefinement ----------------------------
(***************************************************************************)
(* map_addresses implements AddressSpace, when its calls are Covered and   *)
(* RAM holds zeroes: the address space of a directory is what its entries  *)
(* translate to, and a call owes the pages p_start has not reached yet.    *)
(***************************************************************************)
EXTENDS MapAddresses

Owed(c, k) == [space |-> c.pgd, page |-> c.v + k,
               to |-> pg_set_entry(c.flags, c.p + k)]

Request(c) == {Owed(c, k) : k \in 0 .. c.size - 1}

translation == [d \in Pgd |-> [w \in Page |-> Pte(mem, d, w)]]

\* The pages of the request that are still to be written
todo ==
    IF pc = "idle" THEN {}
    ELSE {Owed(req, k) : k \in (p - req.p) % NPAGES .. req.size - 1}

Abstract == INSTANCE AddressSpace WITH
                Space <- Pgd, VPage <- Page, Unmapped <- Zero,
                Requests <- {Request(c) : c \in Calls}

\* A call installs the translations of its range one after the other, each
\* once, and touches no other page of any address space, until none is owed.
ImplementsAddressSpace == Abstract!FairSpec
=============================================================================
