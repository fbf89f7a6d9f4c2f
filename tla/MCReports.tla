------------------------------ MODULE MCReports ------------------------------
(***************************************************************************)
(* The reports on small memories: what each of them is given.  The digits  *)
(* are of every number of 8 bits, in arrays of 2 hexadecimal digits and of *)
(* 3 decimal ones.                                                         *)
(***************************************************************************)
EXTENDS Reports, SequencesExt

CONSTANTS ro, rw

-----------------------------------------------------------------------------
(* The page report, on directories of 4 entries: every content of one table over
   three consecutive frames, the last frame of memory and two values of the flags,
   after a 4 MB page and before one, up to the end of memory. *)

Entries == {Absent} \cup [p : {TRUE}, attr : {ro}, pfn : {4, 5, 15, 0}]
                    \cup [p : {TRUE}, attr : {rw}, pfn : {4, 5}]
OneTable == { [t \in {1, 2} |-> tab] : tab \in [Index -> Entries] }

Large == [p |-> TRUE, ps |-> TRUE, attr |-> rw, pfn |-> 8]
Table(t) == [p |-> TRUE, ps |-> FALSE, table |-> t]
MCDirs ==
    { [i \in Index |-> s[i + 1]] :
        s \in { <<Large, Table(1), Absent, Absent>>, <<Absent, Table(1), Large, Table(2)>> } }

-----------------------------------------------------------------------------
(* The GDT report, on tables of three entries: any base, limit and granularity, then
   any type.  16 bytes of memory, in pages of two. *)

Request(base, lim, g, s, type, dpl) ==
    [base |-> base, limit |-> lim, g |-> g, s |-> s, type |-> type, dpl |-> dpl]
MCGdts ==
    {[k \in 0 .. 2 |-> CASE k = 0 -> Request(0, 0, 0, 0, 0, 0)
                         [] k = 1 -> Request(b, l, g, 1, 2, 0)
                         [] k = 2 -> Request(b, 7 - l, 1 - g, s, t, 3)] :
        b \in {0, 3, 4, 7, 8, 15}, l \in 0 .. 7, g \in 0 .. 1, s \in 0 .. 1, t \in 0 .. 15}

-----------------------------------------------------------------------------
(* tp0's memory map, of up to three regions, from the first address on, that end at
   4 GB, across it and above.  4 GB are 8 units. *)

Regions ==
    { [addr |-> 0, len |-> 3, type |-> 1], [addr |-> 3, len |-> 1, type |-> 2],
      [addr |-> 6, len |-> 2, type |-> 2], [addr |-> 7, len |-> 2, type |-> 3],
      [addr |-> 9, len |-> 1, type |-> 4], [addr |-> 8, len |-> 8, type |-> 5] }

\* GRUB gives at least one
MCMaps == SeqOf(Regions, 3) \ {<< >>}

-----------------------------------------------------------------------------
(* The stack trace, with two words of GRUB's below the kernel's stack.  Its frames are
   in order too: each ebp saved is above the one it is saved at, or null.  The ebp that
   entry.s is given may be any of these, or anything above. *)

StackTop == Below + Stack
MCBoots ==
    {b \in [ebp : 0 .. Below - 1 \union {StackTop, StackTop + 1},
            below : [0 .. Below - 1 -> 0 .. StackTop + 1]] :
        \A a \in 0 .. Below - 1 :
            b.below[a] \in {0, StackTop, StackTop + 1} \union a + 1 .. Below - 1}

-----------------------------------------------------------------------------
(* Formats of two conversions, each with every modifier that means something for it,
   and the calls of the repository by their shapes. *)

P == INSTANCE Pieces

Conv(digits, length, conv) == P!Conversion(digits, length, conv)
Conversions ==
    {Conv(0, length, conv) : length \in P!Lengths, conv \in P!Integer}
    \cup {Conv(d, length, conv) : d \in 1 .. 2, length \in { << >>, <<"l">>, <<"l", "l">> },
                                  conv \in P!Integer}
    \cup {Conv(d, << >>, conv) : d \in 0 .. 1, conv \in P!Single \cup P!Double}
    \cup P!Plain

\* print_selector_content, #PF details, display_interrupt_descriptor,
\* print_block_info's flags, tp4's two strings
Shapes ==
    LET d == Conv(0, << >>, "d")        x == Conv(0, << >>, "x")
        s == Conv(0, << >>, "s")        p == Conv(0, << >>, "p")
        lx == Conv(2, <<"l">>, "x")     t == P!Piece(<<"text">>, << >>, << >>)
    IN  {<<t, d, s, d, t>>, <<d, d, d, d, x>>, <<lx, lx, x>>, <<s, s, s>>, <<p, s, p, s>>}
MCCalls == {<<a, b>> : a, b \in Conversions} \cup Shapes
=============================================================================
