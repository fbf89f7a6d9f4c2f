----------------------------- MODULE MCConsole ------------------------------
(***************************************************************************)
(* The console on a buffer of 4 characters, and its end.  The lengths take *)
(* in messages that are empty, shorter than the room, as long as it, and   *)
(* longer.                                                                 *)
(***************************************************************************)
EXTENDS Console

MCLength == [m \in Message |->
    CASE m \in {"event", "fatal"}                 -> 5
      [] m \in {"text", "unsupported", "trace"}   -> 3
      [] m \in {"ignored", "irq"}                 -> 1
      [] m = "release"                            -> 0
      [] OTHER                                    -> 2]

-----------------------------------------------------------------------------

\* The kernel always comes to its panic and halts, whatever interrupts it takes,
\* NMIs too: no print waits for ever and every handler ends.
Halts == <>[](top.at = "halt")
=============================================================================
