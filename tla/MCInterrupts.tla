---------------------------- MODULE MCInterrupts ----------------------------
(***************************************************************************)
(* The interrupt path with a vector of every kind: exceptions without and  *)
(* with an error code, the NMI, a reserved vector, the lines of both PICs  *)
(* and the `int` instructions of the tps (int3, int $48) and of the exam   *)
(* (int $0x80).                                                            *)
(***************************************************************************)
EXTENDS Interrupts

MCVectors == {0, 13, 17}
MCIntVectors == {3, 20, 48, 128}
MCIrqs == {0, 7, 14}
=============================================================================
