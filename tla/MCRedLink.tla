------------------------------ MODULE MCRedLink -----------------------------
(***************************************************************************)
(* The watched link on an instance small enough to wrap within a run:      *)
(* numbers modulo 10 and 10 frames, so that packSeq wraps and playout      *)
(* crosses it, with up to three frames a packet, a buffer of 3 and five    *)
(* deliveries, duplicates included.                                        *)
(***************************************************************************)
EXTENDS RedRecovery
=============================================================================
