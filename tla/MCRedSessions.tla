---------------------------- MODULE MCRedSessions ---------------------------
(***************************************************************************)
(* Two runs of three frames, numbers modulo 16: the second run's numbers   *)
(* are behind the first's by less than half the space.                     *)
(***************************************************************************)
EXTENDS RedSessions
=============================================================================
