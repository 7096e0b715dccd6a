---------------------------- MODULE MCRtpAdapter ----------------------------
(***************************************************************************)
(* Two of the four goroutines, which can overtake one another between any  *)
(* two of their locks, on four packets with a buffer of 2.                 *)
(***************************************************************************)
EXTENDS RtpAdapter
=============================================================================
