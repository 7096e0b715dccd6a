----------------------------- MODULE MCRtcpLoop -----------------------------
(***************************************************************************)
(* Nine packets modulo 8, six arrivals and a report every third number: a  *)
(* gap before, at and after the wrap, and up to three packets overtaking.  *)
(***************************************************************************)
EXTENDS RtcpLoop
=============================================================================
