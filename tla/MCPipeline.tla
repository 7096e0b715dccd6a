----------------------------- MODULE MCPipeline -----------------------------
(***************************************************************************)
(* Model checking Pipeline: the globalPipeline of the worker, with the RTP *)
(* and the replay adapter as its sources.                                  *)
(***************************************************************************)
EXTENDS Pipeline
=============================================================================
