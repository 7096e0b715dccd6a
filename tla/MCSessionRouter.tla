-------------------------- MODULE MCSessionRouter ---------------------------
(***************************************************************************)
(* Two connections of two calls, or both without a session_id, as the      *)
(* dashboard connects, and so of one.                                      *)
(***************************************************************************)
EXTENDS SessionRouter, TLC

CONSTANTS c1, c2, call

AnyURLs == {c1 :> call @@ c2 :> NoId, c1 :> NoId @@ c2 :> NoId}
=============================================================================
