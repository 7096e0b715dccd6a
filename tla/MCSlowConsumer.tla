---------------------------- MODULE MCSlowConsumer ----------------------------
(***************************************************************************)
(* Model checking SlowConsumer: two generations, a queue of two, and       *)
(* enough messages to fill it, evict, and come upon the reader.            *)
(***************************************************************************)
EXTENDS SlowConsumer
=============================================================================
