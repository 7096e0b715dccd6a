------------------------------ MODULE MCRecorder ------------------------------
(***************************************************************************)
(* Model checking Recorder: the worker with its local recorder, and one    *)
(* service in two processes of one group.                                  *)
(***************************************************************************)
EXTENDS Recorder

CONSTANTS local, service1, service2, worker, process

MCSubs == {local, service1, service2}

MCBusOf == [s \in MCSubs |-> IF s = service2 THEN process ELSE worker]

MCGroupOf == [s \in MCSubs |-> IF s = local THEN "local-recorder" ELSE "workers"]
=============================================================================
