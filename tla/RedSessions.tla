----------------------------- MODULE RedSessions ----------------------------
(***************************************************************************)
(* Two runs of the sender against one worker, as the README's experiments  *)
(* ask for (Scenario A, then Scenario B).  Each run starts a new packer at *)
(* sequence number 0; the adapter resets its receiver in Start only, so    *)
(* the second run meets the state the first one left.                      *)
(***************************************************************************)
EXTENDS RedLink

VARIABLES
    run,         \* which run of the sender this is
    arrived,     \* the second run's frames whose packets were delivered
    accepted     \* the second run's frames that entered the buffer

sessionVars == <<vars, run, arrived, accepted>>

SessionsInit ==
    /\ LinkInit
    /\ run = 1
    /\ arrived = {}
    /\ accepted = {}

\* The sender is started anew.  Nothing of the first run is in flight.
NewRun ==
    /\ run = 1
    /\ sent = MaxFrames
    /\ run' = 2
    /\ depth' \in Depths
    /\ history' = <<>>
    /\ packSeq' = 0
    /\ packTime' = 0
    /\ sent' = 0
    /\ net' = {}
    /\ UNCHANGED <<receiverVars, cursor, heard, out, arrived, accepted>>

SessionDeliver(p) ==
    /\ Deliver(p)
    /\ arrived' = IF run = 2 THEN arrived \cup {FrameOf(p)} ELSE arrived
    /\ accepted' =
         IF run = 2
         THEN accepted \cup {p.blocks[BlockFor(p, s)].data : s \in Inserted(p)}
         ELSE accepted
    /\ UNCHANGED run

SessionsNext ==
    \/ NewRun
    \/ \E p \in net : SessionDeliver(p)
    \/ Unheard /\ UNCHANGED <<run, arrived, accepted>>

SessionsSpec == SessionsInit /\ [][SessionsNext]_sessionVars

-----------------------------------------------------------------------------
(***************************************************************************)
(* When every packet of the second run arrives, something of it is         *)
(* recorded ("the recorded file is almost full size", README.md:153).  The *)
(* code takes the whole run for old packets of the first one.              *)
(***************************************************************************)
SecondRunRecorded ==
    arrived = 0 .. MaxFrames - 1 => accepted # {}
=============================================================================
