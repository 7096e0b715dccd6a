----------------------------- MODULE RedRecovery ----------------------------
(***************************************************************************)
(* RedLink, watched for what PacketsRecovered counts (internal/pipeline/   *)
(* red.go:297-305): "If this is a redundant block and is not already in    *)
(* the buffer, and hasn't been played yet, it means we successfully        *)
(* recovered a lost packet via RED!".  The observer records which frames a *)
(* push counted; it changes nothing.                                       *)
(***************************************************************************)
EXTENDS RedLink

VARIABLE claimed     \* frames counted as recovered

recoveryVars == <<vars, claimed>>

RecoveryInit == LinkInit /\ claimed = {}

WatchedDeliver(p) ==
    /\ Deliver(p)
    /\ claimed' = claimed \cup
                     {p.blocks[BlockFor(p, s)].data : s \in Recovered(p)}

RecoveryNext ==
    \/ \E p \in net : WatchedDeliver(p)
    \/ Unheard /\ UNCHANGED claimed

\* A reader goroutine pops until PopNext returns nothing.
RecoverySpec ==
    /\ RecoveryInit /\ [][RecoveryNext]_recoveryVars
    /\ WF_vars(Pop)

-----------------------------------------------------------------------------
(***************************************************************************)
(* A frame is counted as recovered at most once, however often and in      *)
(* whatever order the packets that carry it are delivered.                 *)
(***************************************************************************)
RecoveredOnce == PacketsRecovered = Cardinality(claimed)
=============================================================================
