----------------------------- MODULE RtcpEngine -----------------------------
(***************************************************************************)
(* RTCPFeedbackEngine (internal/rtcp/rtcp.go): loss is counted from the    *)
(* gaps between consecutive arrivals and turned into a redundancy depth.   *)
(* Every method runs under e.mu, so each is one action.  Jitter, which     *)
(* nothing in the system reacts to, and RecordLoss, which nothing in it    *)
(* calls, are left out.                                                    *)
(***************************************************************************)
EXTENDS SeqArith

CONSTANT GapLimit    \* 30000: a larger step is taken for an old packet

ASSUME GapAssumption == GapLimit \in Nat /\ GapLimit <= Half

VARIABLES lastSeq, packetsRecv, packetsLost, recommended

engineVars == <<lastSeq, packetsRecv, packetsLost, recommended>>

EngineInit ==
    /\ lastSeq = 0
    /\ packetsRecv = 0
    /\ packetsLost = 0
    /\ recommended = 2

\* Mutants: the arrival itself counted, and the difference of two ints.
Gap_Inclusive(seq) ==
    LET diff == SeqDiff(seq, lastSeq)
    IN  IF lastSeq # 0 /\ diff > 1 /\ diff < GapLimit THEN diff ELSE 0

Gap_Int(seq) ==
    LET diff == seq - lastSeq
    IN  IF lastSeq # 0 /\ diff > 1 /\ diff < GapLimit THEN diff - 1 ELSE 0

\* What an arrival adds to the loss.  A lastSeq of 0 stands for "none yet".
Gap(seq) ==
    LET diff == SeqDiff(seq, lastSeq)
    IN  IF lastSeq # 0 /\ diff > 1 /\ diff < GapLimit THEN diff - 1 ELSE 0

RecordArrival(seq) ==
    /\ packetsRecv' = packetsRecv + 1
    /\ packetsLost' = packetsLost + Gap(seq)
    /\ lastSeq' = seq
    /\ UNCHANGED recommended

\* The depth recommended for a loss of more than 15%, less than 5%, or between.
DepthFor(lost, total) ==
    IF 100 * lost > 15 * total THEN 3
    ELSE IF total = 0 \/ 100 * lost < 5 * total THEN 1 ELSE 2

GenerateReport ==
    /\ recommended' = DepthFor(packetsLost, packetsRecv + packetsLost)
    /\ UNCHANGED <<lastSeq, packetsRecv, packetsLost>>

\* The report built from the engine's new state.
Report == [TotalLost |-> packetsLost', HighestSeq |-> lastSeq',
           RecommendedRED |-> recommended']

EngineTypeOK ==
    /\ lastSeq \in SeqNum
    /\ packetsRecv \in Nat
    /\ packetsLost \in Nat
    /\ recommended \in 1 .. 3
=============================================================================
