------------------------------ MODULE RtcpLoop ------------------------------
(***************************************************************************)
(* The feedback loop: packets arrive at the adapter (rtp.go:193-201), the  *)
(* engine counts them, every ReportEvery-th number triggers a receiver     *)
(* report (rtp.go:353-374), and the sender's feedback goroutine follows    *)
(* the depth it recommends (cmd/sender/main.go:104-127).                   *)
(*                                                                         *)
(* A packet may arrive in any order, more than once, or never, as long as  *)
(* no more than Lifetime newer ones were sent: the network reorders, and   *)
(* so do the four reader goroutines between ReadFrom and RecordArrival.    *)
(* Reports may be delayed, reordered or lost as well.                      *)
(***************************************************************************)
EXTENDS RtcpEngine, FiniteSets

CONSTANTS
    ReportEvery,    \* 50 in the code
    Lifetime,       \* how many newer packets an arriving one may have
    MaxFrames,      \* bound: packets sent
    MaxArrivals     \* bound: packets arriving

ASSUME LoopAssumption ==
    /\ ReportEvery \in Nat \ {0}
    /\ Lifetime \in Nat /\ Lifetime < GapLimit
    /\ MaxFrames \in Nat /\ MaxArrivals \in Nat

VARIABLES
    useRed,      \* the sender's -red flag
    depth,       \* the packer's depth
    sent,        \* packets sent; packet f has number f % SeqMod
    first,       \* the first packet to arrive, or -1
    last,        \* the last packet to arrive
    arrived,     \* the packets that arrived
    inOrder,     \* did each arrival come after all before it?
    zeroGap,     \* did a gap follow a packet numbered 0?
    due,         \* reports whose GenerateReport is still to come
    reports      \* reports on their way to the sender

loopVars == <<useRed, depth, sent, first, last, arrived, inOrder, zeroGap,
              due, reports>>

vars == <<engineVars, loopVars>>

Number(f) == f % SeqMod

LoopInit ==
    /\ EngineInit
    /\ useRed \in BOOLEAN
    /\ depth = IF useRed THEN 2 ELSE 0
    /\ sent = 0
    /\ first = -1
    /\ last = -1
    /\ arrived = {}
    /\ inOrder = TRUE
    /\ zeroGap = FALSE
    /\ due = 0
    /\ reports = {}

\* The sender sends a packet, unless the last arrival would be too far back.
Send ==
    /\ sent < MaxFrames
    /\ arrived # {} => sent - last < Lifetime
    /\ sent' = sent + 1
    /\ UNCHANGED <<engineVars, useRed, depth, first, last, arrived, inOrder,
                   zeroGap, due, reports>>

Arrive(f) ==
    /\ packetsRecv < MaxArrivals
    /\ sent - f <= Lifetime
    /\ RecordArrival(Number(f))
    /\ due' = IF Number(f) % ReportEvery = 0 THEN due + 1 ELSE due
    /\ first' = IF arrived = {} THEN f ELSE first
    /\ last' = f
    /\ arrived' = arrived \cup {f}
    /\ inOrder' = (inOrder /\ \A g \in arrived : g < f)
    /\ zeroGap' = (zeroGap \/ (last >= 0 /\ Number(last) = 0 /\ f > last + 1))
    /\ UNCHANGED <<useRed, depth, sent, reports>>

\* sendRTCPReport, in the goroutine of an arrival: others may come first.
SendReport ==
    /\ due > 0
    /\ GenerateReport
    /\ due' = due - 1
    /\ reports' = reports \cup {Report}
    /\ UNCHANGED <<useRed, depth, sent, first, last, arrived, inOrder,
                   zeroGap>>

\* Mutant: the -red flag is not looked at.
Obey_Always(r) ==
    /\ depth' = r.RecommendedRED
    /\ reports' = reports \ {r}
    /\ UNCHANGED <<engineVars, useRed, sent, first, last, arrived, inOrder,
                   zeroGap, due>>

\* A report reaches the sender, which obeys it if it was started with -red.
Obey(r) ==
    /\ depth' = IF useRed THEN r.RecommendedRED ELSE depth
    /\ reports' = reports \ {r}
    /\ UNCHANGED <<engineVars, useRed, sent, first, last, arrived, inOrder,
                   zeroGap, due>>

Lose(r) ==
    /\ reports' = reports \ {r}
    /\ UNCHANGED <<engineVars, useRed, depth, sent, first, last, arrived,
                   inOrder, zeroGap, due>>

LoopNext ==
    \/ Send
    \/ \E f \in 0 .. sent - 1 : Arrive(f)
    \/ SendReport
    \/ \E r \in reports : Obey(r) \/ Lose(r)

LoopSpec == LoopInit /\ [][LoopNext]_vars

-----------------------------------------------------------------------------
\* The shape of the loop's state.
LoopTypeOK ==
    /\ EngineTypeOK
    /\ useRed \in BOOLEAN
    /\ depth \in 0 .. 3
    /\ arrived \subseteq 0 .. sent - 1
    /\ due \in Nat
    /\ \A r \in reports : r.RecommendedRED \in 1 .. 3

\* The packets after the first arrival and before the latest that never came.
Newest == CHOOSE f \in arrived : \A g \in arrived : g <= f
Missing == IF arrived = {} THEN {} ELSE (first .. Newest) \ arrived

(***************************************************************************)
(* The loss the engine reports is exact as long as packets arrive in       *)
(* order, over wraps of the sequence number: every missing packet once.    *)
(* The exception is a gap behind number 0, which lastSeq cannot tell from  *)
(* no arrival.                                                             *)
(***************************************************************************)
ExactInOrder == inOrder /\ ~ zeroGap => packetsLost = Cardinality(Missing)

(***************************************************************************)
(* Reordering and duplicates never hide a loss: with the same exception,   *)
(* at least the missing packets are counted.                               *)
(***************************************************************************)
LossNotUnderstated == ~ zeroGap => packetsLost >= Cardinality(Missing)

(***************************************************************************)
(* A sender started with -red never stops sending redundancy, and one      *)
(* started without never begins to, whatever reports it receives.          *)
(***************************************************************************)
ModeKept == useRed <=> depth >= 1
=============================================================================
