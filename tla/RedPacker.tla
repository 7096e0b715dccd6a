------------------------------ MODULE RedPacker -----------------------------
(***************************************************************************)
(* RedPacker, the RFC 2198 packetizer of internal/pipeline/red.go (lines   *)
(* 24-143).  Every method runs under p.mu, so each is one action.  The     *)
(* sender's feedback goroutine calls SetDepth between any two Packs.       *)
(*                                                                         *)
(* An Opus payload is the number of its frame in the stream: "sent" counts *)
(* the frames packed since the last Reset.                                 *)
(***************************************************************************)
EXTENDS RedFormat

CONSTANT MaxFrames    \* bound: frames packed between two Resets

ASSUME PackerAssumption == MaxFrames \in Nat

VARIABLES
    depth,        \* how many redundant blocks to add
    history,      \* the last primaries, oldest first
    packSeq,      \* nextSeq
    packTime,     \* nextTime
    sent          \* frames packed so far, and so the next payload

packerVars == <<depth, history, packSeq, packTime, sent>>

Depths == 0 .. MaxDepth

\* Mutant: history[:depth].
LastOf_First(s, n) == IF Len(s) > n THEN SubSeq(s, 1, n) ELSE s

\* The last n elements of s, or all of it.
LastOf(s, n) == IF Len(s) > n THEN SubSeq(s, Len(s) - n + 1, Len(s)) ELSE s

PackerInit ==
    /\ depth \in Depths
    /\ history = <<>>
    /\ packSeq = 0
    /\ packTime = 0
    /\ sent = 0

Primary == [SequenceNumber |-> packSeq, Timestamp |-> packTime,
            Payload |-> sent]

\* A redundant block: history entry m behind the primary.
Redundant(m) == [offset |-> RedOffset(packTime, m.Timestamp),
                 data |-> m.Payload]

\* The packet Pack returns.
Packed ==
    LET old  == LastOf(history, depth)
        main == [offset |-> 0, data |-> sent]
    IN  [SequenceNumber |-> packSeq,
         Timestamp      |-> packTime,
         PayloadType    |-> IF depth = 0 THEN 111 ELSE 112,
         blocks         |-> IF depth = 0 THEN <<main>>
                            ELSE Append([i \in DOMAIN old |-> Redundant(old[i])],
                                        main)]

\* The history once the primary is in it: at most one entry is dropped.
Extended ==
    LET longer == Append(history, Primary)
    IN  IF Len(longer) > depth THEN Tail(longer) ELSE longer

\* A depth of 0 returns before the history is updated.
Pack ==
    /\ packSeq' = SeqInc(packSeq)
    /\ packTime' = TimeInc(packTime)
    /\ history' = IF depth = 0 THEN history ELSE Extended
    /\ sent' = sent + 1
    /\ UNCHANGED depth

SetDepth(d) ==
    /\ depth' = d
    /\ history' = LastOf(history, d)
    /\ UNCHANGED <<packSeq, packTime, sent>>

PackerReset ==
    /\ packSeq' = 0
    /\ packTime' = 0
    /\ history' = <<>>
    /\ sent' = 0
    /\ UNCHANGED depth

PackerNext ==
    \/ sent < MaxFrames /\ Pack
    \/ \E d \in Depths : SetDepth(d)
    \/ PackerReset

PackerSpec == PackerInit /\ [][PackerNext]_packerVars

-----------------------------------------------------------------------------
\* The shape of the packer's state.
PackerTypeOK ==
    /\ depth \in Depths
    /\ history \in Seq([SequenceNumber : SeqNum, Timestamp : Time,
                        Payload : Nat])
    /\ Len(history) <= depth
    /\ packSeq \in SeqNum
    /\ packTime \in Time
    /\ sent \in Nat

(***************************************************************************)
(* The history is exactly the last frames, without a gap, whatever depths  *)
(* the feedback asked for on the way: entry i is as many numbers, as many  *)
(* samples and as many frames before the next frame as its place says.     *)
(***************************************************************************)
HistoryRecent ==
    \A i \in DOMAIN history :
        LET back == Len(history) - i + 1
        IN  /\ history[i].SequenceNumber = SeqDiff(packSeq, back)
            /\ history[i].Timestamp = TimeDiff(packTime, back * FrameSamples)
            /\ history[i].Payload = sent - back

(***************************************************************************)
(* Whatever the packer would send now, UnpackRED and Push give every frame *)
(* in it back its own number and timestamp, on both sides of a wrap of     *)
(* either counter: no frame can be played in another's place.              *)
(***************************************************************************)
WireFaithful ==
    \A i \in DOMAIN Packed.blocks :
        LET back == Len(Packed.blocks) - i
        IN  /\ Packed.blocks[i].data = sent - back
            /\ BlockSeq(Packed, i) = SeqDiff(packSeq, back)
            /\ BlockTime(Packed, i) = TimeDiff(packTime, back * FrameSamples)
=============================================================================
