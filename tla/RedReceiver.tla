---------------------------- MODULE RedReceiver -----------------------------
(***************************************************************************)
(* RedReceiver, the jitter and recovery buffer of internal/pipeline/red.go *)
(* (lines 233-399).  Every method runs under r.mu, so each is one action.  *)
(*                                                                         *)
(* The component alone accepts any packet at any time: ReceiverSpec is     *)
(* what holds of the buffer whatever the network, the sender and the four  *)
(* reader goroutines do.  RedLink and RtpAdapter reuse the actions.        *)
(***************************************************************************)
EXTENDS RedFormat, FiniteSets

CONSTANTS
    MaxBufferSize,   \* NewRedReceiver(maxBufferSize): 8 in the RTP adapter
    MaxPackets       \* bound: packets pushed in one behaviour

ASSUME ReceiverAssumption ==
    /\ MaxBufferSize \in Nat \ {0}
    /\ MaxPackets \in Nat

VARIABLES
    buffer,            \* map[uint16]MediaPacket, here number -> payload
    nextSeq,           \* the next number PopNext will account for
    initialized,       \* has the first packet fixed nextSeq?
    PacketsReceived, PacketsLost, PacketsRecovered

receiverVars == <<buffer, nextSeq, initialized,
                  PacketsReceived, PacketsLost, PacketsRecovered>>

metrics == <<PacketsReceived, PacketsLost, PacketsRecovered>>

Buffered == DOMAIN buffer

ReceiverInit ==
    /\ buffer = [s \in {} |-> s]
    /\ nextSeq = 0
    /\ initialized = FALSE
    /\ PacketsReceived = 0
    /\ PacketsLost = 0
    /\ PacketsRecovered = 0

-----------------------------------------------------------------------------
\* Where playout stands when p is pushed: the first packet decides it.
Base(p) == IF initialized THEN nextSeq ELSE p.SequenceNumber

\* Mutant: insert without its test.
Inserted_LateToo(p) == {BlockSeq(p, i) : i \in DOMAIN p.blocks}

\* The numbers insert accepts from p: those not already played.
Inserted(p) ==
    {s \in {BlockSeq(p, i) : i \in DOMAIN p.blocks} : ~ seqBefore(s, Base(p))}

\* The block stored under s.  A later block overwrites an earlier one.
BlockFor(p, s) ==
    CHOOSE i \in DOMAIN p.blocks :
        /\ BlockSeq(p, i) = s
        /\ \A j \in DOMAIN p.blocks : BlockSeq(p, j) = s => j <= i

\* Mutant: blocks that are in the buffer are counted again.
Recovered_Again(p) == {s \in Inserted(p) : s < p.SequenceNumber}

\* The numbers Push counts as recovered.  The test that a block precedes the
\* packet is a plain <, not seqBefore.
Recovered(p) == {s \in Inserted(p) : s < p.SequenceNumber} \ Buffered

Push(p) ==
    /\ PacketsReceived' = PacketsReceived + 1
    /\ nextSeq' = Base(p)
    /\ initialized' = TRUE
    /\ buffer' = [s \in Buffered \cup Inserted(p) |->
                    IF s \in Inserted(p) THEN p.blocks[BlockFor(p, s)].data
                                         ELSE buffer[s]]
    /\ PacketsRecovered' = PacketsRecovered + Cardinality(Recovered(p))
    /\ UNCHANGED PacketsLost

(***************************************************************************)
(* PopNext(force), one action per return.  It returns                      *)
(*   (pkt, true, false)   PopHit   the next packet is there;               *)
(*   (mark, true, true)   PopSkip  it is missing and playout must move on; *)
(*   (_, false, false)    PopNone  it is missing and may still come.       *)
(***************************************************************************)
\* Mutant: only a buffer that exceeds its size moves playout on.
MustSkip_Exceeds(force) == force \/ Cardinality(Buffered) > MaxBufferSize

MustSkip(force) == force \/ Cardinality(Buffered) >= MaxBufferSize

\* Mutant: the packet is removed, nextSeq stays.
PopHit_Stays ==
    /\ initialized
    /\ nextSeq \in Buffered
    /\ buffer' = [s \in Buffered \ {nextSeq} |-> buffer[s]]
    /\ UNCHANGED <<nextSeq, initialized, metrics>>

PopHit ==
    /\ initialized
    /\ nextSeq \in Buffered
    /\ buffer' = [s \in Buffered \ {nextSeq} |-> buffer[s]]
    /\ nextSeq' = SeqInc(nextSeq)
    /\ UNCHANGED <<initialized, metrics>>

\* Mutant: skips without looking for the next packet.
PopSkip_Blindly(force) ==
    /\ initialized
    /\ MustSkip(force)
    /\ Buffered # {}
    /\ PacketsLost' = PacketsLost + 1
    /\ nextSeq' = SeqInc(nextSeq)
    /\ UNCHANGED <<buffer, initialized, PacketsReceived, PacketsRecovered>>

PopSkip(force) ==
    /\ initialized
    /\ nextSeq \notin Buffered
    /\ MustSkip(force)
    /\ Buffered # {}
    /\ PacketsLost' = PacketsLost + 1
    /\ nextSeq' = SeqInc(nextSeq)
    /\ UNCHANGED <<buffer, initialized, PacketsReceived, PacketsRecovered>>

PopNone(force) ==
    /\ \/ ~ initialized
       \/ nextSeq \notin Buffered /\ (Buffered = {} \/ ~ MustSkip(force))
    /\ UNCHANGED receiverVars

\* Reset, called by the adapter's Start.
ReceiverReset ==
    /\ buffer' = [s \in {} |-> s]
    /\ initialized' = FALSE
    /\ nextSeq' = 0
    /\ PacketsReceived' = 0
    /\ PacketsLost' = 0
    /\ PacketsRecovered' = 0

-----------------------------------------------------------------------------
\* Any datagram: every number, every list of up to MaxDepth + 1 blocks.
AnyBlock == [offset : {k * FrameSamples : k \in 0 .. MaxDepth}, data : {0}]

AnyPacket ==
    [SequenceNumber : SeqNum, Timestamp : {0}, PayloadType : {112},
     blocks : UNION {[1 .. n -> AnyBlock] : n \in 1 .. MaxDepth + 1}]

ReceiverNext ==
    \/ PacketsReceived < MaxPackets /\ \E p \in AnyPacket : Push(p)
    \/ PopHit
    \/ \E force \in BOOLEAN : PopSkip(force) \/ PopNone(force)
    \/ ReceiverReset

ReceiverSpec == ReceiverInit /\ [][ReceiverNext]_receiverVars

-----------------------------------------------------------------------------
\* The shape of the receiver's state.
ReceiverTypeOK ==
    /\ Buffered \subseteq SeqNum
    /\ buffer = [s \in Buffered |-> buffer[s]]
    /\ nextSeq \in SeqNum
    /\ initialized \in BOOLEAN
    /\ PacketsReceived \in Nat
    /\ PacketsLost \in Nat
    /\ PacketsRecovered \in Nat

(***************************************************************************)
(* No packet in the buffer is behind playout, across any wrap of the       *)
(* sequence space.  A packet left behind could never be popped: it would   *)
(* count against MaxBufferSize for 32768 positions and make PopNext        *)
(* conceal frames that are only late.                                      *)
(***************************************************************************)
NoStrandedPacket == \A s \in Buffered : ~ seqBefore(s, nextSeq)

(***************************************************************************)
(* Nothing is buffered before the first packet has fixed nextSeq, also     *)
(* after a Reset: PopNext would never look at it.                          *)
(***************************************************************************)
IdleIsEmpty == ~ initialized => Buffered = {} /\ PacketsLost = 0
=============================================================================
