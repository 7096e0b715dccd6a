------------------------- MODULE RedReceiver_proofs -------------------------
(***************************************************************************)
(* What RedReceiver keeps for every width of the sequence space, every     *)
(* buffer size and every redundancy depth 14 bits can express: its type,   *)
(* and that no packet is ever stranded behind playout.  First the lemmas   *)
(* about the uint16 and uint32 arithmetic and the RED header.              *)
(***************************************************************************)
EXTENDS RedReceiver, FiniteSetTheorems, TLAPS

-----------------------------------------------------------------------------
(***************************************************************************)
(* The uint16 operations stay in range.                                    *)
(***************************************************************************)
LEMMA SeqArithType ==
    ASSUME NEW a \in SeqNum, NEW b \in SeqNum
    PROVE  SeqInc(a) \in SeqNum /\ SeqDiff(a, b) \in SeqNum
BY HalfAssumption DEF SeqNum, SeqMod, SeqInc, SeqDiff

(***************************************************************************)
(* Playout moves by one over a number: of all that were not behind it,     *)
(* only that number now is.                                                *)
(***************************************************************************)
LEMMA NotBeforeNext ==
    ASSUME NEW s \in SeqNum, NEW n \in SeqNum, s # n, ~ seqBefore(s, n)
    PROVE  ~ seqBefore(s, SeqInc(n))
BY HalfAssumption DEF SeqNum, SeqMod, SeqInc, seqBefore

(***************************************************************************)
(* A set of sequence numbers is finite.                                    *)
(***************************************************************************)
LEMMA SeqNumsFinite ==
    ASSUME NEW S, S \subseteq SeqNum
    PROVE  IsFiniteSet(S) /\ Cardinality(S) \in Nat
<1>1. SeqMod - 1 \in Int  BY HalfAssumption DEF SeqMod
<1>2. IsFiniteSet(SeqNum)  BY <1>1, FS_Interval DEF SeqNum
<1>3. IsFiniteSet(S)  BY <1>2, FS_Subset
<1> QED  BY <1>3, FS_CardinalityType

(***************************************************************************)
(* A block k frames back is given the number k before the packet's.        *)
(***************************************************************************)
LEMMA BlockSeqIs ==
    ASSUME NEW p, NEW i, NEW k \in 0 .. MaxDepth,
           p.SequenceNumber \in SeqNum, p.Timestamp \in Time,
           p.blocks[i].offset = k * FrameSamples
    PROVE  /\ BlockTime(p, i) = TimeDiff(p.Timestamp, k * FrameSamples)
           /\ BlockSeq(p, i) = SeqDiff(p.SequenceNumber, k)
           /\ BlockSeq(p, i) \in SeqNum
<1> DEFINE t == TimeDiff(p.Timestamp, k * FrameSamples)
<1>1. BlockTime(p, i) = t  BY DEF BlockTime
<1>2. TimeDiff(p.Timestamp, t) = k * 960
  BY FormatAssumption DEF Time, TimeDiff, FrameSamples, OffsetMod
<1>3. (k * 960) \div 960 = k  BY FormatAssumption
<1>4. BlockSeq(p, i) = SeqDiff(p.SequenceNumber, k)
  BY <1>1, <1>2, <1>3 DEF BlockSeq, FrameSamples
<1>5. k \in SeqNum
  BY FormatAssumption, HalfAssumption DEF SeqNum, SeqMod
<1> QED  BY <1>1, <1>4, <1>5, SeqArithType

(***************************************************************************)
(* Going back k numbers from the next number is going back one less from   *)
(* this one, over a wrap.                                                  *)
(***************************************************************************)
LEMMA SeqBackSteps ==
    ASSUME NEW s \in SeqNum, NEW k \in 0 .. Half
    PROVE  /\ SeqInc(s) \in SeqNum
           /\ SeqDiff(SeqInc(s), k + 1) = SeqDiff(s, k)
           /\ SeqDiff(s, k) \in SeqNum
BY HalfAssumption DEF SeqNum, SeqMod, SeqInc, SeqDiff

(***************************************************************************)
(* Of two numbers behind q by less than half the sequence space, or the    *)
(* second by just half, the one further behind is the one before; and if   *)
(* the first is not, their distance is that of the frames they stand for.  *)
(***************************************************************************)
LEMMA SeqOrder ==
    ASSUME NEW q \in SeqNum, NEW d1 \in 0 .. Half, NEW d2 \in 0 .. Half - 1
    PROVE  /\ seqBefore(SeqDiff(q, d2), SeqDiff(q, d1)) <=> d2 > d1
           /\ d2 <= d1 => SeqDiff(SeqDiff(q, d2), SeqDiff(q, d1)) = d1 - d2
BY HalfAssumption DEF SeqNum, SeqMod, SeqDiff, seqBefore

(***************************************************************************)
(* Going back twice adds up.                                               *)
(***************************************************************************)
LEMMA SeqDiffTwice ==
    ASSUME NEW q \in SeqNum, NEW d \in Nat, NEW k \in Nat, d + k < Half
    PROVE  SeqDiff(SeqDiff(q, d), k) = SeqDiff(q, d + k)
BY HalfAssumption DEF SeqNum, SeqMod, SeqDiff

(***************************************************************************)
(* Moving on from n brings every other number one closer.                  *)
(***************************************************************************)
LEMMA SeqCloser ==
    ASSUME NEW s \in SeqNum, NEW n \in SeqNum
    PROVE  /\ SeqDiff(n, n) = 0
           /\ s # n => /\ SeqDiff(s, n) \in 1 .. SeqMod - 1
                       /\ SeqDiff(s, SeqInc(n)) = SeqDiff(s, n) - 1
BY HalfAssumption DEF SeqNum, SeqMod, SeqInc, SeqDiff

(***************************************************************************)
(* The number after the one d back is the one d - 1 back.                  *)
(***************************************************************************)
LEMMA SeqBackCloser ==
    ASSUME NEW q \in SeqNum, NEW d \in 1 .. Half
    PROVE  SeqInc(SeqDiff(q, d)) = SeqDiff(q, d - 1)
BY HalfAssumption DEF SeqNum, SeqMod, SeqInc, SeqDiff

-----------------------------------------------------------------------------
\* The inductive invariant.  NoStrandedPacket needs IdleIsEmpty: the first
\* packet moves nextSeq to any place.
ReceiverInv == ReceiverTypeOK /\ NoStrandedPacket /\ IdleIsEmpty

\* A packet whose blocks all have a sequence number.
Decodable(p) ==
    /\ p.SequenceNumber \in SeqNum
    /\ p.Timestamp \in Time
    /\ \A i \in DOMAIN p.blocks : \E k \in 0 .. MaxDepth :
           p.blocks[i].offset = k * FrameSamples

(***************************************************************************)
(* What Push inserts are sequence numbers, finitely many, none of which is *)
(* behind playout.                                                         *)
(***************************************************************************)
LEMMA InsertedType ==
    ASSUME NEW p, Decodable(p)
    PROVE  /\ Inserted(p) \subseteq SeqNum
           /\ Cardinality(Recovered(p)) \in Nat
           /\ \A s \in Inserted(p) : ~ seqBefore(s, Base(p))
<1>1. \A i \in DOMAIN p.blocks : BlockSeq(p, i) \in SeqNum
  <2> SUFFICES ASSUME NEW i \in DOMAIN p.blocks
               PROVE  BlockSeq(p, i) \in SeqNum
    OBVIOUS
  <2>1. PICK k \in 0 .. MaxDepth : p.blocks[i].offset = k * FrameSamples
    BY DEF Decodable
  <2> QED  BY <2>1, BlockSeqIs DEF Decodable
<1>2. Inserted(p) \subseteq SeqNum  BY <1>1 DEF Inserted
<1>3. Recovered(p) \subseteq SeqNum  BY <1>2 DEF Recovered
<1>4. Cardinality(Recovered(p)) \in Nat  BY <1>3, SeqNumsFinite
<1> QED  BY <1>2, <1>4 DEF Inserted

(***************************************************************************)
(* A push of such a packet keeps the invariant.                            *)
(***************************************************************************)
LEMMA PushKeepsInv ==
    ASSUME ReceiverInv, NEW p, Decodable(p), Push(p)
    PROVE  ReceiverInv'
<1> USE DEF ReceiverInv
<1>1. Buffered' = Buffered \cup Inserted(p)  BY DEF Push, Buffered
<1>2. Base(p) \in SeqNum  BY DEF Base, Decodable, ReceiverTypeOK
<1>3. ReceiverTypeOK'
  <2>1. PacketsRecovered' \in Nat
    <3> DEFINE n == Cardinality(Recovered(p))
    <3>1. n \in Nat  BY InsertedType
    <3>2. PacketsRecovered' = PacketsRecovered + n  BY DEF Push
    <3> HIDE DEF n
    <3> QED  BY <3>1, <3>2 DEF ReceiverTypeOK
  <2>2. (Buffered \subseteq SeqNum)'  BY <1>1, InsertedType DEF ReceiverTypeOK
  <2>3. (buffer = [s \in Buffered |-> buffer[s]])'  BY DEF Push, Buffered
  <2> QED  BY <1>2, <2>1, <2>2, <2>3 DEF ReceiverTypeOK, Push
<1>4. NoStrandedPacket'
  <2> SUFFICES ASSUME NEW s \in Buffered'
               PROVE  ~ seqBefore(s, Base(p))
    BY DEF NoStrandedPacket, Push
  <2>1. CASE s \in Inserted(p)  BY <2>1, InsertedType
  <2>2. CASE s \notin Inserted(p)
    <3>1. s \in Buffered  BY <1>1, <2>2
    <3>2. Base(p) = nextSeq  BY <3>1 DEF Base, IdleIsEmpty
    <3> QED  BY <3>1, <3>2 DEF NoStrandedPacket
  <2> QED  BY <2>1, <2>2
<1>5. IdleIsEmpty'  BY DEF Push, IdleIsEmpty
<1> QED  BY <1>3, <1>4, <1>5

(***************************************************************************)
(* Either way of moving playout on keeps the invariant: what it passes is  *)
(* not, or no longer, in the buffer.                                       *)
(***************************************************************************)
LEMMA PopKeepsInv ==
    ASSUME ReceiverInv, PopHit \/ \E force \in BOOLEAN : PopSkip(force)
    PROVE  ReceiverInv'
<1> USE DEF ReceiverInv
<1>1. /\ initialized /\ initialized' = initialized
      /\ nextSeq' = SeqInc(nextSeq)
      /\ buffer' = [s \in Buffered \ {nextSeq} |-> buffer[s]]
      /\ PacketsLost' \in Nat
      /\ PacketsReceived' = PacketsReceived
      /\ PacketsRecovered' = PacketsRecovered
  <2>1. CASE PopHit  BY <2>1 DEF PopHit, ReceiverTypeOK, metrics
  <2>2. CASE \E force \in BOOLEAN : PopSkip(force)
    <3>1. /\ initialized /\ initialized' = initialized
          /\ nextSeq' = SeqInc(nextSeq) /\ nextSeq \notin Buffered
          /\ buffer' = buffer /\ PacketsLost' = PacketsLost + 1
          /\ PacketsReceived' = PacketsReceived
          /\ PacketsRecovered' = PacketsRecovered
      BY <2>2 DEF PopSkip
    <3>2. Buffered \ {nextSeq} = Buffered  BY <3>1
    <3> QED  BY <3>1, <3>2 DEF ReceiverTypeOK
  <2> QED  BY <2>1, <2>2
<1>2. Buffered' = Buffered \ {nextSeq}  BY <1>1 DEF Buffered
<1>3. ReceiverTypeOK'
  <2>1. nextSeq' \in SeqNum  BY <1>1, SeqArithType DEF ReceiverTypeOK
  <2>2. (buffer = [s \in Buffered |-> buffer[s]])'  BY <1>1, <1>2
  <2> QED  BY <1>1, <1>2, <2>1, <2>2 DEF ReceiverTypeOK
<1>4. NoStrandedPacket'
  <2> SUFFICES ASSUME NEW s \in Buffered \ {nextSeq}
               PROVE  ~ seqBefore(s, SeqInc(nextSeq))
    BY <1>1, <1>2 DEF NoStrandedPacket
  <2> QED  BY NotBeforeNext DEF NoStrandedPacket, ReceiverTypeOK
<1>5. IdleIsEmpty'  BY <1>1 DEF IdleIsEmpty
<1> QED  BY <1>3, <1>4, <1>5

(***************************************************************************)
(* Initially the invariant holds.                                          *)
(***************************************************************************)
LEMMA InitHasInv == ReceiverInit => ReceiverInv
<1> SUFFICES ASSUME ReceiverInit PROVE ReceiverInv
  OBVIOUS
<1>1. Buffered = {}  BY DEF ReceiverInit, Buffered
<1>2. buffer = [s \in Buffered |-> buffer[s]]  BY <1>1 DEF ReceiverInit
<1>3. 0 \in SeqNum  BY HalfAssumption DEF SeqNum, SeqMod
<1> QED
  BY <1>1, <1>2, <1>3 DEF ReceiverInit, ReceiverInv, ReceiverTypeOK,
     NoStrandedPacket, IdleIsEmpty

(***************************************************************************)
(* A Reset in any state establishes it.                                    *)
(***************************************************************************)
LEMMA ResetHasInv == ReceiverReset => ReceiverInv'
<1> SUFFICES ASSUME ReceiverReset PROVE ReceiverInv'
  OBVIOUS
<1>1. Buffered' = {}  BY DEF ReceiverReset, Buffered
<1>2. (buffer = [s \in Buffered |-> buffer[s]])'  BY <1>1 DEF ReceiverReset
<1>3. 0 \in SeqNum  BY HalfAssumption DEF SeqNum, SeqMod
<1> QED
  BY <1>1, <1>2, <1>3 DEF ReceiverReset, ReceiverInv, ReceiverTypeOK,
     NoStrandedPacket, IdleIsEmpty

(***************************************************************************)
(* Every datagram the receiver alone is checked against is decodable.      *)
(***************************************************************************)
LEMMA AnyPacketDecodable == ASSUME NEW p \in AnyPacket PROVE Decodable(p)
<1>1. p.SequenceNumber \in SeqNum /\ p.Timestamp = 0  BY DEF AnyPacket
<1>2. 0 \in Time  BY FormatAssumption DEF Time, OffsetMod, FrameSamples
<1>3. PICK n \in 1 .. MaxDepth + 1 : p.blocks \in [1 .. n -> AnyBlock]
  BY DEF AnyPacket
<1>4. ASSUME NEW i \in DOMAIN p.blocks
      PROVE  \E k \in 0 .. MaxDepth : p.blocks[i].offset = k * FrameSamples
  BY <1>3 DEF AnyBlock
<1> QED  BY <1>1, <1>2, <1>4 DEF Decodable

-----------------------------------------------------------------------------
(***************************************************************************)
(* Whatever is pushed, popped and reset in whatever order, the receiver    *)
(* keeps its type, never strands a packet behind playout, and holds        *)
(* nothing before playout has begun.                                       *)
(***************************************************************************)
THEOREM ReceiverSafe ==
    ReceiverSpec => [](ReceiverTypeOK /\ NoStrandedPacket /\ IdleIsEmpty)
<1>1. ReceiverInit => ReceiverInv  BY InitHasInv
<1>2. ReceiverInv /\ [ReceiverNext]_receiverVars => ReceiverInv'
  <2> SUFFICES ASSUME ReceiverInv, [ReceiverNext]_receiverVars
               PROVE  ReceiverInv'
    OBVIOUS
  <2>1. ASSUME NEW p \in AnyPacket, Push(p)
        PROVE  ReceiverInv'
    BY <2>1, AnyPacketDecodable, PushKeepsInv
  <2>2. CASE PopHit  BY <2>2, PopKeepsInv
  <2>3. ASSUME NEW force \in BOOLEAN, PopSkip(force)
        PROVE  ReceiverInv'
    BY <2>3, PopKeepsInv
  <2>4. CASE UNCHANGED receiverVars
    BY <2>4 DEF receiverVars, ReceiverInv, ReceiverTypeOK, NoStrandedPacket,
       IdleIsEmpty, Buffered
  <2>5. ASSUME NEW force \in BOOLEAN, PopNone(force)
        PROVE  ReceiverInv'
    BY <2>4, <2>5 DEF PopNone
  <2>6. CASE ReceiverReset  BY <2>6, ResetHasInv
  <2> QED  BY <2>1, <2>2, <2>3, <2>4, <2>5, <2>6 DEF ReceiverNext
<1> QED  BY <1>1, <1>2, PTL DEF ReceiverSpec, ReceiverInv
=============================================================================
