--------------------------- MODULE RedLink_proofs ---------------------------
(***************************************************************************)
(* The packer's history is the last frames, and the packet it makes of     *)
(* them decodes to exactly those frames; the link keeps frames and         *)
(* sequence numbers together and so implements Playout; and it counts a    *)
(* frame as recovered once.  For every width of the sequence space and of  *)
(* the timestamps, every buffer size, sequence of depths and number of     *)
(* frames, whatever is lost, duplicated or reordered.                      *)
(***************************************************************************)
EXTENDS RedRecovery, RedReceiver_proofs

-----------------------------------------------------------------------------
\* The inductive invariant; WireFaithful follows from it.
PackerInv == PackerTypeOK /\ HistoryRecent

HistoryEntry == [SequenceNumber : SeqNum, Timestamp : Time, Payload : Nat]

\* Entry m is k frames before the one numbered s at time t, the n-th.
IsBack(m, k, s, t, n) ==
    /\ m.SequenceNumber = SeqDiff(s, k)
    /\ m.Timestamp = TimeDiff(t, k * FrameSamples)
    /\ m.Payload = n - k

(***************************************************************************)
(* One more frame puts every earlier one a place further back, over a wrap *)
(* of either counter.                                                      *)
(***************************************************************************)
LEMMA BackSteps ==
    ASSUME NEW s \in SeqNum, NEW t \in Time, NEW k \in 0 .. MaxDepth
    PROVE  /\ SeqInc(s) \in SeqNum /\ TimeInc(t) \in Time
           /\ SeqDiff(SeqInc(s), k + 1) = SeqDiff(s, k)
           /\ TimeDiff(TimeInc(t), (k + 1) * FrameSamples)
                = TimeDiff(t, k * FrameSamples)
<1>1. SeqInc(s) \in SeqNum /\ SeqDiff(SeqInc(s), k + 1) = SeqDiff(s, k)
  BY HalfAssumption, FormatAssumption DEF SeqNum, SeqMod, SeqInc, SeqDiff
<1>2. /\ TimeInc(t) \in Time
      /\ TimeDiff(TimeInc(t), (k + 1) * 960) = TimeDiff(t, k * 960)
  BY FormatAssumption DEF Time, TimeInc, TimeDiff, FrameSamples, OffsetMod
<1> QED  BY <1>1, <1>2 DEF FrameSamples

(***************************************************************************)
(* No frames back is where the counters stand.                             *)
(***************************************************************************)
LEMMA NoneBack ==
    ASSUME NEW s \in SeqNum, NEW t \in Time
    PROVE  SeqDiff(s, 0) = s /\ TimeDiff(t, 0 * FrameSamples) = t
BY HalfAssumption, FormatAssumption
   DEF SeqNum, SeqMod, SeqDiff, Time, TimeDiff, FrameSamples

(***************************************************************************)
(* LastOf(s, n) is the end of s, at most n long.                           *)
(***************************************************************************)
LEMMA LastOfIs ==
    ASSUME NEW S, NEW s \in Seq(S), NEW n \in Nat
    PROVE  LET l == LastOf(s, n)
           IN  /\ l \in Seq(S)
               /\ Len(l) <= n /\ Len(l) <= Len(s)
               /\ \A i \in DOMAIN l : l[i] = s[i + Len(s) - Len(l)]
<1>1. CASE Len(s) > n
  <2>1. LastOf(s, n) = SubSeq(s, Len(s) - n + 1, Len(s))  BY <1>1 DEF LastOf
  <2> QED  BY <1>1, <2>1
<1>2. CASE ~ (Len(s) > n)
  BY <1>2 DEF LastOf
<1> QED  BY <1>1, <1>2

(***************************************************************************)
(* What a sequence over S holds is in S.                                   *)
(***************************************************************************)
LEMMA ElementOfSeq ==
    ASSUME NEW S, NEW s \in Seq(S), NEW i \in DOMAIN s
    PROVE  s[i] \in S
OBVIOUS

(***************************************************************************)
(* Mapping a function over a sequence gives a sequence of that length.     *)
(***************************************************************************)
LEMMA MappedSeq ==
    ASSUME NEW S, NEW s \in Seq(S), NEW T, NEW f,
           f = [i \in DOMAIN s |-> f[i]], \A i \in DOMAIN s : f[i] \in T
    PROVE  f \in Seq(T) /\ Len(f) = Len(s)
<1>1. Len(s) \in Nat /\ DOMAIN s = 1 .. Len(s)  OBVIOUS
<1>2. f \in [1 .. Len(s) -> T]  BY <1>1
<1> QED  BY <1>1, <1>2

(***************************************************************************)
(* 14 bits hold the offset of a block no deeper than MaxDepth.             *)
(***************************************************************************)
LEMMA OffsetIs ==
    ASSUME NEW t \in Time, NEW k \in 0 .. MaxDepth
    PROVE  RedOffset(t, TimeDiff(t, k * FrameSamples)) = k * FrameSamples
<1>1. k * 960 \in 0 .. 16383  BY FormatAssumption
<1>2. TimeDiff(t, TimeDiff(t, k * 960)) = k * 960
  BY <1>1, FormatAssumption DEF Time, TimeDiff, OffsetMod, FrameSamples
<1>3. (k * 960) % 16384 = k * 960
  <2> DEFINE x == k * 960
  <2>1. x \in 0 .. 16383  BY <1>1
  <2> HIDE DEF x
  <2>2. x % 16384 = x  BY <2>1
  <2> QED  BY <2>2 DEF x
<1> QED  BY <1>2, <1>3 DEF RedOffset, FrameSamples, OffsetMod

(***************************************************************************)
(* Packing a frame keeps the invariant.                                    *)
(***************************************************************************)
LEMMA PackKeepsInv ==
    ASSUME PackerInv, Pack
    PROVE  PackerInv'
<1> USE DEF PackerInv, HistoryEntry
<1>1. /\ packSeq' = SeqInc(packSeq) /\ packSeq' \in SeqNum
      /\ packTime' = TimeInc(packTime) /\ packTime' \in Time
      /\ sent' = sent + 1 /\ sent' \in Nat
      /\ depth' = depth /\ depth \in 0 .. MaxDepth
  <2>1. 0 \in 0 .. MaxDepth  BY FormatAssumption
  <2> QED  BY <2>1, BackSteps DEF Pack, PackerTypeOK, Depths
<1>2. CASE depth = 0
  <2>1. history' = history /\ Len(history) = 0 /\ history \in Seq(HistoryEntry)
    BY <1>2 DEF Pack, PackerTypeOK
  <2>2. history = <<>>  BY <2>1
  <2> QED  BY <1>1, <2>1, <2>2 DEF PackerTypeOK, HistoryRecent, Depths
<1>3. CASE depth # 0
  <2> DEFINE L == Len(history)
             longer == Append(history, Primary)
  <2>1. Primary \in HistoryEntry  BY DEF Primary, PackerTypeOK
  <2>2. /\ history \in Seq(HistoryEntry) /\ L \in Nat /\ L <= depth
        /\ longer \in Seq(HistoryEntry) /\ Len(longer) = L + 1
        /\ \A i \in 1 .. L : longer[i] = history[i]
        /\ longer[L + 1] = Primary
    BY <2>1 DEF PackerTypeOK
  <2>3. \A i \in 1 .. L + 1 : IsBack(longer[i], L + 1 - i + 1, packSeq', packTime', sent')
    <3> SUFFICES ASSUME NEW i \in 1 .. L + 1
                 PROVE  IsBack(longer[i], L + 1 - i + 1, packSeq', packTime', sent')
      OBVIOUS
    <3>1. CASE i = L + 1
      <4>1. longer[i] = Primary /\ L + 1 - i + 1 = 0 + 1  BY <2>2, <3>1
      <4>2. 0 \in 0 .. MaxDepth  BY FormatAssumption
      <4>3. /\ SeqDiff(packSeq', 0 + 1) = packSeq
            /\ TimeDiff(packTime', (0 + 1) * FrameSamples) = packTime
        BY <1>1, <4>2, BackSteps, NoneBack DEF PackerTypeOK
      <4> QED  BY <1>1, <4>1, <4>3 DEF IsBack, Primary, Pack, PackerTypeOK
    <3>2. CASE i \in 1 .. L
      <4> DEFINE k == L - i + 1
      <4>1. k \in 0 .. MaxDepth /\ L + 1 - i + 1 = k + 1
        BY <1>1, <2>2, <3>2, FormatAssumption
      <4>2. longer[i] = history[i] /\ i \in DOMAIN history  BY <2>2, <3>2
      <4>3. IsBack(history[i], k, packSeq, packTime, sent)  BY <4>2 DEF HistoryRecent, IsBack
      <4>4. /\ SeqDiff(packSeq', k + 1) = SeqDiff(packSeq, k)
            /\ TimeDiff(packTime', (k + 1) * FrameSamples)
                 = TimeDiff(packTime, k * FrameSamples)
        BY <1>1, <4>1, BackSteps DEF PackerTypeOK
      <4>5. sent' - (k + 1) = sent - k  BY <1>1, <4>1 DEF PackerTypeOK
      <4> HIDE DEF k
      <4> QED  BY <4>1, <4>2, <4>3, <4>4, <4>5 DEF IsBack
    <3> QED  BY <2>2, <3>1, <3>2
  <2>4. CASE L + 1 > depth
    <3>1. history' = Tail(longer)  BY <1>3, <2>2, <2>4 DEF Pack, Extended
    <3>2. /\ history' \in Seq(HistoryEntry) /\ Len(history') = L
          /\ DOMAIN history' = 1 .. L
          /\ \A i \in 1 .. L : history'[i] = longer[i + 1]
      BY <2>2, <3>1
    <3>3. \A i \in 1 .. L : IsBack(history'[i], L - i + 1, packSeq', packTime', sent')
      <4> SUFFICES ASSUME NEW i \in 1 .. L
                   PROVE  IsBack(history'[i], L - i + 1, packSeq', packTime', sent')
        OBVIOUS
      <4>1. i + 1 \in 1 .. L + 1 /\ L + 1 - (i + 1) + 1 = L - i + 1  BY <2>2
      <4> QED  BY <2>3, <3>2, <4>1
    <3>4. HistoryRecent'  BY <3>2, <3>3 DEF HistoryRecent, IsBack
    <3> QED  BY <1>1, <2>2, <3>2, <3>4 DEF PackerTypeOK, Depths
  <2>5. CASE ~ (L + 1 > depth)
    <3>1. history' = longer  BY <1>3, <2>2, <2>5 DEF Pack, Extended
    <3>2. HistoryRecent'  BY <2>2, <2>3, <3>1 DEF HistoryRecent, IsBack
    <3> QED  BY <1>1, <2>2, <2>5, <3>1, <3>2 DEF PackerTypeOK, Depths
  <2> QED  BY <2>4, <2>5
<1> QED  BY <1>2, <1>3

(***************************************************************************)
(* So does a change of depth: it keeps the end of the history.             *)
(***************************************************************************)
LEMMA SetDepthKeepsInv ==
    ASSUME PackerInv, NEW d \in Depths, SetDepth(d)
    PROVE  PackerInv'
<1> USE DEF PackerInv, HistoryEntry
<1>1. d \in Nat /\ history \in Seq(HistoryEntry)
  BY FormatAssumption DEF Depths, PackerTypeOK
<1>2. /\ history' \in Seq(HistoryEntry)
      /\ Len(history') <= d /\ Len(history') <= Len(history)
      /\ \A i \in DOMAIN history' :
            history'[i] = history[i + Len(history) - Len(history')]
  BY <1>1, LastOfIs DEF SetDepth
<1>3. UNCHANGED <<packSeq, packTime, sent>> /\ depth' = d  BY DEF SetDepth
<1>4. HistoryRecent'
  <2> SUFFICES ASSUME NEW i \in DOMAIN history'
               PROVE  IsBack(history'[i], Len(history') - i + 1,
                              packSeq, packTime, sent)
    BY <1>3 DEF HistoryRecent, IsBack
  <2> DEFINE j == i + Len(history) - Len(history')
  <2>1. /\ j \in DOMAIN history
        /\ Len(history) - j + 1 = Len(history') - i + 1
    BY <1>1, <1>2
  <2>2. IsBack(history[j], Len(history) - j + 1, packSeq, packTime, sent)
    BY <2>1 DEF HistoryRecent, IsBack
  <2> QED  BY <1>2, <2>1, <2>2
<1> QED  BY <1>2, <1>3, <1>4 DEF PackerTypeOK

(***************************************************************************)
(* With the history right, so is the packet made of it: as many blocks as  *)
(* the history has entries and one more, each with its frame and offset.   *)
(***************************************************************************)
LEMMA PackedIs ==
    ASSUME PackerInv
    PROVE  /\ Packed.SequenceNumber = packSeq /\ Packed.Timestamp = packTime
           /\ \E n \in 1 .. MaxDepth + 1 :
                 /\ Len(Packed.blocks) = n /\ DOMAIN Packed.blocks = 1 .. n
                 /\ \A i \in 1 .. n :
                       /\ Packed.blocks[i].data = sent - (n - i)
                       /\ Packed.blocks[i].data \in Nat
                       /\ Packed.blocks[i].offset = (n - i) * FrameSamples
<1> USE DEF PackerInv, HistoryEntry
<1> DEFINE L == IF depth = 0 THEN 0 ELSE Len(history)
<1>1. /\ history \in Seq(HistoryEntry) /\ L \in 0 .. MaxDepth
      /\ L <= Len(history)
      /\ packSeq \in SeqNum /\ packTime \in Time /\ sent \in Nat
  BY FormatAssumption DEF PackerTypeOK, Depths
<1>2. LastOf(history, depth) = history
  BY DEF PackerTypeOK, Depths, LastOf
<1>3. /\ Len(Packed.blocks) = L + 1 /\ DOMAIN Packed.blocks = 1 .. L + 1
      /\ Packed.blocks[L + 1] = [offset |-> 0, data |-> sent]
      /\ \A j \in 1 .. L : Packed.blocks[j] = Redundant(history[j])
      /\ Packed.SequenceNumber = packSeq /\ Packed.Timestamp = packTime
  <2> DEFINE old == [j \in DOMAIN history |-> Redundant(history[j])]
             main == [offset |-> 0, data |-> sent]
  <2>1. /\ Packed.SequenceNumber = packSeq /\ Packed.Timestamp = packTime
        /\ Packed.blocks = IF depth = 0 THEN <<main>> ELSE Append(old, main)
    BY <1>2 DEF Packed
  <2>2. /\ old \in Seq({Redundant(history[j]) : j \in DOMAIN history} \cup {main})
        /\ Len(old) = Len(history)
        /\ \A j \in 1 .. Len(history) : old[j] = Redundant(history[j])
    BY <1>1, MappedSeq DEF old
  <2> HIDE DEF old, main
  <2>3. CASE depth = 0
    BY <2>1, <2>3 DEF main
  <2>4. CASE depth # 0
    BY <1>1, <2>1, <2>2, <2>4 DEF main
  <2> QED  BY <2>3, <2>4
<1>0. L # 0 => L = Len(history)  OBVIOUS
<1> HIDE DEF L
<1>4. \A i \in 1 .. L + 1 :
        /\ Packed.blocks[i].data = sent - (L + 1 - i)
        /\ Packed.blocks[i].data \in Nat
        /\ Packed.blocks[i].offset = (L + 1 - i) * FrameSamples
  <2> TAKE i \in 1 .. L + 1
  <2>1. CASE i = L + 1
    <3>1. L + 1 - i = 0  BY <1>1, <2>1, FormatAssumption
    <3>2. Packed.blocks[i] = [offset |-> 0, data |-> sent]  BY <1>3, <2>1
    <3> QED  BY <1>1, <3>1, <3>2 DEF FrameSamples
  <2>2. CASE i \in 1 .. L
    <3> DEFINE back == L + 1 - i
    <3>1. /\ i \in DOMAIN history /\ L = Len(history)
          /\ Packed.blocks[i] = Redundant(history[i])
          /\ back \in 0 .. MaxDepth
      <4>1. L \in 0 .. MaxDepth /\ MaxDepth \in Nat /\ L # 0
        BY <1>1, <2>2, FormatAssumption
      <4>2. L = Len(history) /\ i \in DOMAIN history
        BY <1>1, <1>0, <2>2, <4>1
      <4>3. Packed.blocks[i] = Redundant(history[i])
        BY <1>3, <2>2
      <4> QED  BY <2>2, <4>1, <4>2, <4>3
    <3>2. /\ history[i].Timestamp = TimeDiff(packTime, back * FrameSamples)
          /\ history[i].Payload = sent - back
          /\ history[i].Payload \in Nat
      <4>1. Len(history) - i + 1 = back  BY <1>1, <3>1, FormatAssumption
      <4>2. history[i] \in HistoryEntry
        BY <1>1, <3>1, ElementOfSeq
      <4> HIDE DEF back
      <4> QED  BY <3>1, <4>1, <4>2 DEF HistoryRecent
    <3>3. RedOffset(packTime, TimeDiff(packTime, back * FrameSamples))
            = back * FrameSamples
      BY <1>1, <3>1, OffsetIs
    <3> QED  BY <3>1, <3>2, <3>3 DEF Redundant
  <2> QED  BY <1>1, <2>1, <2>2, FormatAssumption
<1>5. L + 1 \in 1 .. MaxDepth + 1  BY <1>1, FormatAssumption
<1>6. PICK n \in 1 .. MaxDepth + 1 : n = L + 1  BY <1>5
<1>7. Len(Packed.blocks) = n /\ DOMAIN Packed.blocks = 1 .. n  BY <1>3, <1>6
<1>8. ASSUME NEW i \in 1 .. n
      PROVE  /\ Packed.blocks[i].data = sent - (n - i)
             /\ Packed.blocks[i].data \in Nat
             /\ Packed.blocks[i].offset = (n - i) * FrameSamples
  <2>1. i \in 1 .. L + 1 /\ n - i = L + 1 - i
    BY <1>1, <1>6, FormatAssumption
  <2> QED  BY <1>4, <2>1
<1> QED  BY <1>3, <1>7, <1>8

(***************************************************************************)
(* So every frame in it decodes to its own number and timestamp.           *)
(***************************************************************************)
LEMMA WireFollows == PackerInv => WireFaithful
<1> SUFFICES ASSUME PackerInv, NEW i \in DOMAIN Packed.blocks
             PROVE  LET back == Len(Packed.blocks) - i
                    IN  /\ Packed.blocks[i].data = sent - back
                        /\ BlockSeq(Packed, i) = SeqDiff(packSeq, back)
                        /\ BlockTime(Packed, i) =
                              TimeDiff(packTime, back * FrameSamples)
  BY DEF WireFaithful
<1>1. PICK n \in 1 .. MaxDepth + 1 :
        /\ Len(Packed.blocks) = n /\ DOMAIN Packed.blocks = 1 .. n
        /\ \A j \in 1 .. n :
              /\ Packed.blocks[j].data = sent - (n - j)
              /\ Packed.blocks[j].offset = (n - j) * FrameSamples
  BY PackedIs
<1>2. Packed.SequenceNumber \in SeqNum /\ Packed.Timestamp \in Time
  BY PackedIs DEF PackerInv, PackerTypeOK
<1>3. n - i \in 0 .. MaxDepth  BY <1>1, FormatAssumption
<1>4. Packed.blocks[i].offset = (n - i) * FrameSamples  BY <1>1
<1> DEFINE k == n - i
<1> HIDE DEF k
<1>5. /\ BlockTime(Packed, i) = TimeDiff(packTime, k * FrameSamples)
      /\ BlockSeq(Packed, i) = SeqDiff(packSeq, k)
  BY <1>2, <1>3, <1>4, BlockSeqIs, PackedIs DEF k
<1>6. Packed.blocks[i].data = sent - k /\ Len(Packed.blocks) - i = k
  BY <1>1 DEF k
<1> QED  BY <1>5, <1>6

-----------------------------------------------------------------------------
(***************************************************************************)
(* Whatever depths the feedback asks for, the packer keeps its type, its   *)
(* history is exactly the last frames, and what it sends decodes to them.  *)
(***************************************************************************)
THEOREM PackerSafe ==
    PackerSpec => [](PackerTypeOK /\ HistoryRecent /\ WireFaithful)
<1>1. PackerInit => PackerInv
  BY HalfAssumption, FormatAssumption
     DEF PackerInit, PackerInv, PackerTypeOK, HistoryRecent, Depths, SeqNum,
         SeqMod, Time, OffsetMod, FrameSamples
<1>2. PackerInv /\ [PackerNext]_packerVars => PackerInv'
  <2> SUFFICES ASSUME PackerInv, [PackerNext]_packerVars
               PROVE  PackerInv'
    OBVIOUS
  <2>1. CASE Pack  BY <2>1, PackKeepsInv
  <2>2. ASSUME NEW d \in Depths, SetDepth(d)
        PROVE  PackerInv'
    BY <2>2, SetDepthKeepsInv
  <2>3. CASE PackerReset
    BY <2>3, HalfAssumption, FormatAssumption
       DEF PackerReset, PackerInv, PackerTypeOK, HistoryRecent, Depths, SeqNum,
           SeqMod, Time, OffsetMod, FrameSamples
  <2>4. CASE UNCHANGED packerVars
    BY <2>4 DEF packerVars, PackerInv, PackerTypeOK, HistoryRecent
  <2> QED  BY <2>1, <2>2, <2>3, <2>4 DEF PackerNext
<1>3. PackerInv => PackerTypeOK /\ HistoryRecent /\ WireFaithful
  BY WireFollows DEF PackerInv
<1> QED  BY <1>1, <1>2, <1>3, PTL DEF PackerSpec

(***************************************************************************)
(* The history is exactly the last frames, whatever the depths, the resets *)
(* and the wraps of both counters (pipeline/red.go, Pack).                 *)
(***************************************************************************)
THEOREM HistoryStaysRecent == PackerSpec => []HistoryRecent
    BY PackerSafe, PTL

-----------------------------------------------------------------------------
\* p carries the frames up to its own, each with its offset.
CarriesFrames(p) ==
    \E n \in 1 .. MaxDepth + 1 :
        /\ Len(p.blocks) = n /\ DOMAIN p.blocks = 1 .. n
        /\ \A i \in 1 .. n :
              /\ p.blocks[i].data = FrameOf(p) - (n - i)
              /\ p.blocks[i].data \in Nat
              /\ p.blocks[i].offset = (n - i) * FrameSamples

\* What is in flight is young enough for its numbers to be unambiguous.
NetFaithful ==
    \A p \in net :
        /\ CarriesFrames(p)
        /\ p.Timestamp \in Time
        /\ FrameOf(p) \in Nat
        /\ FrameOf(p) < sent /\ sent - FrameOf(p) <= Lifetime
        /\ p.SequenceNumber = SeqDiff(packSeq, sent - FrameOf(p))

\* What was heard and is still to be played was sent, and is not yet past.
HeardAhead ==
    /\ \A f \in heard : cursor <= f /\ f < sent
    /\ ~ initialized => heard = {}

\* The inductive invariant.
LinkInv ==
    /\ PackerInv /\ ReceiverInv /\ LinkTypeOK
    /\ NetFaithful /\ HeardAhead
    /\ BufferFaithful /\ CursorAgrees

-----------------------------------------------------------------------------
\* Where playout stands once p has been pushed.
CursorAt(p) == IF initialized THEN cursor ELSE FrameOf(p)

(***************************************************************************)
(* Base(p) is the number of that frame.                                    *)
(***************************************************************************)
LEMMA BaseIs ==
    ASSUME LinkInv, NEW p \in net
    PROVE  /\ CursorAt(p) \in Nat /\ sent \in Nat /\ packSeq \in SeqNum
           /\ sent - CursorAt(p) \in 0 .. Half
           /\ Base(p) = SeqDiff(packSeq, sent - CursorAt(p))
           /\ Base(p) \in SeqNum
<1>1. sent \in Nat /\ packSeq \in SeqNum  BY DEF LinkInv, PackerInv, PackerTypeOK
<1>2. CASE initialized
  BY <1>1, <1>2, HalfAssumption
     DEF LinkInv, CursorAgrees, CursorAt, Base, LinkTypeOK, ReceiverInv,
         ReceiverTypeOK
<1>3. CASE ~ initialized
  <2>1. /\ FrameOf(p) \in Nat /\ FrameOf(p) < sent
        /\ sent - FrameOf(p) <= Lifetime
        /\ p.SequenceNumber = SeqDiff(packSeq, sent - FrameOf(p))
    BY DEF LinkInv, NetFaithful
  <2>2. sent - FrameOf(p) \in 0 .. Half
    BY <1>1, <2>1, LinkAssumption, FormatAssumption, HalfAssumption
  <2>3. SeqDiff(packSeq, sent - FrameOf(p)) \in SeqNum
    BY <1>1, <2>2, SeqBackSteps
  <2> QED  BY <1>1, <1>3, <2>1, <2>2, <2>3 DEF CursorAt, Base
<1> QED  BY <1>2, <1>3

(***************************************************************************)
(* Every block of a delivered packet gets the number of its frame, and is  *)
(* discarded exactly when that frame is past.                              *)
(***************************************************************************)
LEMMA BlockIs ==
    ASSUME LinkInv, NEW p \in net, NEW i \in DOMAIN p.blocks
    PROVE  LET g == p.blocks[i].data
               c == CursorAt(p)
               s == BlockSeq(p, i)
           IN  /\ g \in Nat /\ g < sent /\ sent - g \in 1 .. Half - 1
               /\ s = SeqDiff(packSeq, sent - g) /\ s \in SeqNum
               /\ seqBefore(s, Base(p)) <=> g < c
               /\ g >= c => SeqDiff(s, Base(p)) = g - c
<1> DEFINE g == p.blocks[i].data
           c == CursorAt(p)
           e == sent - FrameOf(p)
<1>1. PICK n \in 1 .. MaxDepth + 1 :
        /\ DOMAIN p.blocks = 1 .. n
        /\ \A j \in 1 .. n : /\ p.blocks[j].data = FrameOf(p) - (n - j)
                            /\ p.blocks[j].data \in Nat
                            /\ p.blocks[j].offset = (n - j) * FrameSamples
  BY DEF LinkInv, NetFaithful, CarriesFrames
<1> DEFINE k == n - i
<1>2. k \in 0 .. MaxDepth  BY <1>1, FormatAssumption
<1>3. /\ p.Timestamp \in Time /\ FrameOf(p) \in Nat /\ FrameOf(p) < sent
      /\ sent - FrameOf(p) <= Lifetime
      /\ p.SequenceNumber = SeqDiff(packSeq, sent - FrameOf(p))
  BY DEF LinkInv, NetFaithful
<1>4. sent \in Nat /\ packSeq \in SeqNum  BY BaseIs
<1>5. g = FrameOf(p) - k /\ g \in Nat /\ p.blocks[i].offset = k * FrameSamples
  BY <1>1
<1>6. e \in Nat /\ e + k < Half /\ e + k = sent - g /\ e + k \in 1 .. Half - 1
  BY <1>2, <1>3, <1>4, <1>5, LinkAssumption, FormatAssumption, HalfAssumption
<1> HIDE DEF k
<1>7. p.SequenceNumber = SeqDiff(packSeq, e) /\ p.SequenceNumber \in SeqNum
  <2>1. e \in 0 .. Half  BY <1>2, <1>6, HalfAssumption
  <2> QED  BY <1>3, <1>4, <2>1, SeqBackSteps
<1>8. BlockSeq(p, i) = SeqDiff(packSeq, sent - g) /\ BlockSeq(p, i) \in SeqNum
  <2>1. BlockSeq(p, i) = SeqDiff(p.SequenceNumber, k) /\ BlockSeq(p, i) \in SeqNum
    BY <1>2, <1>3, <1>5, <1>7, BlockSeqIs
  <2>2. SeqDiff(SeqDiff(packSeq, e), k) = SeqDiff(packSeq, e + k)
    BY <1>2, <1>4, <1>6, SeqDiffTwice
  <2> QED  BY <1>6, <1>7, <2>1, <2>2
<1>9. /\ seqBefore(BlockSeq(p, i), Base(p)) <=> g < c
      /\ g >= c => SeqDiff(BlockSeq(p, i), Base(p)) = g - c
  <2> DEFINE d1 == sent - c
             d2 == sent - g
  <2>1. d1 \in 0 .. Half /\ d2 \in 0 .. Half - 1
    BY <1>6, BaseIs, HalfAssumption
  <2>2. Base(p) = SeqDiff(packSeq, d1) /\ BlockSeq(p, i) = SeqDiff(packSeq, d2)
    BY <1>8, BaseIs
  <2>3. c \in Nat /\ (g < c <=> d2 > d1) /\ d1 - d2 = g - c
    BY <1>4, <1>5, BaseIs
  <2> HIDE DEF d1, d2, g, c
  <2>4. /\ seqBefore(SeqDiff(packSeq, d2), SeqDiff(packSeq, d1)) <=> d2 > d1
        /\ d2 <= d1 =>
             SeqDiff(SeqDiff(packSeq, d2), SeqDiff(packSeq, d1)) = d1 - d2
    BY <1>4, <2>1, SeqOrder
  <2>5. g >= c => d2 <= d1  BY <1>5, <2>1, <2>3
  <2> QED  BY <2>2, <2>3, <2>4, <2>5
<1> QED  BY <1>2, <1>3, <1>4, <1>5, <1>6, <1>8, <1>9

(***************************************************************************)
(* What is in flight can be decoded.                                       *)
(***************************************************************************)
LEMMA NetDecodable ==
    ASSUME LinkInv, NEW p \in net
    PROVE  Decodable(p)
<1>1. /\ CarriesFrames(p) /\ p.Timestamp \in Time
      /\ FrameOf(p) \in Nat /\ FrameOf(p) < sent
      /\ sent - FrameOf(p) <= Lifetime
      /\ p.SequenceNumber = SeqDiff(packSeq, sent - FrameOf(p))
  BY DEF LinkInv, NetFaithful
<1>2. PICK n \in 1 .. MaxDepth + 1 :
        /\ DOMAIN p.blocks = 1 .. n
        /\ \A i \in 1 .. n : p.blocks[i].offset = (n - i) * FrameSamples
  BY <1>1 DEF CarriesFrames
<1>3. ASSUME NEW i \in DOMAIN p.blocks
      PROVE  \E k \in 0 .. MaxDepth : p.blocks[i].offset = k * FrameSamples
  <2>1. n - i \in 0 .. MaxDepth  BY <1>2, FormatAssumption
  <2> QED  BY <1>2, <2>1
<1>4. sent - FrameOf(p) \in 0 .. Half
  BY <1>1, BaseIs, LinkAssumption, FormatAssumption, HalfAssumption
<1>5. p.SequenceNumber \in SeqNum  BY <1>1, <1>4, BaseIs, SeqBackSteps
<1> QED  BY <1>1, <1>3, <1>5 DEF Decodable

(***************************************************************************)
(* What a delivery inserts: the frames that are not past, each under the   *)
(* number as far from the base as it is from the cursor.  No two blocks of *)
(* a packet compete for a number.                                          *)
(***************************************************************************)
LEMMA InsertedIs ==
    ASSUME LinkInv, NEW p \in net
    PROVE  LET c == CursorAt(p)
           IN  /\ \A i \in DOMAIN p.blocks :
                     p.blocks[i].data >= c =>
                        /\ BlockSeq(p, i) \in Inserted(p)
                        /\ p.blocks[i].data
                             = c + SeqDiff(BlockSeq(p, i), Base(p))
               /\ \A s \in Inserted(p) :
                     LET f == p.blocks[BlockFor(p, s)].data
                     IN  /\ f \in FramesIn(p) /\ f >= c
                         /\ f = c + SeqDiff(s, Base(p))
<1> DEFINE c == CursorAt(p)
<1>1. ASSUME NEW i \in DOMAIN p.blocks
      PROVE  /\ p.blocks[i].data \in Nat /\ c \in Nat
             /\ p.blocks[i].data < c <=> seqBefore(BlockSeq(p, i), Base(p))
             /\ p.blocks[i].data >= c =>
                  SeqDiff(BlockSeq(p, i), Base(p)) = p.blocks[i].data - c
  BY BlockIs, BaseIs
<1>2. PICK n \in 1 .. MaxDepth + 1 :
        /\ DOMAIN p.blocks = 1 .. n
        /\ \A i \in 1 .. n : p.blocks[i].data = FrameOf(p) - (n - i)
  BY DEF LinkInv, NetFaithful, CarriesFrames
<1>3. FrameOf(p) \in Nat  BY DEF LinkInv, NetFaithful
<1>4. ASSUME NEW i \in DOMAIN p.blocks, p.blocks[i].data >= c
      PROVE  /\ BlockSeq(p, i) \in Inserted(p)
             /\ p.blocks[i].data = c + SeqDiff(BlockSeq(p, i), Base(p))
  BY <1>1, <1>4 DEF Inserted
<1>5. ASSUME NEW s \in Inserted(p)
      PROVE  /\ p.blocks[BlockFor(p, s)].data \in FramesIn(p)
             /\ p.blocks[BlockFor(p, s)].data >= c
             /\ p.blocks[BlockFor(p, s)].data = c + SeqDiff(s, Base(p))
  <2>1. PICK i \in DOMAIN p.blocks :
          BlockSeq(p, i) = s /\ ~ seqBefore(s, Base(p))
    BY DEF Inserted
  <2>2. ASSUME NEW j \in DOMAIN p.blocks, BlockSeq(p, j) = s
        PROVE  j = i
    <3>1. p.blocks[i].data = p.blocks[j].data  BY <1>1, <2>1, <2>2
    <3> QED  BY <1>2, <1>3, <3>1
  <2>3. i <= i  BY <1>2
  <2>4. /\ BlockFor(p, s) \in DOMAIN p.blocks
        /\ BlockSeq(p, BlockFor(p, s)) = s
    BY <2>1, <2>2, <2>3 DEF BlockFor
  <2>5. BlockFor(p, s) = i  BY <2>2, <2>4
  <2>6. p.blocks[i].data \in FramesIn(p)  BY DEF FramesIn
  <2> QED  BY <1>1, <2>1, <2>5, <2>6
<1> QED  BY <1>4, <1>5

-----------------------------------------------------------------------------
(***************************************************************************)
(* A delivery keeps the invariant, be the packet late, early or a copy.    *)
(***************************************************************************)
LEMMA DeliverKeepsInv ==
    ASSUME LinkInv, NEW p \in net, Deliver(p)
    PROVE  LinkInv'
<1> DEFINE c == CursorAt(p)
<1>1. /\ Push(p) /\ cursor' = c /\ nextSeq' = Base(p) /\ initialized'
      /\ heard' = heard \cup {f \in FramesIn(p) : f >= c}
      /\ UNCHANGED <<depth, history, packSeq, packTime, sent, net, out>>
  BY DEF Deliver, Push, CursorAt, packerVars
<1>2. ReceiverInv'  BY <1>1, NetDecodable, PushKeepsInv DEF LinkInv
<1>3. PackerInv'
  BY <1>1 DEF LinkInv, PackerInv, PackerTypeOK, HistoryRecent
<1>4. c \in Nat /\ sent \in Nat /\ sent - c \in 0 .. Half
      /\ Base(p) = SeqDiff(packSeq, sent - c)
  BY BaseIs
<1>5. CursorAgrees'  BY <1>1, <1>4, HalfAssumption DEF CursorAgrees
<1>6. \A f \in FramesIn(p) : f \in Nat /\ f < sent
  BY BlockIs DEF FramesIn
<1>7. \A f \in heard : f \in Nat /\ f >= c /\ f < sent
  BY DEF LinkInv, LinkTypeOK, HeardAhead, CursorAt
<1>8. HeardAhead'  BY <1>1, <1>4, <1>6, <1>7 DEF HeardAhead
<1>9. LinkTypeOK'
  BY <1>1, <1>2, <1>3, <1>4, <1>6
     DEF LinkInv, LinkTypeOK, PackerInv, ReceiverInv
<1>10. NetFaithful'  BY <1>1 DEF LinkInv, NetFaithful
<1>11. Buffered' = Buffered \cup Inserted(p)  BY <1>1 DEF Push, Buffered
<1>12. ASSUME NEW s \in Buffered
       PROVE  c = cursor /\ Base(p) = nextSeq
  BY DEF LinkInv, ReceiverInv, IdleIsEmpty, CursorAt, Base
<1>13. ASSUME NEW s \in Buffered'
       PROVE  /\ buffer'[s] = c + SeqDiff(s, Base(p))
              /\ buffer'[s] \in heard'
  <2>1. CASE s \in Inserted(p)
    <3>1. buffer'[s] = p.blocks[BlockFor(p, s)].data
      BY <1>1, <1>11, <2>1 DEF Push
    <3> QED  BY <1>1, <2>1, <3>1, InsertedIs
  <2>2. CASE s \notin Inserted(p)
    <3>1. s \in Buffered /\ buffer'[s] = buffer[s]
      BY <1>1, <1>11, <2>2 DEF Push
    <3>2. buffer[s] = cursor + SeqDiff(s, nextSeq) /\ buffer[s] \in heard
      BY <3>1 DEF LinkInv, BufferFaithful, BufferedFrames
    <3> QED  BY <1>1, <1>12, <3>1, <3>2
  <2> QED  BY <2>1, <2>2
<1>14. ASSUME NEW f \in heard'
       PROVE  f \in BufferedFrames'
  <2>1. CASE f \in heard
    <3>1. PICK s \in Buffered : f = buffer[s]
      BY <2>1 DEF LinkInv, BufferFaithful, BufferedFrames
    <3>2. f = cursor + SeqDiff(s, nextSeq)
      BY <3>1 DEF LinkInv, BufferFaithful
    <3>3. s \in Buffered' /\ buffer'[s] = f
      BY <1>11, <1>12, <1>13, <3>2
    <3> QED  BY <3>3 DEF BufferedFrames
  <2>2. CASE f \notin heard
    <3>1. PICK i \in DOMAIN p.blocks : f = p.blocks[i].data /\ f >= c
      BY <1>1, <2>2 DEF FramesIn
    <3>2. /\ BlockSeq(p, i) \in Inserted(p)
          /\ f = c + SeqDiff(BlockSeq(p, i), Base(p))
      BY <3>1, InsertedIs
    <3>3. BlockSeq(p, i) \in Buffered' /\ buffer'[BlockSeq(p, i)] = f
      BY <1>11, <1>13, <3>2
    <3> QED  BY <3>3 DEF BufferedFrames
  <2> QED  BY <2>1, <2>2
<1>15. BufferFaithful'
  <2>1. BufferedFrames' = heard'  BY <1>13, <1>14 DEF BufferedFrames
  <2>2. \A s \in Buffered' : buffer'[s] = cursor' + SeqDiff(s, nextSeq')
    BY <1>1, <1>13
  <2> QED  BY <2>1, <2>2 DEF BufferFaithful
<1> QED
  BY <1>2, <1>3, <1>5, <1>8, <1>9, <1>10, <1>15 DEF LinkInv

(***************************************************************************)
(* The packet the packer makes carries the frames up to the next.          *)
(***************************************************************************)
LEMMA PackedCarries ==
    ASSUME LinkInv
    PROVE  FrameOf(Packed) = sent /\ sent \in Nat /\ CarriesFrames(Packed)
<1>1. PICK n \in 1 .. MaxDepth + 1 :
        /\ Len(Packed.blocks) = n /\ DOMAIN Packed.blocks = 1 .. n
        /\ \A i \in 1 .. n :
              /\ Packed.blocks[i].data = sent - (n - i)
              /\ Packed.blocks[i].data \in Nat
              /\ Packed.blocks[i].offset = (n - i) * FrameSamples
  BY PackedIs DEF LinkInv
<1>2. n \in Int /\ n \in 1 .. n  BY FormatAssumption
<1>3. sent \in Nat  BY DEF LinkInv, PackerInv, PackerTypeOK
<1>4. FrameOf(Packed) = sent
  <2>1. Packed.blocks[n].data = sent - (n - n)  BY <1>1, <1>2
  <2> QED  BY <1>1, <1>2, <1>3, <2>1 DEF FrameOf
<1> QED  BY <1>1, <1>3, <1>4 DEF CarriesFrames

(***************************************************************************)
(* So does another frame of the sender's: the guard keeps the receiver     *)
(* within half the sequence space, and every packet in flight is one       *)
(* number further behind.                                                  *)
(***************************************************************************)
LEMMA SendKeepsInv ==
    ASSUME LinkInv, NEW dropped \in BOOLEAN, SendFrame(dropped)
    PROVE  LinkInv'
<1>0. initialized => sent - cursor < Half  BY DEF SendFrame
<1>1. /\ Pack /\ packSeq' = SeqInc(packSeq) /\ sent' = sent + 1
      /\ UNCHANGED <<buffer, nextSeq, initialized, PacketsReceived,
                     PacketsLost, PacketsRecovered, cursor, heard, out>>
  BY DEF SendFrame, Pack, receiverVars
<1>11. net' = InFlight(IF dropped THEN net ELSE net \cup {Packed}, sent + 1)
  BY DEF SendFrame
<1>12. ASSUME NEW p \in net'
       PROVE  (p \in net \/ p = Packed) /\ sent + 1 - FrameOf(p) <= Lifetime
  <2>1. PICK written \in {net, net \cup {Packed}} :
          net' = InFlight(written, sent + 1)
    BY <1>11
  <2>2. p \in written /\ (p \in net \/ p = Packed)
    BY <2>1, Zenon DEF InFlight
  <2>3. sent \in Nat /\ FrameOf(p) \in Nat
    BY <2>2, PackedCarries DEF LinkInv, NetFaithful
  <2>5. sent + 1 - FrameOf(p) <= Lifetime
    BY <2>1, <2>3, LinkAssumption DEF InFlight
  <2> QED  BY <2>2, <2>5
<1>2. PackerInv'  BY <1>1, PackKeepsInv DEF LinkInv
<1>3. sent \in Nat /\ packSeq \in SeqNum /\ packTime \in Time
  BY DEF LinkInv, PackerInv, PackerTypeOK
<1>4. Buffered' = Buffered  BY <1>1 DEF Buffered
<1>5. ReceiverInv'
  BY <1>1, <1>4
     DEF LinkInv, ReceiverInv, ReceiverTypeOK, NoStrandedPacket, IdleIsEmpty
<1>6. LinkTypeOK'
  BY <1>1, <1>2, <1>5 DEF LinkInv, LinkTypeOK, PackerInv, ReceiverInv
<1>7. HeardAhead'
  BY <1>1, <1>3 DEF LinkInv, HeardAhead, LinkTypeOK
<1>8. BufferFaithful'
  BY <1>1, <1>4 DEF LinkInv, BufferFaithful, BufferedFrames
<1>9. CursorAgrees'
  <2>0. CASE ~ initialized  BY <1>1, <2>0 DEF CursorAgrees
  <2> SUFFICES ASSUME initialized PROVE CursorAgrees'
    BY <2>0
  <2>1. /\ cursor \in Nat /\ cursor <= sent /\ sent - cursor < Half
        /\ nextSeq = SeqDiff(packSeq, sent - cursor)
    BY <1>0 DEF LinkInv, CursorAgrees, LinkTypeOK
  <2>2. sent - cursor \in 0 .. Half /\ sent + 1 - cursor = (sent - cursor) + 1
        /\ sent + 1 - cursor <= Half
    BY <1>3, <2>1, HalfAssumption
  <2>3. SeqDiff(SeqInc(packSeq), (sent - cursor) + 1)
          = SeqDiff(packSeq, sent - cursor)
    BY <1>3, <2>2, SeqBackSteps
  <2>4. /\ cursor' = cursor /\ nextSeq' = nextSeq
        /\ cursor <= sent + 1 /\ sent + 1 - cursor <= Half
        /\ nextSeq = SeqDiff(packSeq', sent + 1 - cursor)
    BY <1>1, <1>3, <2>1, <2>2, <2>3
  <2> QED  BY <1>1, <1>3, <2>1, <2>4 DEF CursorAgrees
<1>10. NetFaithful'
  <2> SUFFICES ASSUME NEW p \in net'
               PROVE  /\ CarriesFrames(p) /\ p.Timestamp \in Time
                      /\ FrameOf(p) \in Nat /\ FrameOf(p) < sent + 1
                      /\ sent + 1 - FrameOf(p) <= Lifetime
                      /\ p.SequenceNumber
                           = SeqDiff(packSeq', sent + 1 - FrameOf(p))
    BY <1>1, <1>3 DEF NetFaithful
  <2>1. p \in net \/ p = Packed  BY <1>12
  <2>2. sent + 1 - FrameOf(p) <= Lifetime  BY <1>12
  <2>3. CASE p \in net
    <3>1. /\ CarriesFrames(p) /\ p.Timestamp \in Time
          /\ FrameOf(p) \in Nat /\ FrameOf(p) < sent
          /\ p.SequenceNumber = SeqDiff(packSeq, sent - FrameOf(p))
      BY <2>3 DEF LinkInv, NetFaithful
    <3>2. /\ sent - FrameOf(p) \in 0 .. Half
          /\ sent + 1 - FrameOf(p) = (sent - FrameOf(p)) + 1
      BY <1>3, <2>2, <3>1, LinkAssumption, FormatAssumption, HalfAssumption
    <3>3. SeqDiff(SeqInc(packSeq), (sent - FrameOf(p)) + 1)
            = SeqDiff(packSeq, sent - FrameOf(p))
      BY <1>3, <3>2, SeqBackSteps
    <3> QED  BY <1>1, <1>3, <2>2, <3>1, <3>2, <3>3
  <2>4. CASE p = Packed
    <3>1. p.SequenceNumber = packSeq /\ p.Timestamp = packTime
      BY <2>4, PackedIs DEF LinkInv
    <3>4. FrameOf(p) = sent /\ CarriesFrames(p)  BY <2>4, PackedCarries
    <3>6. packSeq = SeqDiff(SeqInc(packSeq), 1)
      <4>1. 0 \in 0 .. Half /\ 0 + 1 = 1  BY HalfAssumption
      <4>2. SeqDiff(packSeq, 0) = packSeq  BY <1>3, NoneBack
      <4> QED  BY <1>3, <4>1, <4>2, SeqBackSteps
    <3>7. sent + 1 - sent = 1  BY <1>3
    <3> QED  BY <1>1, <1>3, <2>2, <3>1, <3>4, <3>6, <3>7
  <2> QED  BY <2>1, <2>3, <2>4
<1> QED
  BY <1>2, <1>5, <1>6, <1>7, <1>8, <1>9, <1>10 DEF LinkInv

(***************************************************************************)
(* So does a change of depth: nothing in flight or received sees it.       *)
(***************************************************************************)
LEMMA FeedbackKeepsInv ==
    ASSUME LinkInv, NEW d \in Depths, Feedback(d)
    PROVE  LinkInv'
<1>1. /\ SetDepth(d) /\ UNCHANGED <<packSeq, packTime, sent>>
      /\ UNCHANGED <<buffer, nextSeq, initialized, PacketsReceived,
                     PacketsLost, PacketsRecovered>>
      /\ UNCHANGED <<net, cursor, heard, out>>
  BY DEF Feedback, SetDepth, receiverVars, linkVars
<1>2. PackerInv'  BY <1>1, SetDepthKeepsInv DEF LinkInv
<1>3. Buffered' = Buffered  BY <1>1 DEF Buffered
<1>4. ReceiverInv'
  BY <1>1, <1>3
     DEF LinkInv, ReceiverInv, ReceiverTypeOK, NoStrandedPacket, IdleIsEmpty
<1>5. LinkTypeOK'
  BY <1>1, <1>2, <1>4 DEF LinkInv, LinkTypeOK, PackerInv, ReceiverInv
<1>6. BufferFaithful'
  BY <1>1, <1>3 DEF LinkInv, BufferFaithful, BufferedFrames
<1> QED
  BY <1>1, <1>2, <1>4, <1>5, <1>6
     DEF LinkInv, NetFaithful, HeardAhead, CursorAgrees

(***************************************************************************)
(* What the two ways of moving on find: the frame at the cursor has been   *)
(* heard and is the one popped, or has not and a later one has.            *)
(***************************************************************************)
LEMMA PopFinds ==
    ASSUME LinkInv, Pop
    PROVE  /\ cursor \in heard <=> nextSeq \in Buffered
           /\ nextSeq \in Buffered => buffer[nextSeq] = cursor
           /\ heard # {}
           /\ initialized /\ cursor \in Nat /\ cursor < sent
<1>1. /\ initialized /\ Buffered # {}
      /\ nextSeq \in SeqNum /\ Buffered \subseteq SeqNum
      /\ cursor \in Nat /\ sent \in Nat /\ heard \subseteq Nat
  BY DEF Pop, PopFrame, PopMark, PopHit, PopSkip, LinkInv, LinkTypeOK,
     ReceiverInv, ReceiverTypeOK, PackerInv, PackerTypeOK
<1>2. \A s \in Buffered : /\ buffer[s] \in heard
                          /\ buffer[s] = cursor + SeqDiff(s, nextSeq)
  BY DEF LinkInv, BufferFaithful, BufferedFrames
<1>3. SeqDiff(nextSeq, nextSeq) = 0
      /\ \A s \in Buffered : s # nextSeq => SeqDiff(s, nextSeq) \in 1 .. SeqMod - 1
  BY <1>1, SeqCloser
<1>4. nextSeq \in Buffered => buffer[nextSeq] = cursor
  BY <1>1, <1>2, <1>3
<1>5. cursor \in heard => nextSeq \in Buffered
  <2> SUFFICES ASSUME cursor \in heard PROVE nextSeq \in Buffered
    OBVIOUS
  <2>1. PICK s \in Buffered : buffer[s] = cursor
    BY DEF LinkInv, BufferFaithful, BufferedFrames
  <2>2. cursor = cursor + SeqDiff(s, nextSeq)  BY <1>2, <2>1
  <2>3. CASE s = nextSeq  BY <2>3
  <2>4. CASE s # nextSeq
    <3>1. SeqDiff(s, nextSeq) \in 1 .. SeqMod - 1  BY <1>3, <2>4
    <3> QED  BY <1>1, <2>2, <3>1, HalfAssumption DEF SeqMod
  <2> QED  BY <2>3, <2>4
<1>6. PICK f \in heard : cursor <= f /\ f < sent
  BY <1>1, <1>2 DEF LinkInv, HeardAhead
<1>7. cursor < sent  BY <1>1, <1>6
<1> QED  BY <1>1, <1>2, <1>4, <1>5, <1>6, <1>7

(***************************************************************************)
(* Moving on keeps the invariant: cursor and nextSeq advance together, and *)
(* every frame that waits comes one closer to both.                        *)
(***************************************************************************)
LEMMA PopKeepsLinkInv ==
    ASSUME LinkInv, Pop
    PROVE  LinkInv'
<1>1. /\ cursor \in heard <=> nextSeq \in Buffered
      /\ nextSeq \in Buffered => buffer[nextSeq] = cursor
      /\ initialized /\ cursor \in Nat /\ cursor < sent
  BY PopFinds
<1>2. /\ nextSeq' = SeqInc(nextSeq) /\ cursor' = cursor + 1
      /\ heard' = heard \ {cursor}
      /\ initialized' = initialized
      /\ UNCHANGED <<depth, history, packSeq, packTime, sent, net>>
  BY DEF Pop, PopFrame, PopMark, PopHit, PopSkip, packerVars
<1>3. buffer' = [s \in Buffered \ {nextSeq} |-> buffer[s]]
  <2>1. CASE PopFrame  BY <2>1 DEF PopFrame, PopHit
  <2>2. CASE PopMark
    <3>1. buffer' = buffer /\ nextSeq \notin Buffered
      BY <2>2 DEF PopMark, PopSkip
    <3>2. Buffered \ {nextSeq} = Buffered  BY <3>1
    <3> QED  BY <3>1, <3>2 DEF LinkInv, ReceiverInv, ReceiverTypeOK
  <2> QED  BY <2>1, <2>2 DEF Pop
<1>4. Buffered' = Buffered \ {nextSeq}  BY <1>3 DEF Buffered
<1>5. /\ sent \in Nat /\ packSeq \in SeqNum /\ nextSeq \in SeqNum
      /\ Buffered \subseteq SeqNum /\ heard \subseteq Nat
  BY DEF LinkInv, LinkTypeOK, ReceiverInv, ReceiverTypeOK, PackerInv,
     PackerTypeOK
<1>6. PackerInv'
  BY <1>2 DEF LinkInv, PackerInv, PackerTypeOK, HistoryRecent
<1>7. ReceiverInv'
  <2>1. PopHit \/ \E force \in BOOLEAN : PopSkip(force)
    BY DEF Pop, PopFrame, PopMark
  <2> QED  BY <2>1, PopKeepsInv DEF LinkInv
<1>8. LinkTypeOK'
  <2>1. out' \in Nat \cup {Silence}
    <3>1. CASE PopFrame
      BY <1>1, <3>1 DEF PopFrame, PopHit
    <3>2. CASE PopMark  BY <3>2 DEF PopMark
    <3> QED  BY <3>1, <3>2 DEF Pop
  <2> QED
    BY <1>1, <1>2, <1>5, <1>6, <1>7, <2>1
       DEF LinkTypeOK, PackerInv, ReceiverInv
<1>9. NetFaithful'  BY <1>2 DEF LinkInv, NetFaithful
<1>10. HeardAhead'
  BY <1>1, <1>2, <1>5 DEF LinkInv, HeardAhead
<1>11. CursorAgrees'
  <2>1. /\ sent - cursor \in 1 .. Half
        /\ nextSeq = SeqDiff(packSeq, sent - cursor)
    BY <1>1, <1>5, HalfAssumption DEF LinkInv, CursorAgrees
  <2>2. SeqInc(nextSeq) = SeqDiff(packSeq, (sent - cursor) - 1)
    BY <1>5, <2>1, SeqBackCloser
  <2>3. (sent - cursor) - 1 = sent - (cursor + 1)  BY <1>1, <1>5
  <2> QED
    BY <1>1, <1>2, <1>5, <2>1, <2>2, <2>3, HalfAssumption DEF CursorAgrees
<1>12. BufferFaithful'
  <2>1. ASSUME NEW s \in Buffered'
        PROVE  /\ s \in Buffered /\ s # nextSeq /\ buffer'[s] = buffer[s]
               /\ buffer'[s] = cursor' + SeqDiff(s, nextSeq')
               /\ buffer'[s] # cursor
    <3>1. s \in Buffered /\ s # nextSeq /\ buffer'[s] = buffer[s]
      BY <1>3, <1>4
    <3>2. buffer[s] = cursor + SeqDiff(s, nextSeq)
      BY <3>1 DEF LinkInv, BufferFaithful
    <3>3. /\ SeqDiff(s, nextSeq) \in 1 .. SeqMod - 1
          /\ SeqDiff(s, SeqInc(nextSeq)) = SeqDiff(s, nextSeq) - 1
      BY <1>5, <3>1, SeqCloser
    <3>4. SeqMod \in Int  BY HalfAssumption DEF SeqMod
    <3> DEFINE x == SeqDiff(s, nextSeq)
    <3> HIDE DEF x
    <3>5. x \in 1 .. SeqMod - 1 /\ SeqDiff(s, SeqInc(nextSeq)) = x - 1
          /\ buffer[s] = cursor + x
      BY <3>2, <3>3 DEF x
    <3> QED  BY <1>1, <1>2, <3>1, <3>4, <3>5
  <2>2. ASSUME NEW f \in heard, f # cursor
        PROVE  f \in BufferedFrames'
    <3>1. PICK s \in Buffered : buffer[s] = f
      BY DEF LinkInv, BufferFaithful, BufferedFrames
    <3>2. s # nextSeq  BY <1>1, <2>2, <3>1
    <3>3. s \in Buffered' /\ buffer'[s] = f  BY <1>3, <1>4, <3>1, <3>2
    <3> QED  BY <3>3 DEF BufferedFrames
  <2>3. \A s \in Buffered : buffer[s] \in heard
    BY DEF LinkInv, BufferFaithful, BufferedFrames
  <2>4. BufferedFrames' = heard'
    BY <1>2, <2>1, <2>2, <2>3 DEF BufferedFrames
  <2> QED  BY <2>1, <2>4 DEF BufferFaithful
<1> QED
  BY <1>6, <1>7, <1>8, <1>9, <1>10, <1>11, <1>12 DEF LinkInv

-----------------------------------------------------------------------------
(***************************************************************************)
(* The invariant holds of a link on which nothing has been sent.           *)
(***************************************************************************)
LEMMA LinkInitHasInv == LinkInit => LinkInv
<1> SUFFICES ASSUME LinkInit PROVE LinkInv
  OBVIOUS
<1>1. PackerInv
  BY HalfAssumption, FormatAssumption
     DEF LinkInit, PackerInit, PackerInv, PackerTypeOK, HistoryRecent, Depths,
         SeqNum, SeqMod, Time, OffsetMod, FrameSamples
<1>2. ReceiverInv  BY InitHasInv DEF LinkInit
<1>3. /\ net = {} /\ cursor = 0 /\ heard = {} /\ out = Silence
      /\ initialized = FALSE /\ Buffered = {}
  BY DEF LinkInit, ReceiverInit, Buffered
<1>4. LinkTypeOK  BY <1>1, <1>2, <1>3 DEF LinkTypeOK, PackerInv, ReceiverInv
<1>5. BufferFaithful  BY <1>3 DEF BufferFaithful, BufferedFrames
<1> QED
  BY <1>1, <1>2, <1>3, <1>4, <1>5
     DEF LinkInv, NetFaithful, HeardAhead, CursorAgrees

(***************************************************************************)
(* Every step of the link keeps it.                                        *)
(***************************************************************************)
LEMMA NextKeepsLinkInv == LinkInv /\ [LinkNext]_vars => LinkInv'
<1> SUFFICES ASSUME LinkInv, [LinkNext]_vars PROVE LinkInv'
  OBVIOUS
<1>1. ASSUME NEW p \in net, Deliver(p) PROVE LinkInv'
  BY <1>1, DeliverKeepsInv
<1>2. ASSUME NEW dropped \in BOOLEAN, SendFrame(dropped) PROVE LinkInv'
  BY <1>2, SendKeepsInv
<1>3. ASSUME NEW d \in Depths, Feedback(d) PROVE LinkInv'
  BY <1>3, FeedbackKeepsInv
<1>4. CASE Pop  BY <1>4, PopKeepsLinkInv
<1>5. CASE UNCHANGED vars
  BY <1>5
     DEF vars, packerVars, receiverVars, linkVars, LinkInv, PackerInv,
         PackerTypeOK, HistoryRecent, ReceiverInv, ReceiverTypeOK,
         NoStrandedPacket, IdleIsEmpty, LinkTypeOK, NetFaithful, HeardAhead,
         BufferFaithful, BufferedFrames, CursorAgrees, Buffered
<1>6. CASE Done
  BY <1>5, <1>6 DEF Done, PopNone, vars
<1> QED  BY <1>1, <1>2, <1>3, <1>4, <1>5, <1>6 DEF LinkNext, Unheard

(***************************************************************************)
(* Whatever is lost, duplicated, reordered or recovered, and however the   *)
(* numbers wrap, the buffer holds exactly the frames heard and not yet     *)
(* accounted for, each in its own place, and sender and receiver agree     *)
(* where playout stands.                                                   *)
(***************************************************************************)
THEOREM LinkSafe ==
    LinkSpec => [](LinkTypeOK /\ BufferFaithful /\ CursorAgrees)
<1>1. LinkInv => LinkTypeOK /\ BufferFaithful /\ CursorAgrees
  BY DEF LinkInv
<1> QED
  BY <1>1, LinkInitHasInv, NextKeepsLinkInv, PTL DEF LinkSpec

-----------------------------------------------------------------------------
(***************************************************************************)
(* A delivery is, to the abstract player, the beginning or a hearing.      *)
(***************************************************************************)
LEMMA DeliverImplements ==
    ASSUME LinkInv, LinkInv', NEW p \in net, Deliver(p)
    PROVE  Promise!Begin \/ Promise!Hear
<1>1. /\ cursor' = CursorAt(p) /\ initialized' = TRUE
      /\ heard' = heard \cup {f \in FramesIn(p) : f >= cursor'}
      /\ out' = out /\ PacketsLost' = PacketsLost
  BY DEF Deliver, Push, CursorAt
<1>2. heard' \in SUBSET Nat /\ \A f \in heard' : f >= cursor'
  BY DEF LinkInv, LinkTypeOK, HeardAhead
<1>3. cursor' \in Nat  BY DEF LinkInv, LinkTypeOK
<1>4. CASE initialized
  BY <1>1, <1>2, <1>4 DEF Promise!Hear, Promise!Upcoming, CursorAt
<1>5. CASE ~ initialized
  <2>1. cursor' = FrameOf(p)  BY <1>1, <1>5 DEF CursorAt
  <2>2. FrameOf(p) \in FramesIn(p)
    <3>1. PICK n \in 1 .. MaxDepth + 1 :
            Len(p.blocks) = n /\ DOMAIN p.blocks = 1 .. n
      BY DEF LinkInv, NetFaithful, CarriesFrames
    <3>2. n \in DOMAIN p.blocks  BY <3>1, FormatAssumption
    <3> QED  BY <3>1, <3>2 DEF FrameOf, FramesIn
  <2>3. cursor' \in heard'  BY <1>1, <1>3, <2>1, <2>2
  <2> QED
    BY <1>1, <1>2, <1>3, <1>5, <2>3 DEF Promise!Begin, Promise!Upcoming
<1> QED  BY <1>4, <1>5

(***************************************************************************)
(* Popping a frame is playing it, popping a mark concealing it.            *)
(***************************************************************************)
LEMMA PopImplements ==
    ASSUME LinkInv, Pop
    PROVE  Promise!Play \/ Promise!Conceal
<1>1. /\ cursor \in heard <=> nextSeq \in Buffered
      /\ nextSeq \in Buffered => buffer[nextSeq] = cursor
      /\ heard # {} /\ initialized
  BY PopFinds
<1>2. CASE PopFrame
  <2>1. /\ nextSeq \in Buffered /\ out' = buffer[nextSeq]
        /\ cursor' = cursor + 1 /\ heard' = heard \ {cursor}
        /\ initialized' = initialized /\ PacketsLost' = PacketsLost
    BY <1>2 DEF PopFrame, PopHit, metrics
  <2> QED  BY <1>1, <2>1 DEF Promise!Play
<1>3. CASE PopMark
  <2>1. /\ nextSeq \notin Buffered /\ out' = Silence
        /\ cursor' = cursor + 1 /\ heard' = heard \ {cursor}
        /\ initialized' = initialized /\ PacketsLost' = PacketsLost + 1
    BY <1>3 DEF PopMark, PopSkip
  <2>2. heard' = heard  BY <1>1, <2>1
  <2> QED  BY <1>1, <2>1, <2>2 DEF Promise!Conceal
<1> QED  BY <1>2, <1>3 DEF Pop

(***************************************************************************)
(* The receiver does what Playout promises: positions in order and once,   *)
(* every frame heard in time played in its place, the others concealed.    *)
(***************************************************************************)
THEOREM LinkImplements == LinkSpec => ImplementsPlayout
<1>1. LinkInit => Promise!PlayoutInit
  BY DEF LinkInit, ReceiverInit, Promise!PlayoutInit
<1>2. LinkInv /\ LinkInv' /\ [LinkNext]_vars
        => [Promise!PlayoutNext]_Promise!playoutVars
  <2> SUFFICES ASSUME LinkInv, LinkInv', [LinkNext]_vars
               PROVE  [Promise!PlayoutNext]_Promise!playoutVars
    OBVIOUS
  <2> USE DEF Promise!playoutVars
  <2>1. ASSUME NEW p \in net, Deliver(p) PROVE Promise!PlayoutNext
    BY <2>1, DeliverImplements DEF Promise!PlayoutNext
  <2>2. CASE Pop  BY <2>2, PopImplements DEF Promise!PlayoutNext
  <2>3. ASSUME NEW dropped \in BOOLEAN, SendFrame(dropped)
        PROVE  UNCHANGED Promise!playoutVars
    BY <2>3 DEF SendFrame, receiverVars
  <2>4. ASSUME NEW d \in Depths, Feedback(d)
        PROVE  UNCHANGED Promise!playoutVars
    BY <2>4 DEF Feedback, receiverVars, linkVars
  <2>5. CASE Done  BY <2>5 DEF Done, PopNone, receiverVars, linkVars
  <2>6. CASE UNCHANGED vars  BY <2>6 DEF vars, receiverVars, linkVars
  <2> QED
    BY <2>1, <2>2, <2>3, <2>4, <2>5, <2>6 DEF LinkNext, Unheard
<1> QED
  BY <1>1, <1>2, LinkInitHasInv, NextKeepsLinkInv, PTL
     DEF LinkSpec, ImplementsPlayout, Promise!PlayoutSpec

-----------------------------------------------------------------------------
(***************************************************************************)
(* A frame counted as recovered has been played since, or is in the buffer *)
(* until it is; so no later packet that carries it counts it again.        *)
(***************************************************************************)
RecoveryInv ==
    /\ LinkInv
    /\ IsFiniteSet(claimed) /\ PacketsRecovered = Cardinality(claimed)
    /\ \A f \in claimed : f \in Nat /\ (f < cursor \/ f \in heard)
    /\ ~ initialized => claimed = {}

\* The frames that a delivery of p counts.
Counts(p) == {p.blocks[BlockFor(p, s)].data : s \in Recovered(p)}

(***************************************************************************)
(* It counts as many as it inserts that are not in the buffer, none of     *)
(* them behind the cursor.                                                 *)
(***************************************************************************)
LEMMA CountsAre ==
    ASSUME LinkInv, NEW p \in net
    PROVE  /\ IsFiniteSet(Recovered(p)) /\ IsFiniteSet(Counts(p))
           /\ Cardinality(Counts(p)) = Cardinality(Recovered(p))
           /\ \A f \in Counts(p) : f \in FramesIn(p) /\ f >= CursorAt(p) /\ f \in Nat
           /\ \A f \in Counts(p) : \E s \in SeqNum :
                s \notin Buffered /\ f = CursorAt(p) + SeqDiff(s, Base(p))
<1> DEFINE S == Recovered(p)
           T == Counts(p)
           f == [s \in S |-> p.blocks[BlockFor(p, s)].data]
           c == CursorAt(p)
           b == Base(p)
<1>1. c \in Nat /\ b \in SeqNum
    BY BaseIs
<1>2. Inserted(p) \subseteq SeqNum
    BY BlockIs DEF Inserted
<1>3. S \subseteq SeqNum \ Buffered /\ S \subseteq Inserted(p)
    BY <1>2 DEF Recovered
<1>4. \A s \in Inserted(p) :
            LET g == p.blocks[BlockFor(p, s)].data
            IN  g \in FramesIn(p) /\ g >= c /\ g = c + SeqDiff(s, b)
    BY InsertedIs
<1>5. \A s \in S : f[s] \in FramesIn(p) /\ f[s] >= c /\ f[s] = c + SeqDiff(s, b)
    BY <1>3, <1>4
<1>6. T = {f[s] : s \in S}
    BY DEF Counts
<1> HIDE DEF c, b, S, T
<1>7. \A s \in SeqNum : SeqDiff(s, b) \in Nat
    BY <1>1, HalfAssumption DEF SeqNum, SeqMod, SeqDiff
<1>8. \A s, t \in SeqNum : SeqDiff(s, b) = SeqDiff(t, b) => s = t
    BY <1>1, HalfAssumption DEF SeqNum, SeqMod, SeqDiff
<1>9. \A s, t \in S : f[s] = f[t] => s = t
    <2> SUFFICES ASSUME NEW s \in S, NEW t \in S, f[s] = f[t] PROVE s = t
        OBVIOUS
    <2>1. c + SeqDiff(s, b) = c + SeqDiff(t, b) /\ s \in SeqNum /\ t \in SeqNum
        BY <1>3, <1>5
    <2>2. SeqDiff(s, b) = SeqDiff(t, b)
        BY <1>1, <1>7, <2>1
    <2> QED
        BY <1>8, <2>1, <2>2
<1>10. f \in Bijection(S, T)
    <2>1. f \in [S -> T] /\ DOMAIN f = S
        BY <1>6
    <2> HIDE DEF f
    <2>2. f \in Injection(S, T)
        BY <1>9, <2>1 DEF Injection, IsInjective
    <2>3. f \in Surjection(S, T)
        BY <1>6, <2>1 DEF Surjection
    <2> QED
        BY <2>2, <2>3 DEF Bijection
<1>11. IsFiniteSet(S)
    BY <1>3, SeqNumsFinite
<1>12. IsFiniteSet(T) /\ Cardinality(T) = Cardinality(S)
    <2>1. ExistsBijection(S, T)
        BY <1>10 DEF ExistsBijection
    <2> QED
        BY <1>11, <2>1, FS_Bijection
<1>13. \A g \in T : /\ g \in FramesIn(p) /\ g >= c /\ g \in Nat
                    /\ \E s \in SeqNum : s \notin Buffered /\ g = c + SeqDiff(s, b)
    <2> SUFFICES ASSUME NEW s \in S
                 PROVE  /\ f[s] \in FramesIn(p) /\ f[s] >= c /\ f[s] \in Nat
                        /\ s \in SeqNum /\ s \notin Buffered /\ f[s] = c + SeqDiff(s, b)
        BY <1>6
    <2>1. f[s] \in FramesIn(p) /\ f[s] >= c /\ f[s] = c + SeqDiff(s, b)
        BY <1>5
    <2>2. s \in SeqNum /\ s \notin Buffered
        BY <1>3
    <2> HIDE DEF f
    <2> QED
        BY <1>1, <1>7, <2>1, <2>2
<1> QED
    BY <1>11, <1>12, <1>13 DEF S, T, c, b

LEMMA DeliverCountsOnce ==
    ASSUME RecoveryInv, NEW p \in net, WatchedDeliver(p)
    PROVE  RecoveryInv'
<1>1. /\ Deliver(p) /\ Push(p) /\ claimed' = claimed \cup Counts(p)
      /\ PacketsRecovered' = PacketsRecovered + Cardinality(Recovered(p))
      /\ cursor' = CursorAt(p) /\ initialized' = TRUE
      /\ heard' = heard \cup {f \in FramesIn(p) : f >= cursor'}
    BY DEF WatchedDeliver, Deliver, Push, CursorAt, Counts
<1>2. LinkInv'
    BY <1>1, DeliverKeepsInv DEF RecoveryInv
<1>3. /\ IsFiniteSet(Counts(p)) /\ Cardinality(Counts(p)) = Cardinality(Recovered(p))
      /\ \A f \in Counts(p) : f \in FramesIn(p) /\ f >= CursorAt(p) /\ f \in Nat
      /\ \A f \in Counts(p) : \E s \in SeqNum :
            s \notin Buffered /\ f = CursorAt(p) + SeqDiff(s, Base(p))
    BY CountsAre DEF RecoveryInv
<1>4. claimed \cap Counts(p) = {}
    <2> SUFFICES ASSUME NEW f \in claimed, f \in Counts(p) PROVE FALSE
        OBVIOUS
    <2>1. /\ initialized /\ CursorAt(p) = cursor /\ Base(p) = nextSeq
        BY DEF RecoveryInv, CursorAt, Base
    <2>2. cursor \in Nat /\ nextSeq \in SeqNum
        BY DEF RecoveryInv, LinkInv, LinkTypeOK, ReceiverInv, ReceiverTypeOK
    <2>3. f \in heard /\ f >= cursor
        BY <1>3, <2>1, <2>2 DEF RecoveryInv
    <2>4. PICK t \in Buffered : buffer[t] = f
        BY <2>3 DEF RecoveryInv, LinkInv, BufferFaithful, BufferedFrames
    <2>5. f = cursor + SeqDiff(t, nextSeq) /\ t \in SeqNum
        BY <2>4 DEF RecoveryInv, LinkInv, BufferFaithful, ReceiverInv, ReceiverTypeOK
    <2>6. PICK s \in SeqNum : s \notin Buffered /\ f = cursor + SeqDiff(s, nextSeq)
        BY <1>3, <2>1
    <2>7. SeqDiff(s, nextSeq) \in Nat /\ SeqDiff(t, nextSeq) \in Nat
        BY <2>2, <2>5, HalfAssumption DEF SeqNum, SeqMod, SeqDiff
    <2>8. SeqDiff(s, nextSeq) = SeqDiff(t, nextSeq)
        BY <2>2, <2>5, <2>6, <2>7
    <2>9. s = t
        BY <2>2, <2>5, <2>8, HalfAssumption DEF SeqNum, SeqMod, SeqDiff
    <2> QED
        BY <2>4, <2>6, <2>9
<1>5. IsFiniteSet(claimed') /\ PacketsRecovered' = Cardinality(claimed')
    <2> DEFINE a == claimed
               b == Counts(p)
    <2>1. IsFiniteSet(a) /\ IsFiniteSet(b) /\ a \cap b = {}
        BY <1>3, <1>4 DEF RecoveryInv
    <2>2. PacketsRecovered' = Cardinality(a) + Cardinality(b)
        BY <1>1, <1>3 DEF RecoveryInv
    <2> HIDE DEF a, b
    <2>3. /\ IsFiniteSet(a \cup b)
          /\ Cardinality(a \cup b) = Cardinality(a) + Cardinality(b) - Cardinality(a \cap b)
        BY <2>1, FS_Union
    <2>4. Cardinality(a \cap b) = 0
        BY <2>1, FS_EmptySet
    <2>5. Cardinality(a) \in Nat /\ Cardinality(b) \in Nat
        BY <2>1, FS_CardinalityType
    <2>6. claimed' = a \cup b
        BY <1>1 DEF a, b
    <2> QED
        BY <2>2, <2>3, <2>4, <2>5, <2>6
<1>6. ASSUME NEW f \in claimed' PROVE f \in Nat /\ (f < cursor' \/ f \in heard')
    <2>1. CASE f \in claimed
        <3>1. initialized /\ cursor' = cursor
            BY <1>1, <2>1 DEF RecoveryInv, CursorAt
        <3> QED
            BY <1>1, <2>1, <3>1 DEF RecoveryInv
    <2>2. CASE f \in Counts(p)
        BY <1>1, <1>3, <2>2
    <2> QED
        BY <1>1, <2>1, <2>2
<1> QED
    BY <1>1, <1>2, <1>5, <1>6 DEF RecoveryInv

LEMMA RecoveryNextKeeps ==
    ASSUME RecoveryInv, [RecoveryNext]_recoveryVars
    PROVE  RecoveryInv'
<1>1. CASE Unheard /\ UNCHANGED claimed
    <2>1. LinkInv'
        BY <1>1, NextKeepsLinkInv DEF RecoveryInv, LinkNext
    <2>2. /\ PacketsRecovered' = PacketsRecovered /\ initialized' = initialized
          /\ \/ cursor' = cursor /\ heard' = heard
             \/ cursor' = cursor + 1 /\ heard' = heard \ {cursor}
        BY <1>1 DEF Unheard, SendFrame, Feedback, Pop, PopFrame, PopMark, PopHit, PopSkip,
                    Done, PopNone, receiverVars, linkVars, metrics
    <2>3. cursor \in Nat
        BY DEF RecoveryInv, LinkInv, LinkTypeOK
    <2>4. \A f \in claimed : f \in Nat /\ (f < cursor' \/ f \in heard')
        BY <2>2, <2>3 DEF RecoveryInv
    <2> QED
        BY <1>1, <2>1, <2>2, <2>4 DEF RecoveryInv
<1>2. CASE UNCHANGED recoveryVars
    <2>1. LinkInv'
        BY <1>2, NextKeepsLinkInv DEF RecoveryInv, recoveryVars
    <2> QED
        BY <1>2, <2>1 DEF RecoveryInv, recoveryVars, vars, linkVars, receiverVars
<1> QED
    BY <1>1, <1>2, DeliverCountsOnce DEF RecoveryNext

(***************************************************************************)
(* PacketsRecovered is the number of frames recovered, however often and   *)
(* in whatever order the packets that carry one are delivered.             *)
(***************************************************************************)
THEOREM CountedOnce == RecoverySpec => []RecoveredOnce
<1>1. RecoveryInit => RecoveryInv
    BY LinkInitHasInv, FS_EmptySet DEF RecoveryInit, RecoveryInv, LinkInit, ReceiverInit
<1>2. RecoveryInv /\ [RecoveryNext]_recoveryVars => RecoveryInv'
    BY RecoveryNextKeeps
<1>3. RecoveryInv => RecoveredOnce
    BY DEF RecoveryInv, RecoveredOnce
<1> QED
    BY <1>1, <1>2, <1>3, PTL DEF RecoverySpec
=============================================================================
