-------------------------- MODULE RtpAdapter_proofs ---------------------------
(***************************************************************************)
(* However many goroutines read the socket, whatever the order in which    *)
(* they take their locks and whatever is lost: no position is handed on    *)
(* twice, one of a RED stream is handed on as what was sent, and no        *)
(* goroutine outlives Stop.                                                *)
(***************************************************************************)
EXTENDS RtpAdapter, RedReceiver_proofs

-----------------------------------------------------------------------------
\* The shape of what the goroutines have.
GoroutinesShape ==
    /\ pc \in [Workers -> {"read", "check", "push", "pop", "decode", "hand",
                           "write", "exited"}]
    /\ buf \in [Workers -> Frames \cup {NoFrame}]
    /\ popped = [w \in Workers |-> popped[w]]
    /\ pcm = [w \in Workers |-> pcm[w]]
    /\ \A w \in Workers : pc[w] \in {"check", "push"} => buf[w] \in Frames

\* The receiver's frames are of the stream, and none is behind playout, which
\* never passes the end of the stream.
Playing ==
    /\ nextSeq \in 0 .. MaxFrames
    /\ initialized \in BOOLEAN
    /\ Buffered \subseteq Frames
    /\ \A s \in Buffered : s >= nextSeq
    /\ ~ initialized => Buffered = {}

\* A frame's payload is its own, where it is copied.
Copied == PayloadType = 112 => \A s \in Buffered : buffer[s] = <<"copy", s>>

\* Goroutine w is between popping a position and handing it on.
Holding(w) == pc[w] \in {"decode", "hand"}

Position(w) == IF pc[w] = "decode" THEN popped[w][1] ELSE pcm[w][1]

\* What it holds is the position's frame, or nothing.
HeldFaithful(w) ==
    /\ pc[w] = "decode" => \/ popped[w] = <<popped[w][1]>>
                           \/ popped[w] = <<popped[w][1], <<"copy", popped[w][1]>>>>
    /\ pc[w] = "hand" => pcm[w][2] \in {pcm[w][1], NoFrame}

\* Every position before playout is in at most one place.
PositionsOnce ==
    /\ \E S : ingested \in Seq(S)
    /\ \A w \in Workers : Holding(w) => Position(w) \in 0 .. nextSeq - 1
    /\ \A i \in DOMAIN ingested : ingested[i][1] \in 0 .. nextSeq - 1
    /\ \A w, v \in Workers :
        Holding(w) /\ Holding(v) /\ Position(w) = Position(v) => w = v
    /\ \A w \in Workers : \A i \in DOMAIN ingested :
        Holding(w) => Position(w) # ingested[i][1]
    /\ HandedOnce
    /\ ~ initialized => ingested = <<>> /\ \A w \in Workers : ~ Holding(w)

\* Stop leaves nobody.
NobodyLeft ==
    stopping = "done" => ~ recording /\ \A w \in Workers : pc[w] = "exited"

\* The inductive invariants: of what is handed on, and of the end.
HandedInv ==
    /\ GoroutinesShape /\ Playing /\ PositionsOnce
    /\ Copied
    /\ PayloadType = 112 => HandedFaithful /\ \A w \in Workers : HeldFaithful(w)

-----------------------------------------------------------------------------
\* What a datagram carries.
LEMMA DatagramIs ==
    ASSUME NEW w \in Workers, buf[w] \in Frames
    PROVE  /\ Datagram(w).SequenceNumber = buf[w]
           /\ Decodable(Datagram(w))
           /\ \A i \in DOMAIN Datagram(w).blocks :
                /\ BlockSeq(Datagram(w), i) \in Frames
                /\ BlockSeq(Datagram(w), i) \in buf[w] - MaxDepth .. buf[w]
                /\ PayloadType = 112 =>
                    Datagram(w).blocks[i].data = <<"copy", BlockSeq(Datagram(w), i)>>
           /\ \A i, j \in DOMAIN Datagram(w).blocks :
                BlockSeq(Datagram(w), i) = BlockSeq(Datagram(w), j) => i = j
<1> DEFINE f == buf[w]
           p == Datagram(w)
           d == Redundancy(f)
           back(i) == d + 1 - i
<1>1. /\ f \in Nat /\ f < MaxFrames /\ MaxFrames < Half /\ MaxFrames \in Nat
      /\ Half \in Nat /\ f \in SeqNum
    BY AdapterAssumption, HalfAssumption DEF Frames, SeqNum, SeqMod
<1>2. d \in Nat /\ d <= MaxDepth /\ d <= f /\ MaxDepth \in Nat
    BY <1>1, FormatAssumption DEF Redundancy
<1>3. /\ p.SequenceNumber = f /\ p.Timestamp = f * FrameSamples
      /\ DOMAIN p.blocks = 1 .. d + 1
      /\ \A i \in 1 .. d + 1 :
            /\ p.blocks[i].offset = back(i) * FrameSamples
            /\ p.blocks[i].data = Payload(w, f - back(i))
    BY DEF Datagram
<1>4. p.Timestamp \in Time
    <2>1. f * 960 <= MaxFrames * 960 - 960
        BY <1>1
    <2> QED
        BY <1>1, <1>3, <2>1, AdapterAssumption, FormatAssumption DEF Time, FrameSamples
<1>5. ASSUME NEW i \in 1 .. d + 1
      PROVE  BlockSeq(p, i) = f - back(i) /\ back(i) \in 0 .. f /\ back(i) = d + 1 - i
    <2>1. back(i) \in 0 .. MaxDepth /\ back(i) \in 0 .. f
        BY <1>1, <1>2
    <2>2. p.blocks[i].offset = back(i) * FrameSamples /\ p.SequenceNumber \in SeqNum
        BY <1>1, <1>3
    <2> HIDE DEF p, back
    <2>3. BlockSeq(p, i) = SeqDiff(p.SequenceNumber, back(i))
        BY <1>4, <2>1, <2>2, BlockSeqIs
    <2>4. SeqDiff(f, back(i)) = f - back(i)
        BY <1>1, <2>1 DEF SeqDiff
    <2> QED
        BY <1>3, <2>1, <2>3, <2>4 DEF back
<1> HIDE DEF p, d, f
<1>6. Decodable(p)
    <2>1. \A i \in 1 .. d + 1 : back(i) \in 0 .. MaxDepth
        BY <1>2
    <2> QED
        BY <1>1, <1>3, <1>4, <2>1 DEF Decodable
<1>7. ASSUME NEW i \in 1 .. d + 1
      PROVE  BlockSeq(p, i) \in Frames /\ BlockSeq(p, i) \in f - MaxDepth .. f
    BY <1>1, <1>2, <1>5 DEF Frames
<1>8. ASSUME NEW i \in 1 .. d + 1, PayloadType = 112
      PROVE  p.blocks[i].data = <<"copy", BlockSeq(p, i)>>
    BY <1>3, <1>5, <1>8 DEF Payload
<1>9. ASSUME NEW i \in 1 .. d + 1, NEW j \in 1 .. d + 1, BlockSeq(p, i) = BlockSeq(p, j)
      PROVE  i = j
    BY <1>1, <1>2, <1>5, <1>9
<1> QED
    BY <1>3, <1>6, <1>7, <1>8, <1>9 DEF p, f

\* Numbers of the stream are ordered as they are, playout steps by one.
LEMMA ShortStream ==
    ASSUME NEW s \in 0 .. MaxFrames, NEW n \in 0 .. MaxFrames
    PROVE  /\ seqBefore(s, n) <=> s < n
           /\ SeqInc(n) = n + 1
BY AdapterAssumption, HalfAssumption DEF seqBefore, SeqInc, SeqMod

\* A set of frames is finite.
LEMMA FramesFinite ==
    ASSUME NEW S, S \subseteq Frames
    PROVE  IsFiniteSet(S) /\ Cardinality(S) \in Nat
<1>1. Frames \subseteq SeqNum
    BY AdapterAssumption, HalfAssumption DEF Frames, SeqNum, SeqMod
<1> QED
    BY <1>1, SeqNumsFinite

\* What appending to a sequence does.
LEMMA AppendIs ==
    ASSUME NEW q, \E S : q \in Seq(S), NEW x
    PROVE  /\ \E S : Append(q, x) \in Seq(S)
           /\ DOMAIN Append(q, x) = DOMAIN q \cup {Len(q) + 1}
           /\ Len(q) + 1 \notin DOMAIN q
           /\ \A i \in DOMAIN q : Append(q, x)[i] = q[i]
           /\ Append(q, x)[Len(q) + 1] = x
<1>1. PICK S : q \in Seq(S)
    OBVIOUS
<1>2. q \in Seq(S \cup {x}) /\ x \in S \cup {x}
    BY <1>1
<1>3. Append(q, x) \in Seq(S \cup {x}) /\ Len(Append(q, x)) = Len(q) + 1
    BY <1>2
<1>4. /\ DOMAIN q = 1 .. Len(q) /\ Len(q) \in Nat
      /\ DOMAIN Append(q, x) = 1 .. Len(q) + 1
    BY <1>2, <1>3
<1>5. \A i \in DOMAIN q : Append(q, x)[i] = q[i]
    BY <1>2, <1>4
<1>6. Append(q, x)[Len(q) + 1] = x
    BY <1>2, <1>4
<1> QED
    BY <1>3, <1>4, <1>5, <1>6

\* Initially nothing is held, buffered or handed on.
LEMMA AdapterStarts == ASSUME AdapterInit PROVE HandedInv /\ NobodyLeft
<1>1. GoroutinesShape
    BY DEF AdapterInit, GoroutinesShape
<1>2. Buffered = {} /\ nextSeq = 0 /\ initialized = FALSE /\ MaxFrames \in Nat
    BY AdapterAssumption DEF AdapterInit, ReceiverInit, Buffered
<1>3. Playing /\ Copied
    <2>1. \A s : s \notin Buffered
        BY <1>2
    <2>2. Buffered \subseteq Frames /\ 0 \in 0 .. MaxFrames
        BY <1>2, <2>1
    <2>3. Copied
        BY <2>1 DEF Copied
    <2> QED
        BY <1>2, <2>1, <2>2, <2>3 DEF Playing
<1>4. \A w \in Workers : ~ Holding(w)
    BY DEF AdapterInit, Holding
<1>5. ingested = <<>> /\ DOMAIN ingested = {} /\ ingested \in Seq({})
    BY DEF AdapterInit
<1>6. PositionsOnce /\ HandedFaithful
    BY <1>2, <1>4, <1>5 DEF PositionsOnce, HandedOnce, HandedFaithful
<1>7. \A w \in Workers : HeldFaithful(w)
    BY DEF AdapterInit, HeldFaithful
<1>8. NobodyLeft
    BY DEF AdapterInit, NobodyLeft
<1> QED
    BY <1>1, <1>3, <1>6, <1>7, <1>8 DEF HandedInv

\* A step that leaves the receiver and the pipeline alone, and after which no
\* goroutine holds what it did not hold before.
LEMMA NothingNew ==
    ASSUME HandedInv, GoroutinesShape',
           UNCHANGED <<buffer, nextSeq, initialized, ingested>>,
           \A w \in Workers : Holding(w)' => /\ pc'[w] = pc[w]
                                             /\ popped'[w] = popped[w]
                                             /\ pcm'[w] = pcm[w]
    PROVE  HandedInv'
<1>1. Playing' /\ Copied'
    BY DEF HandedInv, Playing, Copied, Buffered
<1>2. \A w \in Workers : Holding(w)' => /\ Holding(w)
                                        /\ Position(w)' = Position(w)
    BY DEF Holding, Position
<1>3. PositionsOnce'
    BY <1>2 DEF HandedInv, PositionsOnce, HandedOnce
<1>4. HandedFaithful => HandedFaithful'
    BY DEF HandedFaithful
<1>5. \A w \in Workers : HeldFaithful(w) => HeldFaithful(w)'
    BY DEF HeldFaithful, Holding
<1> QED
    BY <1>1, <1>3, <1>4, <1>5 DEF HandedInv

\* A push fixes where playout starts, if it is the first, and inserts only
\* what is not behind it.
LEMMA PushPacketKeeps ==
    ASSUME HandedInv, NEW w \in Workers, PushPacket(w)
    PROVE  HandedInv'
<1> DEFINE p == Datagram(w)
<1>1. buf[w] \in Frames /\ pc[w] = "push"
    BY DEF HandedInv, GoroutinesShape, PushPacket
<1>2. /\ p.SequenceNumber = buf[w]
      /\ \A i \in DOMAIN p.blocks :
            /\ BlockSeq(p, i) \in Frames
            /\ PayloadType = 112 => p.blocks[i].data = <<"copy", BlockSeq(p, i)>>
      /\ \A i, j \in DOMAIN p.blocks : BlockSeq(p, i) = BlockSeq(p, j) => i = j
    BY <1>1, DatagramIs
<1>3. /\ nextSeq' = Base(p) /\ initialized' = TRUE
      /\ buffer' = [s \in Buffered \cup Inserted(p) |->
                      IF s \in Inserted(p) THEN p.blocks[BlockFor(p, s)].data
                                           ELSE buffer[s]]
      /\ Buffered' = Buffered \cup Inserted(p)
    BY DEF PushPacket, Push, Buffered
<1> HIDE DEF p
<1>4. /\ pc' = [pc EXCEPT ![w] = "pop"] /\ buf' = buf
      /\ popped' = popped /\ pcm' = pcm /\ ingested' = ingested
    BY DEF PushPacket, Goto
<1>5. /\ Base(p) \in 0 .. MaxFrames
      /\ initialized => Base(p) = nextSeq
    BY <1>1, <1>2, AdapterAssumption DEF Base, Frames, HandedInv, Playing
<1>6. \A s \in Inserted(p) : s \in Frames /\ s >= Base(p)
    <2> SUFFICES ASSUME NEW s \in Inserted(p)
                 PROVE  s \in Frames /\ s >= Base(p)
        OBVIOUS
    <2>1. s \in Frames /\ ~ seqBefore(s, Base(p))
        BY <1>2 DEF Inserted
    <2>2. s \in 0 .. MaxFrames
        BY <2>1, AdapterAssumption DEF Frames
    <2> QED
        BY <1>5, <2>1, <2>2, ShortStream
<1>7. Playing'
    <2>1. \A s \in Buffered : s \in Frames /\ s >= Base(p)
        BY <1>5 DEF HandedInv, Playing
    <2>2. \A s \in Buffered' : s \in Frames /\ s >= Base(p)
        BY <1>3, <1>6, <2>1
    <2> QED
        BY <1>3, <1>5, <2>2 DEF Playing
<1>8. Copied'
    <2> SUFFICES ASSUME PayloadType = 112, NEW s \in Buffered'
                 PROVE  buffer'[s] = <<"copy", s>>
        BY DEF Copied
    <2>1. CASE s \in Inserted(p)
        <3>1. PICK i \in DOMAIN p.blocks : BlockSeq(p, i) = s
            BY <2>1 DEF Inserted
        <3>2. \A j \in DOMAIN p.blocks : BlockSeq(p, j) = s <=> j = i
            BY <1>2, <3>1
        <3>3. i <= i
            <4>1. DOMAIN p.blocks = 1 .. Redundancy(buf[w]) + 1
                BY DEF p, Datagram
            <4> QED
                BY <4>1
        <3>4. BlockFor(p, s) = i
            BY <3>1, <3>2, <3>3 DEF BlockFor
        <3> QED
            BY <1>2, <1>3, <2>1, <3>1, <3>4
    <2>2. CASE s \notin Inserted(p)
        BY <1>3, <2>2 DEF HandedInv, Copied
    <2> QED
        BY <2>1, <2>2
<1>9. GoroutinesShape'
    BY <1>4 DEF HandedInv, GoroutinesShape
<1>10. \A v \in Workers : /\ Holding(v)' <=> Holding(v)
                          /\ Position(v)' = Position(v)
                          /\ HeldFaithful(v) => HeldFaithful(v)'
    <2>1. \A v \in Workers : v # w => pc'[v] = pc[v]
        BY <1>4 DEF HandedInv, GoroutinesShape
    <2>2. pc'[w] = "pop"
        BY <1>4 DEF HandedInv, GoroutinesShape
    <2> QED
        BY <1>1, <1>4, <2>1, <2>2 DEF Holding, Position, HeldFaithful
<1>11. PositionsOnce'
    <2>1. CASE initialized
        <3>1. nextSeq' = nextSeq
            BY <1>3, <1>5, <2>1
        <3> QED
            BY <1>3, <1>4, <1>10, <3>1 DEF HandedInv, PositionsOnce, HandedOnce
    <2>2. CASE ~ initialized
        <3>1. ingested' = <<>> /\ DOMAIN ingested' = {}
            BY <1>4, <2>2 DEF HandedInv, PositionsOnce
        <3>2. \A v \in Workers : ~ Holding(v)'
            BY <1>10, <2>2 DEF HandedInv, PositionsOnce
        <3>3. (\E S : ingested \in Seq(S))'
            BY <1>4 DEF HandedInv, PositionsOnce
        <3> QED
            BY <1>3, <3>1, <3>2, <3>3 DEF PositionsOnce, HandedOnce
    <2> QED
        BY <2>1, <2>2 DEF HandedInv, Playing
<1>12. PayloadType = 112 => HandedFaithful' /\ \A v \in Workers : HeldFaithful(v)'
    BY <1>4, <1>10 DEF HandedInv, HandedFaithful
<1> QED
    BY <1>7, <1>8, <1>9, <1>11, <1>12 DEF HandedInv

\* A pop, of a frame or of a mark, gives its goroutine the next position, which
\* nobody had.
LEMMA PopKeeps ==
    ASSUME HandedInv, NEW w \in Workers, PopFrame(w) \/ PopMark(w)
    PROVE  HandedInv'
<1>1. /\ initialized /\ initialized' = initialized
      /\ pc[w] = "pop" /\ pc' = [pc EXCEPT ![w] = "decode"]
      /\ nextSeq' = SeqInc(nextSeq)
      /\ buf' = buf /\ pcm' = pcm /\ ingested' = ingested
    BY DEF PopFrame, PopMark, PopHit, PopSkip, Goto
<1>2. nextSeq \in 0 .. MaxFrames /\ nextSeq < MaxFrames
    <2>1. \E s \in Buffered : s >= nextSeq
        <3>1. Buffered # {}
            BY DEF PopFrame, PopMark, PopHit, PopSkip
        <3> QED
            BY <3>1 DEF HandedInv, Playing
    <2>2. PICK s \in Buffered : s >= nextSeq
        BY <2>1
    <2>3. s \in 0 .. MaxFrames - 1 /\ nextSeq \in 0 .. MaxFrames
        BY <2>2 DEF HandedInv, Playing, Frames
    <2> QED
        BY <2>2, <2>3, AdapterAssumption
<1>3. nextSeq' = nextSeq + 1
    BY <1>1, <1>2, ShortStream
<1>4. /\ Buffered' \subseteq Buffered \ {nextSeq}
      /\ \A s \in Buffered' : buffer'[s] = buffer[s]
    <2>1. CASE PopFrame(w)
        BY <2>1 DEF PopFrame, PopHit, Buffered
    <2>2. CASE PopMark(w)
        BY <2>2 DEF PopMark, PopSkip, Buffered
    <2> QED
        BY <2>1, <2>2
<1>5. /\ popped' = [popped EXCEPT ![w] = popped'[w]]
      /\ popped'[w][1] = nextSeq
      /\ PayloadType = 112 => \/ popped'[w] = <<nextSeq>>
                              \/ popped'[w] = <<nextSeq, <<"copy", nextSeq>>>>
    <2>1. CASE PopFrame(w)
        <3>1. nextSeq \in Buffered /\ popped' = [popped EXCEPT ![w] = <<nextSeq, buffer[nextSeq]>>]
            BY <2>1 DEF PopFrame, PopHit
        <3>2. popped'[w] = <<nextSeq, buffer[nextSeq]>>
            BY <3>1 DEF HandedInv, GoroutinesShape
        <3>3. PayloadType = 112 => buffer[nextSeq] = <<"copy", nextSeq>>
            BY <3>1 DEF HandedInv, Copied
        <3>4. popped' = [popped EXCEPT ![w] = popped'[w]]
            BY <3>1, <3>2
        <3>5. popped'[w][1] = nextSeq
            BY <3>2
        <3> QED
            BY <3>2, <3>3, <3>4, <3>5
    <2>2. CASE PopMark(w)
        <3>1. popped' = [popped EXCEPT ![w] = <<nextSeq>>]
            BY <2>2 DEF PopMark
        <3>2. popped'[w] = <<nextSeq>>
            BY <3>1 DEF HandedInv, GoroutinesShape
        <3>3. popped' = [popped EXCEPT ![w] = popped'[w]]
            BY <3>1, <3>2
        <3>4. popped'[w][1] = nextSeq
            BY <3>2
        <3> QED
            BY <3>2, <3>3, <3>4
    <2> QED
        BY <2>1, <2>2
<1>6. /\ pc'[w] = "decode" /\ \A v \in Workers : v # w => pc'[v] = pc[v]
      /\ \A v \in Workers : v # w => popped'[v] = popped[v]
    BY <1>1, <1>5 DEF HandedInv, GoroutinesShape
<1>7. GoroutinesShape'
    <2>1. popped' = [v \in Workers |-> popped'[v]]
        BY <1>5 DEF HandedInv, GoroutinesShape
    <2> QED
        BY <1>1, <2>1 DEF HandedInv, GoroutinesShape
<1>8. Playing'
    <2>1. \A s \in Buffered' : s \in Frames /\ s >= nextSeq /\ s # nextSeq
        BY <1>4 DEF HandedInv, Playing
    <2>2. \A s \in Buffered' : s >= nextSeq + 1
        BY <1>2, <2>1, AdapterAssumption DEF Frames
    <2>3. Buffered' \subseteq Frames
        BY <2>1
    <2>4. nextSeq' \in 0 .. MaxFrames
        BY <1>2, <1>3, AdapterAssumption
    <2> QED
        BY <1>1, <1>3, <2>2, <2>3, <2>4 DEF Playing
<1>9. Copied'
    BY <1>4 DEF HandedInv, Copied
<1>10. /\ Holding(w)' /\ ~ Holding(w) /\ Position(w)' = nextSeq
       /\ \A v \in Workers : v # w => /\ Holding(v)' <=> Holding(v)
                                      /\ Position(v)' = Position(v)
                                      /\ HeldFaithful(v) => HeldFaithful(v)'
    BY <1>1, <1>5, <1>6 DEF Holding, Position, HeldFaithful
<1>11. PositionsOnce'
    <2>1. \A v \in Workers : v # w /\ Holding(v)' =>
              Holding(v) /\ Position(v)' \in 0 .. nextSeq - 1
        BY <1>10 DEF HandedInv, PositionsOnce
    <2>2. \A v \in Workers : Holding(v)' => Position(v)' \in 0 .. nextSeq' - 1
        BY <1>2, <1>3, <1>10, <2>1
    <2>3. \A i \in DOMAIN ingested' : ingested'[i][1] \in 0 .. nextSeq - 1
        BY <1>1 DEF HandedInv, PositionsOnce
    <2>4. \A i \in DOMAIN ingested' : ingested'[i][1] \in 0 .. nextSeq' - 1
        BY <1>2, <1>3, <2>3
    <2>5. \A v, u \in Workers :
              Holding(v)' /\ Holding(u)' /\ Position(v)' = Position(u)' => v = u
        <3> SUFFICES ASSUME NEW v \in Workers, NEW u \in Workers,
                            Holding(v)', Holding(u)', Position(v)' = Position(u)'
                     PROVE  v = u
            OBVIOUS
        <3>1. v # w /\ u # w => v = u
            BY <1>10 DEF HandedInv, PositionsOnce
        <3>2. v = w <=> u = w
            BY <1>2, <1>10, <2>1
        <3> QED
            BY <3>1, <3>2
    <2>6. \A v \in Workers : \A i \in DOMAIN ingested' :
              Holding(v)' => Position(v)' # ingested'[i][1]
        <3>1. \A i \in DOMAIN ingested' : Position(w)' # ingested'[i][1]
            BY <1>2, <1>10, <2>3
        <3>2. \A v \in Workers : \A i \in DOMAIN ingested' :
                  v # w /\ Holding(v)' => Position(v)' # ingested'[i][1]
            BY <1>1, <1>10 DEF HandedInv, PositionsOnce
        <3> QED
            BY <3>1, <3>2
    <2>7. HandedOnce' /\ (\E S : ingested \in Seq(S))'
        BY <1>1 DEF HandedInv, PositionsOnce, HandedOnce
    <2> QED
        BY <1>1, <2>2, <2>4, <2>5, <2>6, <2>7 DEF PositionsOnce
<1>12. ASSUME PayloadType = 112
       PROVE  HandedFaithful' /\ \A v \in Workers : HeldFaithful(v)'
    <2>1. HandedFaithful'
        BY <1>1, <1>12 DEF HandedInv, HandedFaithful
    <2>2. HeldFaithful(w)'
        BY <1>5, <1>6, <1>12 DEF HeldFaithful
    <2> QED
        BY <1>10, <1>12, <2>1, <2>2 DEF HandedInv
<1> QED
    BY <1>7, <1>8, <1>9, <1>11, <1>12 DEF HandedInv

\* Decoding keeps the position; what it yields is the frame, or nothing.
LEMMA DecodeKeeps ==
    ASSUME HandedInv, NEW w \in Workers, Decode(w)
    PROVE  HandedInv'
<1> DEFINE heard == IF Len(popped[w]) = 1 THEN NoFrame ELSE Content(popped[w][2])
<1>1. /\ pc[w] = "decode" /\ pc' = [pc EXCEPT ![w] = "hand"]
      /\ pcm' = [pcm EXCEPT ![w] = <<popped[w][1], heard>>]
      /\ popped' = [popped EXCEPT ![w] = <<>>]
      /\ UNCHANGED <<buffer, nextSeq, initialized, buf, ingested>>
    BY DEF Decode, Goto, receiverVars
<1>2. ASSUME PayloadType = 112, HeldFaithful(w)
      PROVE  heard \in {popped[w][1], NoFrame}
    <2>1. CASE popped[w] = <<popped[w][1]>>
        <3>1. Len(popped[w]) = 1
            BY <2>1
        <3> QED
            BY <3>1
    <2>2. CASE popped[w] = <<popped[w][1], <<"copy", popped[w][1]>>>>
        <3>1. Len(popped[w]) = 2 /\ popped[w][2] = <<"copy", popped[w][1]>>
            BY <2>2
        <3>2. Content(popped[w][2]) = popped[w][1]
            BY <3>1 DEF Content
        <3> QED
            BY <3>1, <3>2
    <2> QED
        BY <1>1, <1>2, <2>1, <2>2 DEF HeldFaithful
<1> HIDE DEF heard
<1>3. /\ pc'[w] = "hand" /\ pcm'[w] = <<popped[w][1], heard>>
      /\ \A v \in Workers : v # w => /\ pc'[v] = pc[v]
                                     /\ popped'[v] = popped[v]
                                     /\ pcm'[v] = pcm[v]
    BY <1>1 DEF HandedInv, GoroutinesShape
<1>4. GoroutinesShape'
    BY <1>1 DEF HandedInv, GoroutinesShape
<1>5. Playing' /\ Copied'
    BY <1>1 DEF HandedInv, Playing, Copied, Buffered
<1>6. pcm'[w][1] = popped[w][1] /\ pcm'[w][2] = heard
    BY <1>3
<1>7. Holding(w)' /\ Holding(w) /\ Position(w)' = Position(w)
    BY <1>1, <1>3, <1>6 DEF Holding, Position
<1>8. \A v \in Workers : /\ Holding(v)' <=> Holding(v)
                         /\ Position(v)' = Position(v)
    BY <1>3, <1>7 DEF Holding, Position
<1>9. PositionsOnce'
    BY <1>1, <1>8 DEF HandedInv, PositionsOnce, HandedOnce
<1>10. ASSUME PayloadType = 112
       PROVE  HandedFaithful' /\ \A v \in Workers : HeldFaithful(v)'
    <2>1. HandedFaithful'
        BY <1>1, <1>10 DEF HandedInv, HandedFaithful
    <2>2. HeldFaithful(w)'
        BY <1>2, <1>3, <1>6, <1>10 DEF HandedInv, HeldFaithful
    <2>3. \A v \in Workers : v # w => HeldFaithful(v)'
        BY <1>3, <1>10 DEF HandedInv, HeldFaithful
    <2> QED
        BY <2>1, <2>2, <2>3
<1> QED
    BY <1>4, <1>5, <1>9, <1>10 DEF HandedInv

\* Handing on moves the position from its goroutine to the pipeline.
LEMMA HandKeeps ==
    ASSUME HandedInv, NEW w \in Workers, Hand(w)
    PROVE  HandedInv'
<1> DEFINE n == Len(ingested) + 1
<1>1. /\ pc[w] = "hand" /\ pc' = [pc EXCEPT ![w] = "write"]
      /\ ingested' = Append(ingested, pcm[w])
      /\ UNCHANGED <<buffer, nextSeq, initialized, buf, popped, pcm>>
    BY DEF Hand, Goto, receiverVars
<1>2. \E S : ingested \in Seq(S)
    BY DEF HandedInv, PositionsOnce
<1>3. /\ \E S : ingested' \in Seq(S)
      /\ DOMAIN ingested' = DOMAIN ingested \cup {n}
      /\ n \notin DOMAIN ingested
      /\ \A i \in DOMAIN ingested : ingested'[i] = ingested[i]
      /\ ingested'[n] = pcm[w]
    <2> DEFINE x == pcm[w]
    <2>1. ingested' = Append(ingested, x)
        BY <1>1
    <2> HIDE DEF x
    <2>2. /\ \E S : Append(ingested, x) \in Seq(S)
          /\ DOMAIN Append(ingested, x) = DOMAIN ingested \cup {n}
          /\ n \notin DOMAIN ingested
          /\ \A i \in DOMAIN ingested : Append(ingested, x)[i] = ingested[i]
          /\ Append(ingested, x)[n] = x
        BY <1>2, AppendIs
    <2>3. \E S : ingested' \in Seq(S)
        BY <2>1, <2>2, Zenon
    <2> QED
        BY <2>1, <2>2, <2>3 DEF x
<1> HIDE DEF n
<1>4. /\ pc'[w] = "write" /\ \A v \in Workers : v # w => pc'[v] = pc[v]
    BY <1>1 DEF HandedInv, GoroutinesShape
<1>5. Holding(w) /\ Position(w) = pcm[w][1] /\ ~ Holding(w)'
    BY <1>1, <1>4 DEF Holding, Position
<1>6. \A v \in Workers : Holding(v)' => /\ Holding(v) /\ v # w
                                        /\ Position(v)' = Position(v)
    BY <1>1, <1>4, <1>5 DEF Holding, Position
<1>7. GoroutinesShape'
    BY <1>1 DEF HandedInv, GoroutinesShape
<1>8. Playing' /\ Copied'
    BY <1>1 DEF HandedInv, Playing, Copied, Buffered
<1>9. initialized
    BY <1>5 DEF HandedInv, PositionsOnce
<1>10. PositionsOnce'
    <2>1. \A v \in Workers : Holding(v)' => Position(v)' \in 0 .. nextSeq' - 1
        BY <1>1, <1>6 DEF HandedInv, PositionsOnce
    <2>2. \A i \in DOMAIN ingested' : ingested'[i][1] \in 0 .. nextSeq' - 1
        BY <1>1, <1>3, <1>5 DEF HandedInv, PositionsOnce
    <2>3. \A v, u \in Workers :
              Holding(v)' /\ Holding(u)' /\ Position(v)' = Position(u)' => v = u
        BY <1>6 DEF HandedInv, PositionsOnce
    <2>4. \A v \in Workers : \A i \in DOMAIN ingested' :
              Holding(v)' => Position(v)' # ingested'[i][1]
        BY <1>3, <1>5, <1>6 DEF HandedInv, PositionsOnce
    <2>5. HandedOnce'
        <3>1. \A i \in DOMAIN ingested : ingested[i][1] # Position(w)
            BY <1>5 DEF HandedInv, PositionsOnce
        <3>2. \A i, j \in DOMAIN ingested : ingested[i][1] = ingested[j][1] => i = j
            BY DEF HandedInv, PositionsOnce, HandedOnce
        <3> QED
            BY <1>3, <1>5, <3>1, <3>2 DEF HandedOnce
    <2> QED
        BY <1>1, <1>3, <1>9, <2>1, <2>2, <2>3, <2>4, <2>5 DEF PositionsOnce
<1>11. ASSUME PayloadType = 112
       PROVE  HandedFaithful' /\ \A v \in Workers : HeldFaithful(v)'
    <2>1. pcm[w][2] \in {pcm[w][1], NoFrame}
        BY <1>1, <1>11 DEF HandedInv, HeldFaithful
    <2>2. HandedFaithful'
        BY <1>3, <1>11, <2>1 DEF HandedInv, HandedFaithful
    <2>3. HeldFaithful(w)'
        BY <1>4 DEF HeldFaithful
    <2>4. \A v \in Workers : v # w => HeldFaithful(v)'
        BY <1>1, <1>4, <1>11 DEF HandedInv, HeldFaithful
    <2> QED
        BY <2>2, <2>3, <2>4
<1> QED
    BY <1>7, <1>8, <1>10, <1>11 DEF HandedInv

\* The other steps give nobody a position.
LEMMA QuietKeeps ==
    ASSUME HandedInv,
           \/ \E w \in Workers :
                \/ ReadFails(w) \/ Check(w) \/ PopNothing(w)
                \/ DecodeFails(w) \/ WriteWav(w)
                \/ \E f \in Frames : Read(w, f)
           \/ Stop
    PROVE  HandedInv'
<1>1. ASSUME NEW w \in Workers, NEW f \in Frames, Read(w, f)
      PROVE  HandedInv'
    <2>1. GoroutinesShape'
        BY <1>1 DEF HandedInv, GoroutinesShape, Read, Goto
    <2> QED
        BY <1>1, <2>1, NothingNew
        DEF HandedInv, GoroutinesShape, Read, Goto, Holding, receiverVars
<1>2. ASSUME NEW w \in Workers, ReadFails(w) \/ Check(w) \/ PopNothing(w)
      PROVE  HandedInv'
    <2>1. GoroutinesShape' /\ pc'[w] \in {"exited", "push", "read"}
          /\ UNCHANGED <<buffer, nextSeq, initialized, ingested, popped, pcm>>
          /\ \A v \in Workers : v # w => pc'[v] = pc[v]
        <3>1. CASE ReadFails(w)
            BY <3>1 DEF HandedInv, GoroutinesShape, ReadFails, Goto, receiverVars
        <3>2. CASE Check(w)
            BY <3>2 DEF HandedInv, GoroutinesShape, Check, Goto, receiverVars
        <3>3. CASE PopNothing(w)
            BY <3>3 DEF HandedInv, GoroutinesShape, PopNothing, PopNone, Goto,
                        receiverVars
        <3> QED
            BY <1>2, <3>1, <3>2, <3>3
    <2>2. ~ Holding(w)'
        BY <2>1 DEF Holding
    <2>3. \A v \in Workers : Holding(v)' => /\ pc'[v] = pc[v]
                                            /\ popped'[v] = popped[v]
                                            /\ pcm'[v] = pcm[v]
        BY <2>1, <2>2
    <2> QED
        BY <2>1, <2>3, NothingNew
<1>3. ASSUME NEW w \in Workers, DecodeFails(w) \/ WriteWav(w)
      PROVE  HandedInv'
    <2>1. GoroutinesShape' /\ pc'[w] = "pop"
          /\ UNCHANGED <<buffer, nextSeq, initialized, ingested>>
          /\ \A v \in Workers : v # w => /\ pc'[v] = pc[v]
                                         /\ popped'[v] = popped[v]
                                         /\ pcm'[v] = pcm[v]
        <3>1. CASE DecodeFails(w)
            BY <3>1 DEF HandedInv, GoroutinesShape, DecodeFails, Goto, receiverVars
        <3>2. CASE WriteWav(w)
            BY <3>2 DEF HandedInv, GoroutinesShape, WriteWav, Goto, receiverVars
        <3> QED
            BY <1>3, <3>1, <3>2
    <2>2. ~ Holding(w)'
        BY <2>1 DEF Holding
    <2>3. \A v \in Workers : Holding(v)' => /\ pc'[v] = pc[v]
                                            /\ popped'[v] = popped[v]
                                            /\ pcm'[v] = pcm[v]
        BY <2>1, <2>2
    <2> QED
        BY <2>1, <2>3, NothingNew
<1>4. CASE Stop
    <2>1. UNCHANGED <<buffer, nextSeq, initialized, pc, buf, popped, pcm, ingested>>
        BY <1>4 DEF Stop, StopCancel, StopClose, StopWait, receiverVars
    <2>2. GoroutinesShape'
        BY <2>1 DEF HandedInv, GoroutinesShape
    <2> QED
        BY <2>1, <2>2, NothingNew
<1> QED
    BY <1>1, <1>2, <1>3, <1>4

\* Every step keeps HandedInv.
LEMMA StepKeepsHanded == HandedInv /\ [AdapterNext]_vars => HandedInv'
<1> SUFFICES ASSUME HandedInv, [AdapterNext]_vars
             PROVE  HandedInv'
    OBVIOUS
<1>1. ASSUME NEW w \in Workers, Work(w)
      PROVE  HandedInv'
    BY <1>1, PushPacketKeeps, PopKeeps, DecodeKeeps, HandKeeps, QuietKeeps DEF Work
<1>2. ASSUME NEW w \in Workers, NEW f \in Frames, Read(w, f)
      PROVE  HandedInv'
    BY <1>2, QuietKeeps
<1>3. CASE Stop
    BY <1>3, QuietKeeps
<1>4. CASE UNCHANGED vars
    <2>1. UNCHANGED <<buffer, nextSeq, initialized, pc, buf, popped, pcm, ingested>>
        BY <1>4 DEF vars, receiverVars, adapterVars
    <2>2. GoroutinesShape'
        BY <2>1 DEF HandedInv, GoroutinesShape
    <2> QED
        BY <2>1, <2>2, NothingNew
<1> QED
    BY <1>1, <1>2, <1>3, <1>4 DEF AdapterNext

(***************************************************************************)
(* No position is handed to the pipeline twice, by however many goroutines *)
(* and in whatever order they take r.mu, the decoder's and the pipeline's  *)
(* locks.                                                                  *)
(***************************************************************************)
THEOREM HandedOnceAlways == AdapterSpec => []HandedOnce
<1>1. AdapterInit => HandedInv
    BY AdapterStarts
<1>2. HandedInv => HandedOnce
    BY DEF HandedInv, PositionsOnce
<1> QED
    BY <1>1, <1>2, StepKeepsHanded, PTL DEF AdapterSpec

(***************************************************************************)
(* Of a RED stream every position is handed on as the frame the sender put *)
(* there, or as the concealment of a lost one, although the read buffers   *)
(* are overwritten while frames wait: UnpackRED copies.                    *)
(***************************************************************************)
THEOREM CopiedIsFaithful ==
    ASSUME PayloadType = 112 PROVE AdapterSpec => []HandedFaithful
<1>1. AdapterInit => HandedInv
    BY AdapterStarts
<1>2. HandedInv => HandedFaithful
    BY DEF HandedInv
<1> QED
    BY <1>1, <1>2, StepKeepsHanded, PTL DEF AdapterSpec

(***************************************************************************)
(* Stop waits for the goroutines before it closes the recording, so none   *)
(* is left to create the file anew.                                        *)
(***************************************************************************)
THEOREM StoppedForGood == AdapterSpec => []StoppedStaysClosed
<1>1. AdapterInit => NobodyLeft
    BY DEF AdapterInit, NobodyLeft
<1>2. NobodyLeft /\ [AdapterNext]_vars => NobodyLeft'
    <2> SUFFICES ASSUME NobodyLeft, [AdapterNext]_vars
                 PROVE  NobodyLeft'
        OBVIOUS
    <2>1. ASSUME NEW w \in Workers, Work(w)
          PROVE  pc[w] # "exited" /\ stopping' = stopping
        BY <2>1 DEF Work, ReadFails, Check, PushPacket, PopFrame, PopMark,
                    PopNothing, Decode, DecodeFails, Hand, WriteWav
    <2>2. ASSUME NEW w \in Workers, NEW f \in Frames, Read(w, f)
          PROVE  pc[w] # "exited" /\ stopping' = stopping
        BY <2>2 DEF Read
    <2>3. CASE Stop
        BY <2>3 DEF NobodyLeft, Stop, StopCancel, StopClose, StopWait
    <2>4. CASE UNCHANGED vars
        BY <2>4 DEF NobodyLeft, vars, adapterVars
    <2> QED
        BY <2>1, <2>2, <2>3, <2>4 DEF NobodyLeft, AdapterNext
<1>3. NobodyLeft => StoppedStaysClosed
    BY DEF NobodyLeft, StoppedStaysClosed
<1> QED
    BY <1>1, <1>2, <1>3, PTL DEF AdapterSpec
-----------------------------------------------------------------------------
\* Who is in its pop loop after a step: whoever was, but for one that found
\* nothing to pop, and one that has pushed.
LEMMA PoppingAfter ==
    ASSUME GoroutinesShape, [AdapterNext]_vars
    PROVE  \/ /\ buffer' = buffer /\ nextSeq' = nextSeq /\ Popping' = Popping
           \/ \E w \in Workers :
                /\ PushPacket(w) /\ w \notin Popping
                /\ Popping' = Popping \cup {w}
           \/ \E w \in Workers : w \in Popping /\ Popping' = Popping
                                    /\ (PopFrame(w) \/ PopMark(w))
           \/ \E w \in Workers :
                /\ PopNothing(w) /\ w \in Popping
                /\ Popping' = Popping \ {w}
<1> USE DEF GoroutinesShape, Popping
<1>1. ASSUME NEW w \in Workers, Work(w)
      PROVE  \/ /\ buffer' = buffer /\ nextSeq' = nextSeq /\ Popping' = Popping
             \/ /\ PushPacket(w) /\ w \notin Popping
                /\ Popping' = Popping \cup {w}
             \/ w \in Popping /\ Popping' = Popping /\ (PopFrame(w) \/ PopMark(w))
             \/ /\ PopNothing(w) /\ w \in Popping
                /\ Popping' = Popping \ {w}
    <2>1. CASE ReadFails(w)
        BY <2>1 DEF ReadFails, Goto, receiverVars
    <2>2. CASE Check(w)
        BY <2>2 DEF Check, Goto, receiverVars
    <2>3. CASE PushPacket(w)
        BY <2>3 DEF PushPacket, Goto
    <2>4. CASE PopFrame(w) \/ PopMark(w)
        BY <2>4 DEF PopFrame, PopMark, Goto
    <2>5. CASE PopNothing(w)
        BY <2>5 DEF PopNothing, Goto
    <2>6. CASE Decode(w)
        BY <2>6 DEF Decode, Goto, receiverVars
    <2>7. CASE DecodeFails(w)
        BY <2>7 DEF DecodeFails, Goto, receiverVars
    <2>8. CASE Hand(w)
        BY <2>8 DEF Hand, Goto, receiverVars
    <2>9. CASE WriteWav(w)
        BY <2>9 DEF WriteWav, Goto, receiverVars
    <2> QED
        BY <1>1, <2>1, <2>2, <2>3, <2>4, <2>5, <2>6, <2>7, <2>8, <2>9 DEF Work
<1>2. ASSUME NEW w \in Workers, NEW f \in Frames, Read(w, f)
      PROVE  buffer' = buffer /\ nextSeq' = nextSeq /\ Popping' = Popping
    BY <1>2 DEF Read, Goto, receiverVars
<1>3. CASE Stop
    BY <1>3 DEF Stop, StopCancel, StopClose, StopWait, receiverVars
<1>4. CASE UNCHANGED vars
    BY <1>4 DEF vars, receiverVars, adapterVars
<1> HIDE DEF GoroutinesShape, Popping
<1> QED
    BY <1>1, <1>2, <1>3, <1>4 DEF AdapterNext

(***************************************************************************)
(* No frame is forgotten in the buffer: the last goroutine to leave its    *)
(* pop loop found nothing to pop.                                          *)
(***************************************************************************)
THEOREM NothingForgotten == AdapterSpec => []RestMeansWaiting
<1>1. AdapterInit => HandedInv /\ RestMeansWaiting
    <2> SUFFICES ASSUME AdapterInit PROVE RestMeansWaiting
        BY AdapterStarts
    <2>1. Buffered = {} /\ Cardinality({}) = 0
        BY FS_EmptySet DEF AdapterInit, ReceiverInit, Buffered
    <2> QED
        BY <2>1, ReceiverAssumption DEF RestMeansWaiting
<1>2. HandedInv /\ RestMeansWaiting /\ [AdapterNext]_vars
        => HandedInv' /\ RestMeansWaiting'
    <2> SUFFICES ASSUME HandedInv, RestMeansWaiting, [AdapterNext]_vars
                 PROVE  RestMeansWaiting'
        BY StepKeepsHanded
    <2>1. CASE /\ buffer' = buffer /\ nextSeq' = nextSeq /\ Popping' = Popping
        BY <2>1 DEF RestMeansWaiting, Buffered
    <2>2. ASSUME NEW w \in Workers, PushPacket(w), Popping' = Popping \cup {w}
          PROVE  RestMeansWaiting'
        BY <2>2 DEF RestMeansWaiting
    <2>3. ASSUME NEW w \in Popping, Popping' = Popping
          PROVE  RestMeansWaiting'
        BY <2>3 DEF RestMeansWaiting
    <2>4. ASSUME NEW w \in Workers, PopNothing(w)
          PROVE  RestMeansWaiting'
        <3>1. /\ Buffered' = Buffered /\ nextSeq' = nextSeq
              /\ \/ Buffered = {}
                 \/ nextSeq \notin Buffered /\ ~ MustSkip(FALSE)
            BY <2>4 DEF PopNothing, PopNone, receiverVars, Buffered, HandedInv, Playing
        <3>2. CASE Buffered = {}
            BY <3>1, <3>2, FS_EmptySet, ReceiverAssumption DEF RestMeansWaiting
        <3>3. CASE nextSeq \notin Buffered /\ ~ MustSkip(FALSE)
            <4>1. Cardinality(Buffered) \in Nat
                BY FramesFinite DEF HandedInv, Playing
            <4> QED
                BY <3>1, <3>3, <4>1, ReceiverAssumption DEF RestMeansWaiting, MustSkip
        <3> QED
            BY <3>1, <3>2, <3>3
    <2> QED
        BY <2>1, <2>2, <2>3, <2>4, PoppingAfter DEF HandedInv
<1> QED
    BY <1>1, <1>2, PTL DEF AdapterSpec
\* A datagram inserts at most its own frame and MaxDepth before it.
LEMMA InsertsFew ==
    ASSUME NEW w \in Workers, buf[w] \in Frames
    PROVE  /\ IsFiniteSet(Inserted(Datagram(w)))
           /\ Cardinality(Inserted(Datagram(w))) \in 0 .. MaxDepth + 1
<1> DEFINE I == Inserted(Datagram(w))
           R == buf[w] - MaxDepth .. buf[w]
<1>1. I \subseteq R
    BY DatagramIs DEF Inserted
<1>2. buf[w] \in Int /\ buf[w] - MaxDepth \in Int /\ MaxDepth \in Nat
    BY AdapterAssumption, FormatAssumption DEF Frames
<1>3. IsFiniteSet(R) /\ Cardinality(R) = MaxDepth + 1
    <2> DEFINE b == buf[w]
               a == b - MaxDepth
    <2>1. a \in Int /\ b \in Int /\ MaxDepth \in Nat /\ a = b - MaxDepth
        BY <1>2
    <2> HIDE DEF a, b
    <2>2. IsFiniteSet(a .. b) /\ Cardinality(a .. b) = IF a > b THEN 0 ELSE b - a + 1
        BY <2>1, FS_Interval
    <2>3. IsFiniteSet(a .. b) /\ Cardinality(a .. b) = MaxDepth + 1
        <3> DEFINE c == Cardinality(a .. b)
        <3>1. c = IF a > b THEN 0 ELSE b - a + 1
            BY <2>2
        <3> HIDE DEF c
        <3>2. c = MaxDepth + 1
            BY <2>1, <3>1
        <3> QED
            BY <2>2, <3>2 DEF c
    <2> QED
        BY <2>3 DEF a, b
<1>4. IsFiniteSet(I) /\ Cardinality(I) <= Cardinality(R)
    BY <1>1, <1>3, FS_Subset
<1>5. Cardinality(I) \in Nat
    BY <1>4, FS_CardinalityType
<1> QED
    BY <1>2, <1>3, <1>4, <1>5

(***************************************************************************)
(* The buffer is bounded, although Push never looks at its size: whoever   *)
(* pushed is in its pop loop, and leaves it only once the buffer is below  *)
(* MaxBufferSize.                                                          *)
(***************************************************************************)
THEOREM BufferStaysBounded == AdapterSpec => []BufferBounded
<1> DEFINE C == Cardinality(Buffered)
           P == Cardinality(Popping)
           K == MaxDepth + 1
           Bounded == C < MaxBufferSize + K * P
<1>0. K \in Nat /\ MaxBufferSize \in Nat /\ MaxBufferSize > 0
    BY FormatAssumption, ReceiverAssumption
<1>1. ASSUME HandedInv
      PROVE  IsFiniteSet(Buffered) /\ C \in Nat /\ IsFiniteSet(Popping) /\ P \in Nat
    <2>1. IsFiniteSet(Popping)
        BY FS_Subset, AdapterAssumption DEF Popping
    <2> QED
        BY <1>1, <2>1, FramesFinite, FS_CardinalityType DEF HandedInv, Playing
<1>2. ASSUME AdapterInit PROVE BufferBounded
    <2>1. Buffered = {} /\ C = 0
        BY <1>2, FS_EmptySet DEF AdapterInit, ReceiverInit, Buffered
    <2>2. P \in Nat
        BY <1>1, <1>2, AdapterStarts
    <2> HIDE DEF C, P, K
    <2>3. K * P \in Nat
        BY <1>0, <2>2
    <2> QED
        BY <1>0, <2>1, <2>3 DEF BufferBounded, C, P, K
<1>3. ASSUME HandedInv, BufferBounded, [AdapterNext]_vars
      PROVE  BufferBounded'
    <2>1. HandedInv'
        BY <1>3, StepKeepsHanded
    <2>2. /\ IsFiniteSet(Buffered) /\ C \in Nat /\ IsFiniteSet(Popping) /\ P \in Nat
          /\ C < MaxBufferSize + K * P
        BY <1>1, <1>3 DEF BufferBounded
    <2>3. CASE buffer' = buffer /\ Popping' = Popping
        BY <1>3, <2>3 DEF BufferBounded, Buffered
    <2>4. ASSUME NEW w \in Workers, PushPacket(w), w \notin Popping,
                 Popping' = Popping \cup {w}
          PROVE  BufferBounded'
        <3> DEFINE I == Inserted(Datagram(w))
                   U == Buffered \cup I
                   Q == Popping \cup {w}
                   n == Cardinality(I)
                   m == Cardinality(U)
        <3>1. Buffered' = U
            BY <2>4 DEF PushPacket, Push, Buffered
        <3>2. IsFiniteSet(I) /\ n \in 0 .. K
            BY <1>3, <2>4, InsertsFew DEF HandedInv, GoroutinesShape, PushPacket
        <3>3. m <= C + n /\ m \in Nat
            <4>1. IsFiniteSet(Buffered \cup I)
                    /\ Cardinality(Buffered \cup I) = Cardinality(Buffered)
                        + Cardinality(I) - Cardinality(Buffered \cap I)
                BY <2>2, <3>2, FS_Union
            <4>2. Cardinality(Buffered \cap I) \in Nat
                BY <2>2, FS_Subset, FS_CardinalityType
            <4>3. m \in Nat
                BY <4>1, FS_CardinalityType
            <4> DEFINE x == Cardinality(Buffered \cap I)
            <4>4. m = C + n - x /\ x \in Nat
                BY <4>1, <4>2
            <4> HIDE DEF m, n, x, C, I, U
            <4> QED
                BY <2>2, <3>2, <4>3, <4>4
        <3>4. Cardinality(Q) = P + 1
            BY <2>2, <2>4, FS_AddElement
        <3>5. K * (P + 1) = K * P + K
            <4> HIDE DEF K, P
            <4> QED
                BY <1>0, <2>2
        <3>6. (K * P) \in Nat
            <4> HIDE DEF K, P
            <4> QED
                BY <1>0, <2>2
        <3>7. m < MaxBufferSize + K * (P + 1)
            <4> HIDE DEF m, n, C, K, P, I, U
            <4> QED
                BY <1>0, <2>2, <3>2, <3>3, <3>5, <3>6
        <3>8. Cardinality(Buffered)' = m /\ Cardinality(Popping)' = P + 1
            BY <2>4, <3>1, <3>4
        <3> QED
            BY <3>7, <3>8 DEF BufferBounded
    <2>5. ASSUME NEW w \in Workers, PopFrame(w) \/ PopMark(w), Popping' = Popping
          PROVE  BufferBounded'
        <3> DEFINE B == Buffered'
        <3>1. B \subseteq Buffered
            BY <2>5 DEF PopFrame, PopMark, PopHit, PopSkip, Buffered
        <3>2. Cardinality(B) <= C /\ Cardinality(B) \in Nat
            BY <2>2, <3>1, FS_Subset, FS_CardinalityType
        <3>3. (K * P) \in Nat
            <4> HIDE DEF K, P
            <4> QED
                BY <1>0, <2>2
        <3>4. Cardinality(B) < MaxBufferSize + K * P
            <4> HIDE DEF C, K, P, B
            <4> QED
                BY <1>0, <2>2, <3>2, <3>3
        <3>5. Cardinality(Popping)' = P
            BY <2>5
        <3> QED
            BY <3>4, <3>5 DEF BufferBounded
    <2>6. ASSUME NEW w \in Workers, PopNothing(w)
          PROVE  BufferBounded'
        <3>1. Buffered' = Buffered
            BY <2>6 DEF PopNothing, PopNone, receiverVars, Buffered
        <3>2. C < MaxBufferSize
            <4>1. Buffered = {} \/ ~ MustSkip(FALSE)
                BY <1>3, <2>6 DEF PopNothing, PopNone, HandedInv, Playing
            <4> QED
                BY <1>0, <2>2, <4>1, FS_EmptySet DEF MustSkip
        <3> DEFINE Pn == Cardinality(Popping')
                   Cn == Cardinality(Buffered')
        <3>3. Pn \in Nat /\ Cn = C
            BY <1>1, <2>1, <3>1, FS_Subset, FS_CardinalityType, AdapterAssumption DEF Popping
        <3>4. Cn < MaxBufferSize + K * Pn
            <4> HIDE DEF C, K, Pn, Cn
            <4>1. K * Pn \in Nat
                BY <1>0, <3>3
            <4> QED
                BY <1>0, <2>2, <3>2, <3>3, <4>1
        <3> QED
            BY <3>4 DEF BufferBounded
    <2> QED
        BY <1>3, <2>3, <2>4, <2>5, <2>6, PoppingAfter DEF HandedInv
<1>4. HandedInv /\ BufferBounded /\ [AdapterNext]_vars
        => HandedInv' /\ BufferBounded'
    BY <1>3, StepKeepsHanded
<1>5. AdapterInit => HandedInv /\ BufferBounded
    BY <1>2, AdapterStarts
<1> QED
    BY <1>4, <1>5, PTL DEF AdapterSpec
-----------------------------------------------------------------------------
\* The rest of the type invariant: what HandedInv does not say.
RestTyped ==
    /\ ReceiverInv
    /\ unread \subseteq Frames
    /\ stopping \in {"no", "cancelled", "closed", "done"}
    /\ recording \in BOOLEAN

(***************************************************************************)
(* The state keeps its shape; the receiver's does too, as every datagram   *)
(* of the stream can be decoded.                                           *)
(***************************************************************************)
THEOREM AdapterTyped == AdapterSpec => []AdapterTypeOK
<1>1. AdapterInit => HandedInv /\ RestTyped
    BY AdapterStarts, InitHasInv DEF AdapterInit, RestTyped
<1>2. ASSUME HandedInv, RestTyped, [AdapterNext]_vars
      PROVE  RestTyped'
    <2>1. ASSUME UNCHANGED receiverVars
          PROVE  ReceiverInv'
        BY <1>2, <2>1 DEF RestTyped, ReceiverInv, ReceiverTypeOK, NoStrandedPacket,
                          IdleIsEmpty, Buffered, receiverVars
    <2>2. ASSUME NEW w \in Workers, PushPacket(w)
          PROVE  RestTyped'
        <3>1. Decodable(Datagram(w)) /\ Push(Datagram(w)) /\ ReceiverInv
            BY <1>2, <2>2, DatagramIs
            DEF HandedInv, GoroutinesShape, PushPacket, RestTyped
        <3>2. ReceiverInv'
            BY <3>1, PushKeepsInv
        <3> QED
            BY <1>2, <2>2, <3>2 DEF PushPacket, RestTyped
    <2>3. ASSUME NEW w \in Workers, PopFrame(w) \/ PopMark(w)
          PROVE  RestTyped'
        <3>1. PopHit \/ PopSkip(FALSE)
            BY <2>3 DEF PopFrame, PopMark
        <3>2. ReceiverInv'
            BY <1>2, <3>1, PopKeepsInv DEF RestTyped
        <3> QED
            BY <1>2, <2>3, <3>2 DEF PopFrame, PopMark, RestTyped
    <2>4. ASSUME NEW w \in Workers, PopNothing(w)
          PROVE  RestTyped'
        BY <1>2, <2>1, <2>4 DEF PopNothing, PopNone, RestTyped
    <2>5. ASSUME NEW w \in Workers,
                 \/ ReadFails(w) \/ Check(w) \/ Decode(w) \/ DecodeFails(w)
                 \/ Hand(w) \/ WriteWav(w)
          PROVE  RestTyped'
        <3>1. UNCHANGED receiverVars
            BY <2>5 DEF ReadFails, Check, Decode, DecodeFails, Hand, WriteWav
        <3>2. unread' = unread /\ stopping' = stopping
            BY <2>5 DEF ReadFails, Check, Decode, DecodeFails, Hand, WriteWav
        <3>3. recording' = recording \/ recording' \in BOOLEAN
            BY <2>5 DEF ReadFails, Check, Decode, DecodeFails, Hand, WriteWav
        <3> QED
            BY <1>2, <2>1, <3>1, <3>2, <3>3 DEF RestTyped
    <2>6. ASSUME NEW w \in Workers, NEW f \in Frames, Read(w, f)
          PROVE  RestTyped'
        BY <1>2, <2>1, <2>6 DEF Read, RestTyped
    <2>7. CASE Stop
        <3>1. UNCHANGED <<receiverVars, unread>>
            BY <2>7 DEF Stop, StopCancel, StopClose, StopWait
        <3>2. /\ stopping' \in {"cancelled", "closed", "done"}
              /\ recording' = recording \/ recording' = FALSE
            BY <2>7 DEF Stop, StopCancel, StopClose, StopWait
        <3> QED
            BY <1>2, <2>1, <3>1, <3>2 DEF RestTyped
    <2>8. CASE UNCHANGED vars
        BY <1>2, <2>1, <2>8 DEF vars, adapterVars, RestTyped
    <2> QED
        BY <1>2, <2>2, <2>3, <2>4, <2>5, <2>6, <2>7, <2>8 DEF AdapterNext, Work
<1>3. ASSUME HandedInv, RestTyped PROVE AdapterTypeOK
    <2>1. \A i \in DOMAIN ingested : ingested[i][1] \in Frames
        BY <1>3, AdapterAssumption DEF HandedInv, PositionsOnce, Playing, Frames
    <2> QED
        BY <1>3, <2>1 DEF HandedInv, GoroutinesShape, RestTyped, ReceiverInv,
                          AdapterTypeOK
<1>4. HandedInv /\ RestTyped /\ [AdapterNext]_vars => HandedInv' /\ RestTyped'
    BY <1>2, StepKeepsHanded
<1>5. HandedInv /\ RestTyped => AdapterTypeOK
    BY <1>3
<1> QED
    BY <1>1, <1>4, <1>5, PTL DEF AdapterSpec
=============================================================================
