---------------------------- MODULE RtcpLoop_proofs ---------------------------
(***************************************************************************)
(* Whatever the width of the sequence numbers and however long the stream, *)
(* the loss the engine counts is never less than what was lost, and is     *)
(* exactly this as long as nothing overtook.  The numbers wrap, so that    *)
(* the proof rests on how far apart consecutive arrivals can be.           *)
(***************************************************************************)
EXTENDS RtcpLoop, FiniteSetTheorems, TLAPS

-----------------------------------------------------------------------------
\* Numbers modulo SeqMod.

LEMMA ModIs ==
    ASSUME NEW f \in Nat, NEW M \in Nat \ {0}
    PROVE  /\ (f % M) \in 0 .. M - 1
           /\ f \div M \in Int /\ f = M * (f \div M) + (f % M)
OBVIOUS

LEMMA OneTurn ==
    ASSUME NEW k \in Int, NEW M \in Nat \ {0}, k * M > 0 - M, k * M < 2 * M
    PROVE  k \in {0, 1}
<1>1. CASE k <= -1
    <2>1. k * M <= (-1) * M
        BY <1>1
    <2> QED
        BY <2>1
<1>2. CASE k >= 2
    <2>1. k * M >= 2 * M
        BY <1>2
    <2> QED
        BY <2>1
<1> QED
    BY <1>1, <1>2

LEMMA ModDifference ==
    ASSUME NEW f \in Nat, NEW l \in Nat, NEW M \in Nat \ {0}, f - l \in 0 .. M - 1
    PROVE  \/ (f % M) - (l % M) = f - l
           \/ (f % M) - (l % M) + M = f - l
<1> DEFINE k == f \div M - l \div M
<1>1. /\ f \div M \in Int /\ f = M * (f \div M) + (f % M) /\ (f % M) \in 0 .. M - 1
      /\ l \div M \in Int /\ l = M * (l \div M) + (l % M) /\ (l % M) \in 0 .. M - 1
    BY ModIs
<1>2. k \in Int /\ f - l = k * M + (f % M) - (l % M)
    BY <1>1
<1> HIDE DEF k
<1>3. k * M \in Int
    BY <1>2
<1>4. k \in {0, 1}
    BY <1>1, <1>2, <1>3, OneTurn
<1> QED
    BY <1>1, <1>2, <1>4

\* How the engine sees an arrival that is at most Lifetime from the one before.
LEMMA GapIs ==
    ASSUME NEW f \in Nat, NEW l \in Nat, f - l <= Lifetime, l - f <= Lifetime,
           lastSeq = Number(l), Number(l) # 0
    PROVE  Gap(Number(f)) = IF f > l + 1 THEN f - l - 1 ELSE 0
<1> DEFINE M == SeqMod
           n == Number(f)
           m == Number(l)
<1>1. M \in Nat \ {0} /\ M = 2 * Half /\ Lifetime \in Nat /\ Lifetime < GapLimit
      /\ GapLimit \in Nat /\ GapLimit <= Half /\ Half \in Nat
    BY HalfAssumption, GapAssumption, LoopAssumption DEF SeqMod
<1>2. n = f % M /\ m = l % M
    BY DEF Number
<1>3. n \in 0 .. M - 1 /\ m \in 0 .. M - 1
    BY <1>1, <1>2, ModIs
<1>4. CASE f >= l
    <2>1. f - l \in 0 .. M - 1
        BY <1>1, <1>4
    <2>2. n - m = f - l \/ n - m + M = f - l
        BY <1>1, <1>2, <2>1, ModDifference
    <2> HIDE DEF M, n, m
    <2>3. SeqDiff(n, m) = f - l
        BY <1>1, <1>3, <1>4, <2>2 DEF SeqDiff, M
    <2> QED
        BY <2>3, <1>1, <1>4 DEF Gap, n, m
<1>5. CASE f < l
    <2>1. l - f \in 0 .. M - 1
        BY <1>1, <1>5
    <2>2. m - n = l - f \/ m - n + M = l - f
        BY <1>1, <1>2, <2>1, ModDifference
    <2> HIDE DEF M, n, m
    <2>3. SeqDiff(n, m) = M - (l - f)
        BY <1>1, <1>3, <1>5, <2>2 DEF SeqDiff, M
    <2>4. SeqDiff(n, m) >= GapLimit /\ SeqDiff(n, m) \in Int
        BY <2>3, <1>1, <1>5
    <2> QED
        BY <2>4, <1>1, <1>5 DEF Gap, n, m
<1> QED
    BY <1>4, <1>5

\* An arrival never counts less than nothing.
LEMMA GapType ==
    ASSUME lastSeq \in SeqNum, NEW f \in Nat
    PROVE  Gap(Number(f)) \in Nat /\ Number(f) \in SeqNum
<1>1. SeqMod \in Nat \ {0} /\ GapLimit \in Nat
    BY HalfAssumption, GapAssumption DEF SeqMod
<1>2. Number(f) \in SeqNum
    BY <1>1, ModIs DEF Number, SeqNum
<1>3. SeqDiff(Number(f), lastSeq) \in Int
    BY <1>1, <1>2 DEF SeqDiff, SeqNum
<1> QED
    BY <1>1, <1>2, <1>3 DEF Gap

-----------------------------------------------------------------------------
\* What is missing of a stream that has come as far as N.
Holes(a, N, A) == (a .. N) \ A

LEMMA HolesFinite ==
    ASSUME NEW a \in Int, NEW N \in Int, NEW A
    PROVE  IsFiniteSet(Holes(a, N, A)) /\ Cardinality(Holes(a, N, A)) \in Nat
<1>1. IsFiniteSet(Holes(a, N, A))
    BY FS_Interval, FS_Difference DEF Holes
<1> QED
    BY <1>1, FS_CardinalityType

\* One that is newer than all leaves what lies between.
LEMMA HolesGrow ==
    ASSUME NEW A \in SUBSET Int, NEW a \in A, NEW N \in A, \A g \in A : g <= N,
           NEW f \in Int, f > N
    PROVE  Cardinality(Holes(a, f, A \cup {f})) = Cardinality(Holes(a, N, A)) + (f - N - 1)
<1> DEFINE Old == Holes(a, N, A)
           New == Holes(a, f, A \cup {f})
           Between == (N + 1) .. (f - 1)
           Both == Old \cup Between
<1>1. New = Both
    BY DEF Holes
<1>2. Old \cap Between = {}
    BY DEF Holes
<1>3. IsFiniteSet(Old) /\ Cardinality(Old) \in Nat
    BY HolesFinite
<1>4. IsFiniteSet(Between) /\ Cardinality(Between) = f - N - 1
    BY FS_Interval
<1> HIDE DEF Old, New, Between
<1>5. Cardinality(Both) = Cardinality(Old) + Cardinality(Between) - Cardinality({})
    BY <1>2, <1>3, <1>4, FS_Union
<1>6. Cardinality({}) = 0
    BY FS_EmptySet
<1> HIDE DEF Both
<1>7. Cardinality(New) = Cardinality(Old) + (f - N - 1)
    BY <1>1, <1>3, <1>4, <1>5, <1>6
<1> QED
    BY <1>7 DEF Old, New

\* One that is not fills at most a hole.
LEMMA HolesFill ==
    ASSUME NEW A, NEW a \in Int, NEW N \in Int, NEW f
    PROVE  Cardinality(Holes(a, N, A \cup {f})) <= Cardinality(Holes(a, N, A))
<1>1. Holes(a, N, A \cup {f}) \subseteq Holes(a, N, A)
    BY DEF Holes
<1> QED
    BY <1>1, HolesFinite, FS_Subset

\* Newest is the newest.
LEMMA MissingIs ==
    ASSUME NEW A \in SUBSET Int, arrived = A, NEW N \in A, \A g \in A : g <= N
    PROVE  Missing = Holes(first, N, A)
<1>1. Newest \in A /\ \A g \in A : g <= Newest
    BY DEF Newest
<1>2. Newest = N
    BY <1>1
<1> QED
    BY <1>2 DEF Missing, Holes

-----------------------------------------------------------------------------
\* The shape of what the loss depends on.
LossTypeOK ==
    /\ lastSeq \in SeqNum
    /\ packetsLost \in Nat
    /\ sent \in Nat
    /\ arrived \subseteq 0 .. sent - 1
    /\ inOrder \in BOOLEAN /\ zeroGap \in BOOLEAN

\* The engine's lastSeq is the number of the last arrival, which the sender is
\* not far ahead of.
Arrivals ==
    \/ arrived = {} /\ lastSeq = 0 /\ last = -1 /\ packetsLost = 0
    \/ /\ last \in arrived /\ first \in arrived
       /\ lastSeq = Number(last)
       /\ sent - last <= Lifetime

\* With the newest arrival N: what is counted covers the holes behind it.
LossCovered(N) ==
    /\ \A g \in arrived : g <= N
    /\ inOrder => last = N
    /\ ~ zeroGap => packetsLost >= Cardinality(Holes(first, N, arrived))
    /\ ~ zeroGap /\ inOrder => packetsLost = Cardinality(Holes(first, N, arrived))

\* The inductive invariant of the loss.
LossInv ==
    /\ LossTypeOK
    /\ Arrivals
    /\ arrived # {} => \E N \in arrived : LossCovered(N)

\* That of the mode.
ModeInv ==
    /\ useRed \in BOOLEAN
    /\ depth \in 0 .. 3
    /\ recommended \in 1 .. 3
    /\ \A r \in reports : r.RecommendedRED \in 1 .. 3
    /\ ModeKept

LEMMA InitLoss == LoopInit => LossInv /\ ModeInv
<1> SUFFICES ASSUME LoopInit PROVE LossInv /\ ModeInv
    OBVIOUS
<1>1. 0 \in SeqNum
    BY HalfAssumption DEF SeqNum, SeqMod
<1>2. LossInv
    BY <1>1 DEF LoopInit, EngineInit, LossInv, LossTypeOK, Arrivals
<1>3. ModeInv
    BY DEF LoopInit, EngineInit, ModeInv, ModeKept
<1> QED
    BY <1>2, <1>3

\* What an arrival adds to the loss.
LEMMA ArriveCounts ==
    ASSUME LossInv, arrived # {}, NEW f \in 0 .. sent - 1, Arrive(f), ~ zeroGap'
    PROVE  /\ packetsLost' = packetsLost + IF f > last + 1 THEN f - last - 1 ELSE 0
           /\ ~ zeroGap
<1>1. /\ packetsLost' = packetsLost + Gap(Number(f))
      /\ sent - f <= Lifetime
      /\ zeroGap' = (zeroGap \/ (last >= 0 /\ Number(last) = 0 /\ f > last + 1))
    BY DEF Arrive, RecordArrival
<1>2. /\ last \in arrived /\ lastSeq = Number(last) /\ sent - last <= Lifetime
      /\ arrived \subseteq 0 .. sent - 1 /\ sent \in Nat /\ Lifetime \in Nat
    BY LoopAssumption DEF LossInv, Arrivals, LossTypeOK
<1>3. last \in Nat /\ f \in Nat /\ f - last <= Lifetime /\ last - f <= Lifetime
    BY <1>1, <1>2
<1>4. ~ zeroGap /\ ~ (Number(last) = 0 /\ f > last + 1)
    <2>1. ~ zeroGap /\ ~ (last >= 0 /\ Number(last) = 0 /\ f > last + 1)
        BY <1>1, Zenon
    <2> QED
        BY <2>1, <1>3
<1>5. CASE Number(last) # 0
    BY <1>1, <1>2, <1>3, <1>4, <1>5, GapIs
<1>6. CASE Number(last) = 0
    <2>1. Gap(Number(f)) = 0
        BY <1>2, <1>6 DEF Gap
    <2> QED
        BY <2>1, <1>1, <1>4, <1>6
<1> QED
    BY <1>5, <1>6

LEMMA ArriveCovered ==
    ASSUME LossInv, NEW f \in 0 .. sent - 1, Arrive(f)
    PROVE  \E N \in arrived' : LossCovered(N)'
<1>1. /\ arrived' = arrived \cup {f} /\ last' = f
      /\ first' = IF arrived = {} THEN f ELSE first
      /\ inOrder' = (inOrder /\ \A g \in arrived : g < f)
      /\ packetsLost' = packetsLost + Gap(Number(f))
    BY DEF Arrive, RecordArrival
<1>2. /\ arrived \subseteq 0 .. sent - 1 /\ sent \in Nat /\ packetsLost \in Nat
      /\ lastSeq \in SeqNum /\ f \in Nat
    BY DEF LossInv, LossTypeOK
<1>3. CASE arrived = {}
    <2>1. packetsLost = 0 /\ lastSeq = 0
        BY <1>3 DEF LossInv, Arrivals
    <2>2. Gap(Number(f)) = 0
        BY <2>1 DEF Gap
    <2>3. Holes(f, f, arrived') = {}
        BY <1>1, <1>2 DEF Holes
    <2>4. packetsLost' = 0 /\ first' = f /\ last' = f /\ arrived' = {f}
        BY <1>1, <1>3, <2>1, <2>2
    <2>5. LossCovered(f)'
        BY <1>2, <2>3, <2>4, FS_EmptySet DEF LossCovered
    <2> QED
        BY <2>4, <2>5
<1>4. CASE arrived # {}
    <2>1. PICK N \in arrived : LossCovered(N)
        BY <1>4 DEF LossInv
    <2>2. last \in arrived /\ first \in arrived
        BY <1>4 DEF LossInv, Arrivals
    <2>3. \A g \in arrived : g <= N
        BY <2>1 DEF LossCovered
    <2>4. first' = first /\ N \in Nat /\ last \in Nat /\ first \in Nat /\ last <= N
        BY <1>1, <1>2, <1>4, <2>2, <2>3
    <2> DEFINE old == Cardinality(Holes(first, N, arrived))
    <2>5. old \in Nat
        BY <2>4, HolesFinite
    <2>6. CASE f > N
        <3> DEFINE new == Cardinality(Holes(first, f, arrived'))
        <3>1. new = old + (f - N - 1)
            BY <1>1, <1>2, <2>2, <2>3, <2>6, HolesGrow
        <3>2. \A g \in arrived' : g <= f
            BY <1>1, <1>2, <2>3, <2>4, <2>6
        <3> HIDE DEF old, new
        <3>3. ASSUME ~ zeroGap'
              PROVE  packetsLost' >= new /\ (inOrder' => packetsLost' = new)
            <4>1. /\ packetsLost' = packetsLost + IF f > last + 1 THEN f - last - 1 ELSE 0
                  /\ ~ zeroGap
                BY <1>4, <3>3, ArriveCounts
            <4>2. packetsLost >= old /\ (inOrder => packetsLost = old /\ last = N)
                BY <2>1, <4>1 DEF LossCovered, old
            <4>3. packetsLost' >= new
                BY <4>1, <4>2, <3>1, <1>2, <2>4, <2>5, <2>6
            <4>4. ASSUME inOrder' PROVE packetsLost' = new
                <5>1. inOrder
                    BY <4>4, <1>1, Zenon
                <5> QED
                    BY <5>1, <4>1, <4>2, <3>1, <1>2, <2>4, <2>5, <2>6
            <4> QED
                BY <4>3, <4>4
        <3>4. LossCovered(f)'
            BY <3>2, <3>3, <1>1, <2>4 DEF LossCovered, new
        <3> QED
            BY <3>4, <1>1
    <2>7. CASE f <= N
        <3> DEFINE new == Cardinality(Holes(first, N, arrived'))
        <3>1. new <= old /\ new \in Nat
            <4>1. new = Cardinality(Holes(first, N, arrived \cup {f}))
                BY <1>1
            <4>2. Cardinality(Holes(first, N, arrived \cup {f})) <= old
                <5>1. first \in Int /\ N \in Int
                    BY <2>4
                <5> QED
                    BY <5>1, HolesFill, Zenon
            <4>3. new \in Nat
                BY <2>4, HolesFinite
            <4> HIDE DEF old, new
            <4> QED
                BY <4>1, <4>2, <4>3
        <3>2. \A g \in arrived' : g <= N
            BY <1>1, <2>3, <2>7
        <3>3. ~ inOrder'
            <4> SUFFICES ASSUME inOrder' PROVE FALSE
                OBVIOUS
            <4>1. \A g \in arrived : g < f
                BY <1>1, Zenon
            <4> QED
                BY <4>1, <1>2, <2>4, <2>7
        <3> HIDE DEF old, new
        <3>4. ASSUME ~ zeroGap' PROVE packetsLost' >= new
            <4>1. ~ zeroGap
                BY <1>4, <3>4, ArriveCounts
            <4>2. packetsLost >= old
                BY <2>1, <4>1 DEF LossCovered, old
            <4>3. Gap(Number(f)) \in Nat
                BY <1>2, GapType
            <4> QED
                BY <4>2, <4>3, <3>1, <1>1, <1>2, <2>5
        <3>5. LossCovered(N)'
            BY <3>2, <3>3, <3>4, <2>4 DEF LossCovered, new
        <3> QED
            BY <3>5, <1>1
    <2> QED
        BY <2>4, <2>6, <2>7, <1>2
<1> QED
    BY <1>3, <1>4

LEMMA StepLoss == LossInv /\ [LoopNext]_vars => LossInv'
<1> SUFFICES ASSUME LossInv, [LoopNext]_vars PROVE LossInv'
    OBVIOUS
<1>1. CASE Send
    <2>1. /\ sent' = sent + 1 /\ (arrived # {} => sent - last < Lifetime)
          /\ lastSeq' = lastSeq /\ packetsLost' = packetsLost /\ first' = first /\ last' = last
          /\ arrived' = arrived /\ inOrder' = inOrder /\ zeroGap' = zeroGap
        BY <1>1 DEF Send, engineVars
    <2>2. LossTypeOK'
        BY <2>1 DEF LossInv, LossTypeOK
    <2>3. Arrivals'
        <3>1. sent \in Nat /\ arrived \subseteq 0 .. sent - 1 /\ Lifetime \in Nat
            BY LoopAssumption DEF LossInv, LossTypeOK
        <3>2. CASE arrived = {}
            BY <3>2, <2>1 DEF LossInv, Arrivals
        <3>3. CASE arrived # {}
            <4>1. /\ last \in arrived /\ first \in arrived /\ lastSeq = Number(last)
                  /\ sent - last < Lifetime
                BY <3>3, <2>1 DEF LossInv, Arrivals
            <4>2. sent + 1 - last <= Lifetime
                BY <4>1, <3>1
            <4>3. last' \in arrived' /\ first' \in arrived' /\ lastSeq' = Number(last)'
                BY <4>1, <2>1
            <4>4. sent' = sent + 1 /\ last' = last
                BY <2>1
            <4>5. sent' - last' <= Lifetime
                BY <4>1, <4>2, <4>4, <3>1
            <4> QED
                BY <4>3, <4>5 DEF Arrivals
        <3> QED
            BY <3>2, <3>3
    <2>4. arrived' # {} => \E N \in arrived' : LossCovered(N)'
        BY <2>1 DEF LossInv, LossCovered
    <2> QED
        BY <2>2, <2>3, <2>4 DEF LossInv
<1>2. ASSUME NEW f \in 0 .. sent - 1, Arrive(f) PROVE LossInv'
    <2>1. /\ sent' = sent /\ arrived' = arrived \cup {f} /\ last' = f
          /\ first' = IF arrived = {} THEN f ELSE first
          /\ lastSeq' = Number(f) /\ packetsLost' = packetsLost + Gap(Number(f))
          /\ sent - f <= Lifetime
        BY <1>2 DEF Arrive, RecordArrival
    <2>2. inOrder' \in BOOLEAN /\ zeroGap' \in BOOLEAN
        BY <1>2 DEF Arrive
    <2>3. /\ sent \in Nat /\ arrived \subseteq 0 .. sent - 1 /\ packetsLost \in Nat
          /\ lastSeq \in SeqNum /\ f \in Nat
        BY DEF LossInv, LossTypeOK
    <2>4. Gap(Number(f)) \in Nat /\ Number(f) \in SeqNum
        BY <2>3, GapType
    <2>5. LossTypeOK'
        BY <2>1, <2>2, <2>3, <2>4 DEF LossTypeOK
    <2>6. Arrivals'
        <3>1. first' \in arrived' /\ last' \in arrived' /\ lastSeq' = Number(last)'
            BY <2>1 DEF LossInv, Arrivals
        <3>2. sent' - last' <= Lifetime
            BY <2>1
        <3> QED
            BY <3>1, <3>2 DEF Arrivals
    <2>7. \E N \in arrived' : LossCovered(N)'
        BY <1>2, ArriveCovered
    <2> QED
        BY <2>5, <2>6, <2>7 DEF LossInv
<1>3. ASSUME \/ SendReport
             \/ \E r \in reports : Obey(r) \/ Lose(r)
             \/ UNCHANGED vars
      PROVE  LossInv'
    <2>1. /\ sent' = sent
          /\ lastSeq' = lastSeq /\ packetsLost' = packetsLost /\ first' = first /\ last' = last
          /\ arrived' = arrived /\ inOrder' = inOrder /\ zeroGap' = zeroGap
        BY <1>3 DEF SendReport, GenerateReport, Obey, Lose, vars, engineVars, loopVars
    <2> QED
        BY <2>1 DEF LossInv, LossTypeOK, Arrivals, LossCovered
<1> QED
    BY <1>1, <1>2, <1>3 DEF LoopNext

LEMMA InvGivesLoss == LossInv => LossNotUnderstated /\ ExactInOrder
<1> SUFFICES ASSUME LossInv PROVE LossNotUnderstated /\ ExactInOrder
    OBVIOUS
<1>1. CASE arrived = {}
    <2>1. packetsLost = 0 /\ Missing = {}
        BY <1>1 DEF LossInv, Arrivals, Missing
    <2> QED
        BY <2>1, FS_EmptySet DEF LossNotUnderstated, ExactInOrder
<1>2. CASE arrived # {}
    <2>1. PICK N \in arrived : LossCovered(N)
        BY <1>2 DEF LossInv
    <2>2. arrived \in SUBSET Int
        BY DEF LossInv, LossTypeOK
    <2>3. Missing = Holes(first, N, arrived)
        BY <2>1, <2>2, MissingIs DEF LossCovered
    <2> QED
        BY <2>1, <2>3 DEF LossCovered, LossNotUnderstated, ExactInOrder
<1> QED
    BY <1>1, <1>2

-----------------------------------------------------------------------------
LEMMA StepMode == ModeInv /\ [LoopNext]_vars => ModeInv'
<1> SUFFICES ASSUME ModeInv, [LoopNext]_vars PROVE ModeInv'
    OBVIOUS
<1>1. CASE Send
    BY <1>1 DEF Send, engineVars, ModeInv, ModeKept
<1>2. ASSUME NEW f \in 0 .. sent - 1, Arrive(f) PROVE ModeInv'
    BY <1>2 DEF Arrive, RecordArrival, ModeInv, ModeKept
<1>3. CASE SendReport
    <2>1. /\ recommended' = DepthFor(packetsLost, packetsRecv + packetsLost)
          /\ reports' = reports \cup {Report}
          /\ useRed' = useRed /\ depth' = depth
        BY <1>3 DEF SendReport, GenerateReport
    <2>2. recommended' \in 1 .. 3
        BY <2>1 DEF DepthFor
    <2>3. Report.RecommendedRED = recommended'
        BY DEF Report
    <2> QED
        BY <2>1, <2>2, <2>3 DEF ModeInv, ModeKept
<1>4. ASSUME NEW r \in reports, Obey(r) \/ Lose(r) PROVE ModeInv'
    <2>1. /\ depth' \in {depth, IF useRed THEN r.RecommendedRED ELSE depth}
          /\ reports' = reports \ {r} /\ useRed' = useRed /\ recommended' = recommended
        BY <1>4 DEF Obey, Lose, engineVars
    <2> QED
        BY <2>1 DEF ModeInv, ModeKept
<1>5. CASE UNCHANGED vars
    BY <1>5 DEF vars, engineVars, loopVars, ModeInv, ModeKept
<1> QED
    BY <1>1, <1>2, <1>3, <1>4, <1>5 DEF LoopNext

\* Whatever overtakes, arrives twice or is lost, over any number of wraps: the
\* engine counts at least what is missing, and exactly this while nothing
\* overtook, but for a gap behind number 0 (rtcp/rtcp.go, RecordArrival).
THEOREM LossCounted == LoopSpec => [](LossNotUnderstated /\ ExactInOrder)
<1>1. LoopInit => LossInv
    BY InitLoss
<1>2. LossInv /\ [LoopNext]_vars => LossInv'
    BY StepLoss
<1>3. LossInv => LossNotUnderstated /\ ExactInOrder
    BY InvGivesLoss
<1> QED
    BY <1>1, <1>2, <1>3, PTL DEF LoopSpec

\* While nothing overtook or came twice the engine counts exactly what is
\* missing, over any number of wraps (rtcp/rtcp.go, RecordArrival).
THEOREM ExactStaysInOrder == LoopSpec => []ExactInOrder
    BY LossCounted, PTL

\* Whatever reports it is sent, however late, a sender sends redundancy if and
\* only if it was started to (cmd/sender/main.go, the feedback goroutine).
THEOREM ModeStays == LoopSpec => []ModeKept
<1>1. LoopInit => ModeInv
    BY InitLoss
<1>2. ModeInv /\ [LoopNext]_vars => ModeInv'
    BY StepMode
<1>3. ModeInv => ModeKept
    BY DEF ModeInv
<1> QED
    BY <1>1, <1>2, <1>3, PTL DEF LoopSpec

\* The loop's state keeps its shape.
THEOREM LoopTyped == LoopSpec => []LoopTypeOK
<1> DEFINE Counted == packetsRecv \in Nat /\ due \in Nat
           Inv == LossInv /\ ModeInv /\ Counted
<1>1. LoopInit => Inv
    BY InitLoss DEF LoopInit, EngineInit
<1>2. ASSUME Counted, [LoopNext]_vars PROVE Counted'
    <2>1. CASE Send
        BY <1>2, <2>1 DEF Send, engineVars
    <2>2. ASSUME NEW f \in 0 .. sent - 1, Arrive(f) PROVE Counted'
        BY <1>2, <2>2 DEF Arrive, RecordArrival
    <2>3. CASE SendReport
        BY <1>2, <2>3 DEF SendReport, GenerateReport
    <2>4. ASSUME NEW r \in reports, Obey(r) \/ Lose(r) PROVE Counted'
        BY <1>2, <2>4 DEF Obey, Lose, engineVars
    <2>5. CASE UNCHANGED vars
        BY <1>2, <2>5 DEF vars, engineVars, loopVars
    <2> QED
        BY <1>2, <2>1, <2>2, <2>3, <2>4, <2>5 DEF LoopNext
<1>3. Inv /\ [LoopNext]_vars => Inv'
    BY <1>2, StepLoss, StepMode
<1>4. Inv => LoopTypeOK
    BY DEF LossInv, LossTypeOK, ModeInv, LoopTypeOK, EngineTypeOK
<1> QED
    BY <1>1, <1>3, <1>4, PTL DEF LoopSpec
=============================================================================
