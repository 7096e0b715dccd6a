------------------------ MODULE SessionRouter_proofs -------------------------
(***************************************************************************)
(* A pipeline loses, repeats and keeps back none of what it accepted, and  *)
(* the router keeps the connections of different calls apart, for every    *)
(* number of connections and pipelines, every queue, frame and chunk size, *)
(* both sample rates and audio of any length.                              *)
(*                                                                         *)
(* The recursive functions behind FlattenSeq are reasoned about through    *)
(* the least number at which two of them differ.                           *)
(***************************************************************************)
EXTENDS SessionRouter, WellFoundedInduction, SequenceTheorems, TLAPS

-----------------------------------------------------------------------------
\* A set of numbers has a least one, which stands in for induction.
LEMMA Least ==
    ASSUME NEW T \in SUBSET Nat, T # {}
    PROVE  \E x \in T : \A y \in T : x <= y
<1>1. PICK x \in T : \A y \in T : ~ (<<y, x>> \in OpToRel(<, Nat))
    BY NatLessThanWellFounded, WFMin
<1>2. \A y \in T : ~ (y < x)
    BY <1>1 DEF OpToRel
<1> QED
    BY <1>2

\* What FlattenSeq computes for the first n of q.
Cat(s, t) == s \o t

Flattens(q, n, f) ==
    f = [i \in 1 .. n |-> IF i = 1 THEN q[i] ELSE Cat(f[i - 1], q[i])]

LEMMA CatAssociative ==
    ASSUME NEW S, NEW a \in Seq(S), NEW b \in Seq(S), NEW c \in Seq(S)
    PROVE  Cat(Cat(a, b), c) = Cat(a, Cat(b, c))
BY ConcatAssociative DEF Cat

\* One step of it.
LEMMA FlattensSteps ==
    ASSUME NEW q, NEW n \in Nat, NEW f, Flattens(q, n, f)
    PROVE  /\ DOMAIN f = 1 .. n
           /\ n > 0 => f[1] = q[1]
           /\ \A i \in 2 .. n : f[i] = Cat(f[i - 1], q[i])
<1>1. DOMAIN f = 1 .. n
    BY DEF Flattens
<1>2. \A i \in 1 .. n : f[i] = IF i = 1 THEN q[i] ELSE Cat(f[i - 1], q[i])
    BY DEF Flattens
<1> QED
    BY <1>1, <1>2

\* There is such a function for every sequence.
LEMMA FlattensExists ==
    ASSUME NEW q, NEW n \in Nat
    PROVE  \E f : Flattens(q, n, f)
<1> DEFINE Bad == {k \in Nat : ~ \E f : Flattens(q, k, f)}
<1> SUFFICES ASSUME Bad # {} PROVE FALSE
    OBVIOUS
<1>0. Bad \in SUBSET Nat
    OBVIOUS
<1>1. PICK k \in Bad : \A m \in Bad : k <= m
    <2> HIDE DEF Bad
    <2> QED BY <1>0, Least
<1>2. k # 0
    <2> DEFINE e == [i \in 1 .. 0 |-> IF i = 1 THEN q[i] ELSE <<>>]
    <2>1. Flattens(q, 0, e)
        BY DEF Flattens
    <2> QED
        BY <2>1
<1>3. k - 1 \in Nat /\ k - 1 \notin Bad
    BY <1>1, <1>2
<1>4. PICK f : Flattens(q, k - 1, f)
    BY <1>3
<1> DEFINE g == [i \in 1 .. k |-> IF i = 1 THEN q[i]
                                  ELSE IF i < k THEN f[i] ELSE Cat(f[i - 1], q[i])]
<1>5. DOMAIN f = 1 .. k - 1 /\ \A i \in 1 .. k - 1 : f[i] = IF i = 1 THEN q[i] ELSE Cat(f[i - 1], q[i])
    BY <1>4 DEF Flattens
<1>a. k \in Nat
    OBVIOUS
<1> HIDE DEF Bad
<1>6. \A i \in 1 .. k - 1 : g[i] = f[i]
    <2> SUFFICES ASSUME NEW i \in 1 .. k - 1 PROVE g[i] = f[i]
        OBVIOUS
    <2>1. i \in 1 .. k /\ i < k
        BY <1>3, <1>a
    <2>2. g[i] = IF i = 1 THEN q[i] ELSE f[i]
        BY <2>1
    <2> HIDE DEF g
    <2> QED
        BY <2>2, <1>5
<1>7. \A i \in 1 .. k : g[i] = IF i = 1 THEN q[i] ELSE Cat(g[i - 1], q[i])
    <2> SUFFICES ASSUME NEW i \in 1 .. k
                 PROVE  g[i] = IF i = 1 THEN q[i] ELSE Cat(g[i - 1], q[i])
        OBVIOUS
    <2>0. g[i] = IF i = 1 THEN q[i] ELSE IF i < k THEN f[i] ELSE Cat(f[i - 1], q[i])
        OBVIOUS
    <2> HIDE DEF g
    <2>1. i # 1 => i - 1 \in 1 .. k - 1
        BY <1>a
    <2>2. i # 1 => g[i - 1] = f[i - 1]
        BY <2>1, <1>6
    <2>3. i < k => i \in 1 .. k - 1
        BY <1>a
    <2>4. i < k => f[i] = IF i = 1 THEN q[i] ELSE Cat(f[i - 1], q[i])
        BY <2>3, <1>5
    <2> QED
        BY <2>0, <2>2, <2>4
<1>8. g = [i \in 1 .. k |-> g[i]]
    OBVIOUS
<1> HIDE DEF g
<1>9. Flattens(q, k, g)
    BY <1>7, <1>8 DEF Flattens
<1> QED
    BY <1>9, <1>1 DEF Bad

Agree(q, r, n) == \A i \in 1 .. n : q[i] = r[i]

\* Two that agree on the first n of their sequences agree so far.
LEMMA FlattensAgree ==
    ASSUME NEW q, NEW r, NEW n \in Nat, NEW m \in Nat, n <= m,
           Agree(q, r, n),
           NEW f, Flattens(q, n, f), NEW g, Flattens(r, m, g)
    PROVE  Agree(f, g, n)
<1> DEFINE Bad == {k \in 1 .. n : f[k] # g[k]}
<1> SUFFICES ASSUME Bad # {} PROVE FALSE
    BY DEF Agree
<1>0. Bad \in SUBSET Nat
    OBVIOUS
<1>1. PICK k \in Bad : \A j \in Bad : k <= j
    <2> HIDE DEF Bad
    <2> QED BY <1>0, Least
<1>2. k \in 1 .. n /\ k \in 1 .. m /\ q[k] = r[k] /\ f[k] # g[k]
    BY <1>1 DEF Agree
<1>a. /\ n > 0 => f[1] = q[1]
      /\ \A i \in 2 .. n : f[i] = Cat(f[i - 1], q[i])
    BY FlattensSteps
<1>b. /\ m > 0 => g[1] = r[1]
      /\ \A i \in 2 .. m : g[i] = Cat(g[i - 1], r[i])
    BY FlattensSteps
<1>3. k # 1
    BY <1>2, <1>a, <1>b
<1>5. k - 1 \in 1 .. n /\ k - 1 \notin Bad
    BY <1>1, <1>2, <1>3
<1>6. f[k - 1] = g[k - 1]
    BY <1>5
<1> HIDE DEF Bad
<1>4. f[k] = Cat(f[k - 1], q[k]) /\ g[k] = Cat(g[k - 1], r[k])
    BY <1>2, <1>3, <1>a, <1>b
<1> QED
    BY <1>2, <1>4, <1>6

\* What it computes from sequences over S are sequences over S.
LEMMA FlattensType ==
    ASSUME NEW S, NEW q \in Seq(Seq(S)), NEW f, Flattens(q, Len(q), f)
    PROVE  \A i \in 1 .. Len(q) : f[i] \in Seq(S)
<1> DEFINE Bad == {k \in 1 .. Len(q) : f[k] \notin Seq(S)}
<1> SUFFICES ASSUME Bad # {} PROVE FALSE
    OBVIOUS
<1>0. Len(q) \in Nat /\ \A i \in 1 .. Len(q) : q[i] \in Seq(S)
    OBVIOUS
<1>b. Bad \in SUBSET Nat
    OBVIOUS
<1>1. PICK k \in Bad : \A j \in Bad : k <= j
    <2> HIDE DEF Bad
    <2> QED BY <1>b, Least
<1>2. k \in 1 .. Len(q) /\ f[k] \notin Seq(S)
    BY <1>1
<1>a. /\ Len(q) > 0 => f[1] = q[1]
      /\ \A i \in 2 .. Len(q) : f[i] = Cat(f[i - 1], q[i])
    BY <1>0, FlattensSteps
<1>3. k # 1
    BY <1>0, <1>2, <1>a
<1>5. k - 1 \in 1 .. Len(q) /\ k - 1 \notin Bad
    BY <1>0, <1>1, <1>2, <1>3
<1>6. f[k - 1] \in Seq(S) /\ q[k] \in Seq(S)
    BY <1>0, <1>2, <1>5
<1> HIDE DEF Bad
<1>4. f[k] = Cat(f[k - 1], q[k])
    BY <1>0, <1>2, <1>3, <1>a
<1>7. f[k] \in Seq(S)
    BY <1>4, <1>6, ConcatProperties DEF Cat
<1> QED
    BY <1>2, <1>7

\* FlattenSeq is the last of them.
LEMMA FlattenIs ==
    ASSUME NEW S, NEW q \in Seq(Seq(S))
    PROVE  /\ q = <<>> => FlattenSeq(q) = <<>>
           /\ q # <<>> => \E f : Flattens(q, Len(q), f) /\ FlattenSeq(q) = f[Len(q)]
<1>1. CASE q = <<>>
    BY <1>1, EmptySeq DEF FlattenSeq
<1>2. CASE q # <<>>
    <2>1. Len(q) \in Nat /\ Len(q) # 0
        BY <1>2, EmptySeq
    <2> DEFINE F == CHOOSE f : f = [i \in 1 .. Len(q) |-> IF i = 1 THEN q[i] ELSE f[i - 1] \o q[i]]
    <2>2. FlattenSeq(q) = F[Len(q)]
        BY <2>1 DEF FlattenSeq
    <2>3. \E f : f = [i \in 1 .. Len(q) |-> IF i = 1 THEN q[i] ELSE f[i - 1] \o q[i]]
        BY <2>1, FlattensExists, Zenon DEF Flattens, Cat
    <2>4. F = [i \in 1 .. Len(q) |-> IF i = 1 THEN q[i] ELSE F[i - 1] \o q[i]]
        BY <2>3, Zenon
    <2> HIDE DEF F
    <2>5. Flattens(q, Len(q), F)
        BY <2>4, Zenon DEF Flattens, Cat
    <2> QED
        BY <1>2, <2>2, <2>5
<1> QED
    BY <1>1, <1>2

\* FlattenSeq returns, of sequences over S, a sequence over S.
LEMMA FlattenType ==
    ASSUME NEW S, NEW q \in Seq(Seq(S))
    PROVE  FlattenSeq(q) \in Seq(S)
<1>1. CASE q = <<>>
    BY <1>1, FlattenIs, EmptySeq
<1>2. CASE q # <<>>
    <2>1. PICK f : Flattens(q, Len(q), f) /\ FlattenSeq(q) = f[Len(q)]
        BY <1>2, FlattenIs
    <2>2. Len(q) \in 1 .. Len(q)
        BY <1>2, EmptySeq
    <2> QED
        BY <2>1, <2>2, FlattensType
<1> QED
    BY <1>1, <1>2

\* A sequence put behind the others comes last in what FlattenSeq returns.
LEMMA FlattenAppend ==
    ASSUME NEW S, NEW q \in Seq(Seq(S)), NEW x \in Seq(S)
    PROVE  FlattenSeq(Append(q, x)) = FlattenSeq(q) \o x
<1> DEFINE r == Append(q, x)
           n == Len(q)
<1>1. /\ r \in Seq(Seq(S)) /\ r # <<>> /\ Len(r) = n + 1 /\ n \in Nat
      /\ \A i \in 1 .. n : r[i] = q[i]
      /\ r[n + 1] = x
    BY AppendProperties
<1>2. PICK g : Flattens(r, n + 1, g) /\ FlattenSeq(r) = g[n + 1]
    BY <1>1, FlattenIs
<1> HIDE DEF r, n
<1>3. CASE q = <<>>
    <2>1. n = 0
        BY <1>3, EmptySeq DEF n
    <2>2. g[1] = r[1]
        BY <1>1, <1>2, <2>1, FlattensSteps
    <2>3. FlattenSeq(q) = <<>>
        BY <1>3, FlattenIs
    <2>4. <<>> \o x = x
        BY ConcatEmptySeq
    <2> QED
        BY <1>1, <1>2, <2>1, <2>2, <2>3, <2>4 DEF r
<1>4. CASE q # <<>>
    <2>1. PICK f : Flattens(q, n, f) /\ FlattenSeq(q) = f[n]
        BY <1>4, FlattenIs DEF n
    <2>2. n \in 1 .. n
        BY <1>1, <1>4, EmptySeq DEF n
    <2>3. Agree(f, g, n)
        <3>1. n \in Nat /\ n + 1 \in Nat /\ n <= n + 1
            BY <1>1
        <3>2. Agree(q, r, n)
            BY <1>1 DEF Agree
        <3>3. Flattens(q, n, f) /\ Flattens(r, n + 1, g)
            BY <1>2, <2>1
        <3> QED
            BY <3>1, <3>2, <3>3, FlattensAgree
    <2>4. g[n + 1] = Cat(g[n], r[n + 1])
        <3>1. n \in Nat /\ n + 1 \in 2 .. n + 1 /\ n + 1 \in Nat /\ n + 1 - 1 = n
            BY <1>1, <2>2
        <3>2. \A i \in 2 .. n + 1 : g[i] = Cat(g[i - 1], r[i])
            BY <1>2, <3>1, FlattensSteps
        <3> QED
            BY <3>1, <3>2
    <2> QED
        BY <1>1, <1>2, <2>1, <2>2, <2>3, <2>4 DEF r, Cat, Agree
<1> QED
    BY <1>3, <1>4

\* The first of the sequences comes first in what FlattenSeq returns.
LEMMA FlattenTail ==
    ASSUME NEW S, NEW q \in Seq(Seq(S)), q # <<>>
    PROVE  FlattenSeq(q) = Head(q) \o FlattenSeq(Tail(q))
<1> DEFINE t == Tail(q)
           n == Len(t)
<1>1. /\ Head(q) = q[1] /\ Head(q) \in Seq(S)
      /\ t \in Seq(Seq(S)) /\ n = Len(q) - 1 /\ n \in Nat /\ Len(q) = n + 1
      /\ \A i \in 1 .. n : t[i] = q[i + 1] /\ t[i] \in Seq(S)
    BY HeadTailProperties
<1>2. PICK f : Flattens(q, n + 1, f) /\ FlattenSeq(q) = f[n + 1]
    BY <1>1, FlattenIs
<1> HIDE DEF t, n
<1>6. n + 1 \in Nat /\ n + 1 > 0
    BY <1>1
<1>7. f[1] = q[1] /\ \A i \in 2 .. n + 1 : f[i] = Cat(f[i - 1], q[i])
    <2>1. /\ n + 1 > 0 => f[1] = q[1]
          /\ \A i \in 2 .. n + 1 : f[i] = Cat(f[i - 1], q[i])
        BY <1>6, <1>2, FlattensSteps
    <2> QED
        BY <1>6, <2>1
<1>3. f[1] = Head(q)
    BY <1>1, <1>7
<1>4. CASE t = <<>>
    <2>1. n = 0 /\ FlattenSeq(t) = <<>>
        BY <1>1, <1>4, FlattenIs, EmptySeq DEF n
    <2>2. Head(q) \o <<>> = Head(q)
        BY <1>1, ConcatEmptySeq
    <2> QED
        BY <1>2, <1>3, <2>1, <2>2 DEF t
<1>5. CASE t # <<>>
    <2>1. PICK g : Flattens(t, n, g) /\ FlattenSeq(t) = g[n]
        BY <1>1, <1>5, FlattenIs DEF n
    <2>2. n \in 1 .. n
        BY <1>1, <1>5, EmptySeq DEF n
    <2>3. \A i \in 1 .. n : g[i] \in Seq(S)
        BY <1>1, <2>1, FlattensType DEF n
    <2>4. \A i \in 1 .. n : f[i + 1] = Cat(Head(q), g[i])
        <3> DEFINE Bad == {k \in 1 .. n : f[k + 1] # Cat(Head(q), g[k])}
        <3> SUFFICES ASSUME Bad # {} PROVE FALSE
            OBVIOUS
        <3>0. Bad \in SUBSET Nat
            OBVIOUS
        <3>a. g[1] = t[1] /\ \A i \in 2 .. n : g[i] = Cat(g[i - 1], t[i])
            <4>1. /\ n > 0 => g[1] = t[1]
                  /\ \A i \in 2 .. n : g[i] = Cat(g[i - 1], t[i])
                BY <1>1, <2>1, FlattensSteps
            <4> QED
                BY <4>1, <2>2, <1>1
        <3>1. PICK k \in Bad : \A j \in Bad : k <= j
            <4> HIDE DEF Bad
            <4> QED BY <3>0, Least
        <3>b. k \in Bad /\ \A x \in Bad : x \in 1 .. n /\ f[x + 1] # Cat(Head(q), g[x])
            OBVIOUS
        <3>2. k \in 1 .. n /\ k + 1 \in 2 .. n + 1 /\ f[k + 1] # Cat(Head(q), g[k])
            <4> HIDE DEF Bad
            <4>1. k \in 1 .. n /\ f[k + 1] # Cat(Head(q), g[k])
                BY <3>b
            <4>2. k + 1 \in 2 .. n + 1
                BY <4>1, <1>1
            <4> QED BY <4>1, <4>2
        <3>c. \A x \in 1 .. n : x \notin Bad => f[x + 1] = Cat(Head(q), g[x])
            OBVIOUS
        <3> HIDE DEF Bad
        <3>3. f[k + 1] = Cat(f[k], q[k + 1]) /\ q[k + 1] = t[k]
            <4>1. f[k + 1] = Cat(f[k + 1 - 1], q[k + 1])
                BY <1>7, <3>2
            <4>2. k + 1 - 1 = k
                BY <3>2
            <4> QED
                BY <1>1, <3>2, <4>1, <4>2
        <3>4. CASE k = 1
            BY <1>3, <3>a, <3>2, <3>3, <3>4
        <3>5. CASE k # 1
            <4>1. k - 1 \in 1 .. n /\ k \in 2 .. n
                BY <3>2, <3>5, <1>1
            <4>2. g[k] = Cat(g[k - 1], t[k])
                BY <3>a, <4>1
            <4>3. f[k] = Cat(Head(q), g[k - 1])
                <5>1. k - 1 \notin Bad
                    BY <3>1, <3>2
                <5>2. f[k - 1 + 1] = Cat(Head(q), g[k - 1])
                    BY <4>1, <5>1, <3>c
                <5>3. k - 1 + 1 = k
                    BY <3>2
                <5> QED
                    BY <5>2, <5>3
            <4>4. Cat(Cat(Head(q), g[k - 1]), t[k]) = Cat(Head(q), Cat(g[k - 1], t[k]))
                <5>1. Head(q) \in Seq(S) /\ g[k - 1] \in Seq(S) /\ t[k] \in Seq(S)
                    BY <1>1, <2>3, <3>2, <4>1
                <5> QED
                    BY <5>1, CatAssociative
            <4> QED
                BY <3>2, <3>3, <4>2, <4>3, <4>4
        <3> QED
            BY <3>4, <3>5
    <2> QED
        BY <1>2, <2>1, <2>2, <2>4 DEF t, Cat
<1> QED
    BY <1>4, <1>5

\* What multiplication and division preserve.
LEMMA MulMono ==
    ASSUME NEW a \in Nat, NEW b \in Nat, NEW c \in Nat, a <= b
    PROVE  c * a <= c * b /\ a * c <= b * c
OBVIOUS

LEMMA DivBounds ==
    ASSUME NEW a \in Nat, NEW b \in Nat \ {0}
    PROVE  a \div b \in Nat /\ b * (a \div b) <= a
OBVIOUS

LEMMA DivLt ==
    ASSUME NEW a \in Nat, NEW b \in Nat \ {0}, NEW c \in Nat, a < c * b
    PROVE  a \div b < c
<1> DEFINE d == a \div b
<1>1. d \in Nat /\ b * d <= a
    BY DivBounds
<1>2. SUFFICES ASSUME c <= d PROVE FALSE
    BY <1>1
<1> HIDE DEF d
<1>3. b * c <= b * d
    BY <1>1, <1>2, MulMono
<1>4. b * c = c * b /\ b * c \in Nat /\ b * d \in Nat
    BY <1>1
<1> QED
    BY <1>1, <1>3, <1>4

LEMMA DivMono ==
    ASSUME NEW a \in Nat, NEW b \in Nat, NEW c \in Nat \ {0}, a <= b
    PROVE  a \div c <= b \div c
OBVIOUS

LEMMA DivStep ==
    ASSUME NEW a \in Nat, NEW b \in Nat, NEW c \in Nat \ {0}, a + c <= b
    PROVE  a \div c < b \div c
OBVIOUS

\* The input sample that output sample k is named after is one of the chunk's.
LEMMA ResampledIndex ==
    ASSUME NEW n \in Nat, NEW k \in 1 .. (n * OutRate) \div InRate
    PROVE  1 + ((k - 1) * InRate) \div OutRate \in 1 .. n
<1> DEFINE d == (n * OutRate) \div InRate
<1>0. InRate \in Nat \ {0} /\ OutRate \in Nat \ {0}
    BY PipelineAssumption
<1>1. n * OutRate \in Nat
    BY <1>0
<1>2. d \in Nat /\ InRate * d <= n * OutRate
    BY <1>0, <1>1, DivBounds
<1>3. k \in Nat /\ k - 1 \in Nat /\ k <= d
    BY <1>2
<1> HIDE DEF d
<1>4. InRate * k <= InRate * d
    BY <1>0, <1>2, <1>3, MulMono
<1>5. /\ (k - 1) * InRate = InRate * k - InRate
      /\ InRate * k \in Nat /\ InRate * d \in Nat /\ (k - 1) * InRate \in Nat
    BY <1>0, <1>2, <1>3
<1>6. (k - 1) * InRate < n * OutRate
    BY <1>0, <1>1, <1>2, <1>4, <1>5
<1>7. ((k - 1) * InRate) \div OutRate < n
    BY <1>0, <1>5, <1>6, DivLt
<1>8. ((k - 1) * InRate) \div OutRate \in Nat
    BY <1>0, <1>5, DivBounds
<1> QED
    BY <1>7, <1>8

\* A resampled chunk is made of the samples of the chunk.
LEMMA ResampledType ==
    ASSUME NEW S, NEW piece \in Seq(S)
    PROVE  /\ Resampled(piece) \in Seq(S)
           /\ piece = <<>> => Resampled(piece) = <<>>
<1> DEFINE d == (Len(piece) * OutRate) \div InRate
<1>0. InRate \in Nat \ {0} /\ OutRate \in Nat \ {0} /\ Len(piece) \in Nat
    BY PipelineAssumption
<1>1. Len(piece) * OutRate \in Nat
    BY <1>0
<1>2. d \in Nat
    BY <1>0, <1>1, DivBounds
<1>3. \A k \in 1 .. d : piece[1 + ((k - 1) * InRate) \div OutRate] \in S
    <2> SUFFICES ASSUME NEW k \in 1 .. d
                 PROVE  piece[1 + ((k - 1) * InRate) \div OutRate] \in S
        OBVIOUS
    <2> DEFINE j == 1 + ((k - 1) * InRate) \div OutRate
    <2>1. j \in 1 .. Len(piece)
        BY <1>0, ResampledIndex
    <2> HIDE DEF j
    <2>2. piece[j] \in S
        BY <2>1
    <2> QED
        BY <2>2 DEF j
<1>4. Resampled(piece) = [k \in 1 .. d |-> piece[1 + ((k - 1) * InRate) \div OutRate]]
    BY DEF Resampled
<1>5. piece = <<>> => d = 0
    <2> SUFFICES ASSUME piece = <<>> PROVE d = 0
        OBVIOUS
    <2>1. Len(piece) = 0
        OBVIOUS
    <2>2. Len(piece) * OutRate = 0
        BY <2>1, <1>0
    <2> QED
        BY <2>2, <1>0
<1> HIDE DEF d
<1>6. Resampled(piece) \in Seq(S)
    BY <1>2, <1>3, <1>4
<1>7. piece = <<>> => Resampled(piece) = <<>>
    BY <1>4, <1>5
<1> QED
    BY <1>6, <1>7

\* Concatenation and equality of sequences, in the form used below.
LEMMA Concats ==
    ASSUME NEW S, NEW a \in Seq(S), NEW b \in Seq(S)
    PROVE  a \o b \in Seq(S)
BY ConcatProperties

LEMMA SameSequence ==
    ASSUME NEW S, NEW a \in Seq(S), NEW b \in Seq(S), Len(a) = Len(b),
           \A k \in 1 .. Len(a) : a[k] = b[k]
    PROVE  a = b
BY SeqEqual

-----------------------------------------------------------------------------
\* The lists of sequences that Cut and Queued concatenate.
Frame == [pcm : Seq(Sample), published : BOOLEAN]

Pcms(fs) == [k \in DOMAIN fs |-> fs[k].pcm]
Resamples(q) == [k \in DOMAIN q |-> Resampled(q[k])]

\* The samples of the frames, frame by frame; a frame more.
LEMMA PcmsType ==
    ASSUME NEW fs \in Seq(Frame)
    PROVE  Pcms(fs) \in Seq(Seq(Sample)) /\ Len(Pcms(fs)) = Len(fs)
           /\ \A k \in 1 .. Len(fs) : Pcms(fs)[k] = fs[k].pcm
<1>1. Len(fs) \in Nat /\ DOMAIN fs = 1 .. Len(fs) /\ \A k \in 1 .. Len(fs) : fs[k] \in Frame
    OBVIOUS
<1>2. \A k \in 1 .. Len(fs) : fs[k].pcm \in Seq(Sample)
    BY <1>1 DEF Frame
<1>3. Pcms(fs) = [k \in 1 .. Len(fs) |-> fs[k].pcm]
    BY <1>1 DEF Pcms
<1> QED
    BY <1>1, <1>2, <1>3

LEMMA PcmsAppend ==
    ASSUME NEW fs \in Seq(Frame), NEW x \in Frame
    PROVE  Pcms(Append(fs, x)) = Append(Pcms(fs), x.pcm)
<1> DEFINE gs == Append(fs, x)
           a == Pcms(gs)
           b == Append(Pcms(fs), x.pcm)
<1>1. x.pcm \in Seq(Sample)
    BY DEF Frame
<1>2. gs \in Seq(Frame) /\ Len(gs) = Len(fs) + 1 /\ Len(fs) \in Nat
      /\ (\A k \in 1 .. Len(fs) : gs[k] = fs[k]) /\ gs[Len(fs) + 1] = x
    BY AppendProperties
<1>3. /\ Pcms(fs) \in Seq(Seq(Sample)) /\ Len(Pcms(fs)) = Len(fs)
      /\ \A k \in 1 .. Len(fs) : Pcms(fs)[k] = fs[k].pcm
    BY PcmsType
<1>4. /\ b \in Seq(Seq(Sample)) /\ Len(b) = Len(fs) + 1
      /\ (\A k \in 1 .. Len(fs) : b[k] = fs[k].pcm) /\ b[Len(fs) + 1] = x.pcm
    BY <1>1, <1>3, AppendProperties
<1> HIDE DEF gs, b
<1>5. /\ a \in Seq(Seq(Sample)) /\ Len(a) = Len(gs)
      /\ \A k \in 1 .. Len(gs) : a[k] = gs[k].pcm
    BY <1>2, PcmsType
<1> HIDE DEF a
<1>6. \A k \in 1 .. Len(a) : a[k] = b[k]
    <2> SUFFICES ASSUME NEW k \in 1 .. Len(a) PROVE a[k] = b[k]
        OBVIOUS
    <2>1. k \in 1 .. Len(fs) \/ k = Len(fs) + 1
        BY <1>2, <1>5
    <2>2. a[k] = gs[k].pcm
        BY <1>5
    <2> QED
        BY <1>2, <1>4, <2>1, <2>2
<1>7. a = b
    BY <1>2, <1>4, <1>5, <1>6, SameSequence
<1> QED
    BY <1>7 DEF a, b, gs

\* The resampled chunks, chunk by chunk; a chunk more, the first one less.
LEMMA ResamplesType ==
    ASSUME NEW S, NEW q \in Seq(Seq(S))
    PROVE  Resamples(q) \in Seq(Seq(S)) /\ Len(Resamples(q)) = Len(q)
           /\ \A k \in 1 .. Len(q) : Resamples(q)[k] = Resampled(q[k])
<1>1. Len(q) \in Nat /\ DOMAIN q = 1 .. Len(q) /\ \A k \in 1 .. Len(q) : q[k] \in Seq(S)
    OBVIOUS
<1>2. \A k \in 1 .. Len(q) : Resampled(q[k]) \in Seq(S)
    BY <1>1, ResampledType
<1>3. Resamples(q) = [k \in 1 .. Len(q) |-> Resampled(q[k])]
    BY <1>1 DEF Resamples
<1> QED
    BY <1>1, <1>2, <1>3

LEMMA ResamplesAppend ==
    ASSUME NEW S, NEW q \in Seq(Seq(S)), NEW x \in Seq(S)
    PROVE  Resamples(Append(q, x)) = Append(Resamples(q), Resampled(x))
<1> DEFINE r == Append(q, x)
           y == Resampled(x)
           a == Resamples(r)
           b == Append(Resamples(q), y)
<1>1. y \in Seq(S)
    BY ResampledType
<1>2. r \in Seq(Seq(S)) /\ Len(r) = Len(q) + 1 /\ Len(q) \in Nat
      /\ (\A k \in 1 .. Len(q) : r[k] = q[k]) /\ r[Len(q) + 1] = x
    BY AppendProperties
<1>3. /\ Resamples(q) \in Seq(Seq(S)) /\ Len(Resamples(q)) = Len(q)
      /\ \A k \in 1 .. Len(q) : Resamples(q)[k] = Resampled(q[k])
    BY ResamplesType
<1> HIDE DEF y
<1>4. /\ b \in Seq(Seq(S)) /\ Len(b) = Len(q) + 1
      /\ (\A k \in 1 .. Len(q) : b[k] = Resampled(q[k])) /\ b[Len(q) + 1] = y
    BY <1>1, <1>3, AppendProperties
<1> HIDE DEF r, b
<1>5. /\ a \in Seq(Seq(S)) /\ Len(a) = Len(r)
      /\ \A k \in 1 .. Len(r) : a[k] = Resampled(r[k])
    BY <1>2, ResamplesType
<1> HIDE DEF a
<1>6. \A k \in 1 .. Len(a) : a[k] = b[k]
    <2> SUFFICES ASSUME NEW k \in 1 .. Len(a) PROVE a[k] = b[k]
        OBVIOUS
    <2>1. k \in 1 .. Len(q) \/ k = Len(q) + 1
        BY <1>2, <1>5
    <2>2. a[k] = Resampled(r[k])
        BY <1>5
    <2> QED
        BY <1>2, <1>4, <2>1, <2>2 DEF y
<1>7. a = b
    BY <1>2, <1>4, <1>5, <1>6, SameSequence
<1> QED
    BY <1>7 DEF a, b, r, y

LEMMA ResamplesTail ==
    ASSUME NEW S, NEW q \in Seq(Seq(S)), q # <<>>
    PROVE  /\ Head(Resamples(q)) = Resampled(Head(q))
           /\ Resamples(Tail(q)) = Tail(Resamples(q))
           /\ Resamples(q) # <<>>
<1> DEFINE t == Tail(q)
           h == Resamples(q)
           a == Resamples(t)
           b == Tail(h)
<1>1. /\ t \in Seq(Seq(S)) /\ Len(t) = Len(q) - 1 /\ Len(q) \in Nat \ {0}
      /\ (\A k \in 1 .. Len(t) : t[k] = q[k + 1]) /\ Head(q) = q[1]
    BY HeadTailProperties, EmptySeq
<1>2. /\ h \in Seq(Seq(S)) /\ Len(h) = Len(q)
      /\ \A k \in 1 .. Len(q) : h[k] = Resampled(q[k])
    BY ResamplesType
<1> HIDE DEF t, h
<1>3. h # <<>>
    BY <1>1, <1>2, EmptySeq
<1>4. /\ b \in Seq(Seq(S)) /\ Len(b) = Len(q) - 1
      /\ (\A k \in 1 .. Len(b) : b[k] = h[k + 1]) /\ Head(h) = h[1]
    BY <1>2, <1>3, HeadTailProperties
<1>5. /\ a \in Seq(Seq(S)) /\ Len(a) = Len(t)
      /\ \A k \in 1 .. Len(t) : a[k] = Resampled(t[k])
    BY <1>1, ResamplesType
<1> HIDE DEF a, b
<1>6. \A k \in 1 .. Len(a) : a[k] = b[k]
    <2> SUFFICES ASSUME NEW k \in 1 .. Len(a) PROVE a[k] = b[k]
        OBVIOUS
    <2>1. Len(a) = Len(q) - 1 /\ Len(t) = Len(a) /\ Len(b) = Len(a) /\ Len(q) \in Nat
        BY <1>1, <1>4, <1>5
    <2>2. k \in 1 .. Len(t) /\ k \in 1 .. Len(b) /\ k + 1 \in 1 .. Len(q)
        BY <2>1
    <2> QED
        BY <1>1, <1>2, <1>4, <1>5, <2>2
<1>7. a = b
    BY <1>1, <1>4, <1>5, <1>6, SameSequence
<1>8. Head(h) = Resampled(Head(q))
    BY <1>1, <1>2, <1>4
<1> QED
    BY <1>3, <1>7, <1>8 DEF a, b, h, t

-----------------------------------------------------------------------------
\* All that a pipeline has of what it accepted, as NothingLost puts it together.
WholeOf(fs, buf, ch, q) ==
    FlattenSeq(Pcms(fs)) \o buf \o Resampled(ch) \o FlattenSeq(Resamples(q))

\* Its parts are sequences of samples.
LEMMA WholeTypes ==
    ASSUME NEW fs \in Seq(Frame), NEW ch \in Seq(Sample), NEW q \in Seq(Seq(Sample))
    PROVE  /\ FlattenSeq(Pcms(fs)) \in Seq(Sample)
           /\ Resampled(ch) \in Seq(Sample)
           /\ FlattenSeq(Resamples(q)) \in Seq(Sample)
<1>1. Pcms(fs) \in Seq(Seq(Sample))
    BY PcmsType
<1>2. Resamples(q) \in Seq(Seq(Sample))
    BY ResamplesType
<1>3. Resampled(ch) \in Seq(Sample)
    BY ResampledType
<1> QED
    BY <1>1, <1>2, <1>3, FlattenType

\* The next four say what a step of the pipeline does to it.
LEMMA WholePush ==
    ASSUME NEW fs \in Seq(Frame), NEW buf \in Seq(Sample), NEW ch \in Seq(Sample),
           NEW q \in Seq(Seq(Sample)), NEW c \in Seq(Sample)
    PROVE  WholeOf(fs, buf, ch, Append(q, c)) = WholeOf(fs, buf, ch, q) \o Resampled(c)
<1> DEFINE A == FlattenSeq(Pcms(fs))
           R == Resampled(ch)
           Q == FlattenSeq(Resamples(q))
           X == Resampled(c)
           P == A \o buf \o R
<1>1. /\ A \in Seq(Sample) /\ R \in Seq(Sample) /\ Q \in Seq(Sample)
      /\ X \in Seq(Sample)
    BY WholeTypes
<1>2. FlattenSeq(Resamples(Append(q, c))) = Q \o X
    <2> DEFINE rq == Resamples(q)
    <2>1. rq \in Seq(Seq(Sample))
        BY ResamplesType
    <2>2. Resamples(Append(q, c)) = Append(rq, X)
        BY ResamplesAppend
    <2> HIDE DEF X, rq
    <2>3. FlattenSeq(Append(rq, X)) = FlattenSeq(rq) \o X
        BY <1>1, <2>1, FlattenAppend
    <2> QED
        BY <2>2, <2>3 DEF rq
<1> HIDE DEF A, R, Q, X
<1>3. P \in Seq(Sample)
    BY <1>1, Concats
<1> HIDE DEF P
<1>4. P \o (Q \o X) = (P \o Q) \o X
    <2>1. Cat(P, Cat(Q, X)) = Cat(Cat(P, Q), X)
        BY <1>1, <1>3, CatAssociative
    <2> QED
        BY <2>1 DEF Cat
<1> QED
    BY <1>2, <1>4 DEF WholeOf, P, A, R, Q, X

LEMMA WholeTake ==
    ASSUME NEW fs \in Seq(Frame), NEW buf \in Seq(Sample),
           NEW q \in Seq(Seq(Sample)), q # <<>>
    PROVE  WholeOf(fs, buf, Head(q), Tail(q)) = WholeOf(fs, buf, <<>>, q)
<1> DEFINE A == FlattenSeq(Pcms(fs))
           R == Resampled(Head(q))
           Q == FlattenSeq(Resamples(Tail(q)))
           P == A \o buf
<1>0. Head(q) \in Seq(Sample) /\ Tail(q) \in Seq(Seq(Sample)) /\ <<>> \in Seq(Sample)
    BY HeadTailProperties
<1>1. A \in Seq(Sample) /\ R \in Seq(Sample) /\ Q \in Seq(Sample)
    BY <1>0, WholeTypes
<1>2. FlattenSeq(Resamples(q)) = R \o Q
    <2> DEFINE rq == Resamples(q)
    <2>1. rq \in Seq(Seq(Sample))
        BY ResamplesType
    <2>2. Head(rq) = R /\ Resamples(Tail(q)) = Tail(rq) /\ rq # <<>>
        BY ResamplesTail
    <2> HIDE DEF rq, R
    <2>3. FlattenSeq(rq) = Head(rq) \o FlattenSeq(Tail(rq))
        BY <2>1, <2>2, FlattenTail
    <2> QED
        BY <2>2, <2>3 DEF rq
<1>3. Resampled(<<>>) = <<>>
    BY <1>0, ResampledType
<1> HIDE DEF A, R, Q
<1>4. P \in Seq(Sample)
    BY <1>1, Concats
<1> HIDE DEF P
<1>5. (P \o R) \o Q = P \o (R \o Q)
    <2>1. Cat(P, Cat(R, Q)) = Cat(Cat(P, R), Q)
        BY <1>1, <1>4, CatAssociative
    <2> QED
        BY <2>1 DEF Cat
<1>6. P \o <<>> = P
    BY <1>4, ConcatEmptySeq
<1> QED
    BY <1>2, <1>3, <1>5, <1>6 DEF WholeOf, P, A, R, Q

LEMMA WholeAccumulate ==
    ASSUME NEW fs \in Seq(Frame), NEW buf \in Seq(Sample), NEW ch \in Seq(Sample),
           NEW q \in Seq(Seq(Sample))
    PROVE  WholeOf(fs, buf \o Resampled(ch), <<>>, q) = WholeOf(fs, buf, ch, q)
<1> DEFINE A == FlattenSeq(Pcms(fs))
           R == Resampled(ch)
           Q == FlattenSeq(Resamples(q))
<1>0. <<>> \in Seq(Sample)
    OBVIOUS
<1>1. A \in Seq(Sample) /\ R \in Seq(Sample) /\ Q \in Seq(Sample)
    BY WholeTypes
<1>2. Resampled(<<>>) = <<>>
    BY <1>0, ResampledType
<1> HIDE DEF A, R, Q
<1>3. A \o (buf \o R) = (A \o buf) \o R
    <2>1. Cat(A, Cat(buf, R)) = Cat(Cat(A, buf), R)
        BY <1>1, CatAssociative
    <2> QED
        BY <2>1 DEF Cat
<1>4. (A \o buf) \o R \in Seq(Sample)
    BY <1>1, Concats
<1>5. ((A \o buf) \o R) \o <<>> = (A \o buf) \o R
    BY <1>4, ConcatEmptySeq
<1>6. (A \o (buf \o R)) \o <<>> = (A \o buf) \o R
    BY <1>3, <1>5
<1> QED
    BY <1>2, <1>6 DEF WholeOf, A, R, Q

LEMMA WholeEncode ==
    ASSUME NEW fs \in Seq(Frame), NEW buf \in Seq(Sample), NEW ch \in Seq(Sample),
           NEW q \in Seq(Seq(Sample)), NEW ok \in BOOLEAN, Len(buf) >= FrameLen
    PROVE  LET x == [pcm |-> SubSeq(buf, 1, FrameLen), published |-> ok]
               rest == SubSeq(buf, FrameLen + 1, Len(buf))
           IN  /\ x \in Frame /\ rest \in Seq(Sample)
               /\ WholeOf(Append(fs, x), rest, ch, q) = WholeOf(fs, buf, ch, q)
<1> DEFINE first == SubSeq(buf, 1, FrameLen)
           rest == SubSeq(buf, FrameLen + 1, Len(buf))
           x == [pcm |-> first, published |-> ok]
           A == FlattenSeq(Pcms(fs))
<1>0. FrameLen \in Nat \ {0} /\ Len(buf) \in Nat
    BY PipelineAssumption
<1>1. A \in Seq(Sample)
    BY WholeTypes
<1>2. first \o rest = buf
    <2>1. 1 \in 1 .. Len(buf) + 1 /\ FrameLen \in 1 - 1 .. Len(buf)
          /\ Len(buf) \in FrameLen .. Len(buf)
        BY <1>0
    <2>2. first \o rest = SubSeq(buf, 1, Len(buf))
        BY <2>1, ConcatAdjacentSubSeq
    <2> QED
        BY <2>2, SubSeqFull
<1>3. first \in Seq(Sample) /\ rest \in Seq(Sample)
    <2>1. \A k \in 1 .. FrameLen : buf[k] \in Sample
        BY <1>0
    <2>2. \A k \in FrameLen + 1 .. Len(buf) : buf[k] \in Sample
        BY <1>0
    <2>3. 1 \in Int /\ FrameLen \in Int /\ FrameLen + 1 \in Int /\ Len(buf) \in Int
        BY <1>0
    <2> QED
        BY <2>1, <2>2, <2>3, SubSeqProperties
<1> HIDE DEF first, rest
<1>4. x \in Frame /\ x.pcm = first
    BY <1>3 DEF Frame
<1> HIDE DEF x
<1>5. FlattenSeq(Pcms(Append(fs, x))) = A \o first
    <2> DEFINE ps == Pcms(fs)
    <2>1. ps \in Seq(Seq(Sample))
        BY PcmsType
    <2>2. Pcms(Append(fs, x)) = Append(ps, first)
        BY <1>4, PcmsAppend
    <2> HIDE DEF ps
    <2>3. FlattenSeq(Append(ps, first)) = FlattenSeq(ps) \o first
        BY <1>3, <2>1, FlattenAppend
    <2> QED
        BY <2>2, <2>3 DEF ps
<1> HIDE DEF A
<1>6. (A \o first) \o rest = A \o buf
    <2>1. Cat(A, Cat(first, rest)) = Cat(Cat(A, first), rest)
        BY <1>1, <1>3, CatAssociative
    <2> QED
        BY <1>2, <2>1 DEF Cat
<1>7. WholeOf(Append(fs, x), rest, ch, q) = WholeOf(fs, buf, ch, q)
    BY <1>5, <1>6 DEF WholeOf, A
<1> QED
    BY <1>3, <1>4, <1>7 DEF x, first, rest

-----------------------------------------------------------------------------
(***************************************************************************)
(* One pipeline that is as it should be: the types, NothingLost and        *)
(* NoFrameHeldBack, and what these rest on: a chunk is in hand only        *)
(* between the select and p.mu, and Stop returns after the goroutine.      *)
(***************************************************************************)
Labels == {"unmade", "select", "taken", "processing", "exited"}

Good(q, ch, buf, fs, at, st, acc) ==
    /\ q \in Seq(Seq(Sample) \ {<<>>}) /\ Len(q) <= QueueSize
    /\ ch \in Seq(Sample) /\ buf \in Seq(Sample) /\ fs \in Seq(Frame)
    /\ at \in Labels /\ st \in {"no", "waiting", "done"}
    /\ acc \in Seq(Sample)
    /\ WholeOf(fs, buf, ch, q) = acc
    /\ at # "processing" => Len(buf) < FrameLen
    /\ at # "taken" => ch = <<>>
    /\ st = "done" => at = "exited"

OnPipes(f) == f = [i \in Pipes |-> f[i]]

PipeInv ==
    /\ OnPipes(queue) /\ OnPipes(taken) /\ OnPipes(pcmBuf) /\ OnPipes(frames)
    /\ OnPipes(loop) /\ OnPipes(stop) /\ OnPipes(accepted)
    /\ \A i \in Pipes : Good(queue[i], taken[i], pcmBuf[i], frames[i],
                             loop[i], stop[i], accepted[i])

\* The invariant, conjunct by conjunct.
LEMMA PipeInvShape ==
    ASSUME PipeInv
    PROVE  /\ queue \in [Pipes -> Seq(Seq(Sample) \ {<<>>})]
           /\ taken \in [Pipes -> Seq(Sample)]
           /\ pcmBuf \in [Pipes -> Seq(Sample)]
           /\ frames \in [Pipes -> Seq(Frame)]
           /\ loop \in [Pipes -> Labels]
           /\ stop \in [Pipes -> {"no", "waiting", "done"}]
           /\ accepted \in [Pipes -> Seq(Sample)]
           /\ \A i \in Pipes : Len(queue[i]) <= QueueSize
BY DEF PipeInv, OnPipes, Good

\* Audio in terms of one pipeline's state.
LEMMA AudioIs ==
    ASSUME NEW i \in Pipes
    PROVE  Audio(i) = WholeOf(frames[i], pcmBuf[i], taken[i], queue[i])
BY DEF Audio, WholeOf, Cut, Queued, Pcms, Resamples

\* The invariants of the runs follow.
LEMMA PipeInvSafe ==
    ASSUME PipeInv
    PROVE  /\ NothingLost /\ NoFrameHeldBack
           /\ produced \in [Sources -> Nat] => PipelineTypeOK
<1>1. NothingLost
    <2>1. \A i \in Pipes : Audio(i) = accepted[i]
        BY AudioIs DEF PipeInv, Good
    <2> QED
        BY <2>1 DEF NothingLost, Audio
<1>2. NoFrameHeldBack
    BY DEF NoFrameHeldBack, PipeInv, Good, MuFree
<1>3. produced \in [Sources -> Nat] => PipelineTypeOK
    BY PipeInvShape DEF PipelineTypeOK, Frame, Labels
<1> QED
    BY <1>1, <1>2, <1>3

Change(j, q, ch, buf, fs, at, st, acc) ==
    /\ queue' = [queue EXCEPT ![j] = q]
    /\ taken' = [taken EXCEPT ![j] = ch]
    /\ pcmBuf' = [pcmBuf EXCEPT ![j] = buf]
    /\ frames' = [frames EXCEPT ![j] = fs]
    /\ loop' = [loop EXCEPT ![j] = at]
    /\ stop' = [stop EXCEPT ![j] = st]
    /\ accepted' = [accepted EXCEPT ![j] = acc]

\* A step that touches one pipeline and leaves that good.
LEMMA Touches ==
    ASSUME PipeInv, NEW j \in Pipes, NEW q, NEW ch, NEW buf, NEW fs, NEW at,
           NEW st, NEW acc, Good(q, ch, buf, fs, at, st, acc),
           Change(j, q, ch, buf, fs, at, st, acc)
    PROVE  PipeInv'
<1>1. /\ OnPipes(queue)' /\ OnPipes(taken)' /\ OnPipes(pcmBuf)' /\ OnPipes(frames)'
      /\ OnPipes(loop)' /\ OnPipes(stop)' /\ OnPipes(accepted)'
    BY DEF PipeInv, OnPipes, Change
<1>2. ASSUME NEW i \in Pipes
      PROVE  Good(queue'[i], taken'[i], pcmBuf'[i], frames'[i], loop'[i],
                  stop'[i], accepted'[i])
    <2>1. CASE i = j
        <3>1. /\ queue'[j] = q /\ taken'[j] = ch /\ pcmBuf'[j] = buf
              /\ frames'[j] = fs /\ loop'[j] = at /\ stop'[j] = st
              /\ accepted'[j] = acc
            BY DEF PipeInv, OnPipes, Change
        <3> QED
            BY <2>1, <3>1
    <2>2. CASE i # j
        <3>1. /\ queue'[i] = queue[i] /\ taken'[i] = taken[i]
              /\ pcmBuf'[i] = pcmBuf[i] /\ frames'[i] = frames[i]
              /\ loop'[i] = loop[i] /\ stop'[i] = stop[i]
              /\ accepted'[i] = accepted[i]
            BY <2>2 DEF PipeInv, OnPipes, Change
        <3>2. Good(queue[i], taken[i], pcmBuf[i], frames[i], loop[i], stop[i],
                   accepted[i])
            BY DEF PipeInv
        <3> QED
            BY <3>1, <3>2
    <2> QED
        BY <2>1, <2>2
<1> QED
    BY <1>1, <1>2 DEF PipeInv

\* What a step leaves alone it could as well have assigned.
LEMMA LeftAlone ==
    ASSUME PipeInv, NEW j \in Pipes
    PROVE  /\ queue = [queue EXCEPT ![j] = queue[j]]
           /\ taken = [taken EXCEPT ![j] = taken[j]]
           /\ pcmBuf = [pcmBuf EXCEPT ![j] = pcmBuf[j]]
           /\ frames = [frames EXCEPT ![j] = frames[j]]
           /\ loop = [loop EXCEPT ![j] = loop[j]]
           /\ stop = [stop EXCEPT ![j] = stop[j]]
           /\ accepted = [accepted EXCEPT ![j] = accepted[j]]
BY DEF PipeInv, OnPipes

\* One pipeline of the invariant; its queue has sequences, none empty.
LEMMA GoodAt ==
    ASSUME PipeInv, NEW j \in Pipes
    PROVE  /\ Good(queue[j], taken[j], pcmBuf[j], frames[j], loop[j], stop[j], accepted[j])
           /\ queue[j] \in Seq(Seq(Sample))
<1>1. Good(queue[j], taken[j], pcmBuf[j], frames[j], loop[j], stop[j], accepted[j])
    BY DEF PipeInv
<1>2. queue[j] \in Seq(Seq(Sample) \ {<<>>})
    BY <1>1 DEF Good
<1>3. queue[j] \in Seq(Seq(Sample))
    BY <1>2, SeqMonotonic
<1> QED
    BY <1>1, <1>3

\* PushPCM, the steps of the goroutine and those of Stop.
LEMMA PushKeeps ==
    ASSUME PipeInv, NEW j \in Pipes, NEW c \in Seq(Sample), PushPCM(j, c)
    PROVE  PipeInv'
<1> DEFINE q == Append(queue[j], c)
           acc == accepted[j] \o Resampled(c)
<1>1. UNCHANGED <<taken, pcmBuf, frames, loop, stop>>
    BY DEF PushPCM
<1>2. CASE Accepts(j, c)
    <2>1. /\ queue' = [queue EXCEPT ![j] = q]
          /\ accepted' = [accepted EXCEPT ![j] = acc]
        BY <1>2 DEF PushPCM
    <2>2. /\ Good(queue[j], taken[j], pcmBuf[j], frames[j], loop[j], stop[j], accepted[j])
          /\ queue[j] \in Seq(Seq(Sample))
        BY GoodAt
    <2>3. WholeOf(frames[j], pcmBuf[j], taken[j], q) = acc
        <3>1. /\ frames[j] \in Seq(Frame) /\ pcmBuf[j] \in Seq(Sample)
              /\ taken[j] \in Seq(Sample)
              /\ WholeOf(frames[j], pcmBuf[j], taken[j], queue[j]) = accepted[j]
            BY <2>2 DEF Good
        <3>2. WholeOf(frames[j], pcmBuf[j], taken[j], q)
                = WholeOf(frames[j], pcmBuf[j], taken[j], queue[j]) \o Resampled(c)
            BY <2>2, <3>1, WholePush
        <3> QED
            BY <3>1, <3>2
    <2>4. acc \in Seq(Sample)
        BY <2>2, ResampledType, Concats DEF Good
    <2>5. q \in Seq(Seq(Sample) \ {<<>>}) /\ Len(q) <= QueueSize
        <3>1. c \in Seq(Sample) \ {<<>>} /\ Len(queue[j]) < QueueSize
            BY <1>2 DEF Accepts
        <3>2. queue[j] \in Seq(Seq(Sample) \ {<<>>})
            BY <2>2 DEF Good
        <3>3. q \in Seq(Seq(Sample) \ {<<>>}) /\ Len(q) = Len(queue[j]) + 1
            BY <3>1, <3>2, AppendProperties
        <3>4. Len(queue[j]) \in Nat /\ QueueSize \in Nat
            BY <3>2, PipelineAssumption
        <3> HIDE DEF q
        <3> QED
            BY <3>1, <3>3, <3>4
    <2> HIDE DEF q, acc
    <2>6. Good(q, taken[j], pcmBuf[j], frames[j], loop[j], stop[j], acc)
        BY <2>2, <2>3, <2>4, <2>5 DEF Good
    <2>7. Change(j, q, taken[j], pcmBuf[j], frames[j], loop[j], stop[j], acc)
        BY <1>1, <2>1, LeftAlone DEF Change
    <2> QED
        BY <2>6, <2>7, Touches
<1>3. CASE ~ Accepts(j, c)
    <2>1. UNCHANGED <<queue, accepted>>
        BY <1>3 DEF PushPCM
    <2> QED
        BY <1>1, <2>1 DEF PipeInv, OnPipes
<1> QED
    BY <1>2, <1>3

LEMMA TakeKeeps ==
    ASSUME PipeInv, NEW j \in Pipes, Take(j)
    PROVE  PipeInv'
<1>1. /\ Good(queue[j], taken[j], pcmBuf[j], frames[j], loop[j], stop[j], accepted[j])
      /\ queue[j] \in Seq(Seq(Sample)) /\ queue[j] # <<>> /\ loop[j] = "select"
    BY GoodAt DEF Take
<1> DEFINE h == Head(queue[j])
           t == Tail(queue[j])
<1>2. /\ queue' = [queue EXCEPT ![j] = t] /\ taken' = [taken EXCEPT ![j] = h]
      /\ loop' = [loop EXCEPT ![j] = "taken"]
      /\ UNCHANGED <<pcmBuf, frames, stop, accepted>>
    BY DEF Take, Goto, Received, Remaining
<1>3. WholeOf(frames[j], pcmBuf[j], h, t) = accepted[j]
    BY <1>1, WholeTake DEF Good
<1>4. /\ t \in Seq(Seq(Sample) \ {<<>>}) /\ Len(t) <= QueueSize /\ h \in Seq(Sample)
    <2>1. queue[j] \in Seq(Seq(Sample) \ {<<>>}) /\ Len(queue[j]) <= QueueSize
        BY <1>1 DEF Good
    <2>2. /\ h \in Seq(Sample) \ {<<>>} /\ t \in Seq(Seq(Sample) \ {<<>>})
          /\ Len(t) = Len(queue[j]) - 1
        BY <1>1, <2>1, HeadTailProperties
    <2>3. Len(queue[j]) \in Nat /\ QueueSize \in Nat
        BY <2>1, PipelineAssumption
    <2> HIDE DEF h, t
    <2> QED
        BY <2>1, <2>2, <2>3
<1> HIDE DEF h, t
<1>5. Good(t, h, pcmBuf[j], frames[j], "taken", stop[j], accepted[j])
    BY <1>1, <1>3, <1>4 DEF Good, Labels
<1>6. Change(j, t, h, pcmBuf[j], frames[j], "taken", stop[j], accepted[j])
    BY <1>2, LeftAlone DEF Change
<1> QED
    BY <1>5, <1>6, Touches

LEMMA AccumulateKeeps ==
    ASSUME PipeInv, NEW j \in Pipes, Accumulate(j)
    PROVE  PipeInv'
<1> DEFINE buf == pcmBuf[j] \o Resampled(taken[j])
<1>1. /\ Good(queue[j], taken[j], pcmBuf[j], frames[j], loop[j], stop[j], accepted[j])
      /\ queue[j] \in Seq(Seq(Sample)) /\ loop[j] = "taken"
    BY GoodAt DEF Accumulate
<1>2. /\ pcmBuf' = [pcmBuf EXCEPT ![j] = buf] /\ taken' = [taken EXCEPT ![j] = <<>>]
      /\ loop' = [loop EXCEPT ![j] = "processing"]
      /\ UNCHANGED <<queue, frames, stop, accepted>>
    BY DEF Accumulate, Goto
<1>3. WholeOf(frames[j], buf, <<>>, queue[j]) = accepted[j]
    BY <1>1, WholeAccumulate DEF Good
<1>4. buf \in Seq(Sample) /\ <<>> \in Seq(Sample)
    BY <1>1, ResampledType, Concats DEF Good
<1> HIDE DEF buf
<1>5. Good(queue[j], <<>>, buf, frames[j], "processing", stop[j], accepted[j])
    BY <1>1, <1>3, <1>4 DEF Good, Labels
<1>6. Change(j, queue[j], <<>>, buf, frames[j], "processing", stop[j], accepted[j])
    BY <1>2, LeftAlone DEF Change
<1> QED
    BY <1>5, <1>6, Touches

LEMMA EncodeKeeps ==
    ASSUME PipeInv, NEW j \in Pipes, NEW ok \in BOOLEAN, Encode(j, ok)
    PROVE  PipeInv'
<1> DEFINE x == [pcm |-> SubSeq(pcmBuf[j], 1, FrameLen), published |-> ok]
           rest == SubSeq(pcmBuf[j], FrameLen + 1, Len(pcmBuf[j]))
           fs == Append(frames[j], x)
<1>1. /\ Good(queue[j], taken[j], pcmBuf[j], frames[j], loop[j], stop[j], accepted[j])
      /\ queue[j] \in Seq(Seq(Sample)) /\ loop[j] = "processing"
      /\ Len(pcmBuf[j]) >= FrameLen
    BY GoodAt DEF Encode
<1>2. /\ frames' = [frames EXCEPT ![j] = fs] /\ pcmBuf' = [pcmBuf EXCEPT ![j] = rest]
      /\ UNCHANGED <<queue, taken, loop, stop, accepted>>
    BY DEF Encode, Advanced
<1>3. /\ x \in Frame /\ rest \in Seq(Sample)
      /\ WholeOf(fs, rest, taken[j], queue[j]) = accepted[j]
    <2>1. /\ frames[j] \in Seq(Frame) /\ pcmBuf[j] \in Seq(Sample)
          /\ taken[j] \in Seq(Sample)
          /\ WholeOf(frames[j], pcmBuf[j], taken[j], queue[j]) = accepted[j]
        BY <1>1 DEF Good
    <2>2. /\ x \in Frame /\ rest \in Seq(Sample)
          /\ WholeOf(fs, rest, taken[j], queue[j])
               = WholeOf(frames[j], pcmBuf[j], taken[j], queue[j])
        BY <1>1, <2>1, WholeEncode
    <2> QED
        BY <2>1, <2>2
<1>4. fs \in Seq(Frame)
    BY <1>1, <1>3, AppendProperties DEF Good
<1> HIDE DEF x, rest, fs
<1>5. Good(queue[j], taken[j], rest, fs, loop[j], stop[j], accepted[j])
    BY <1>1, <1>3, <1>4 DEF Good
<1>6. Change(j, queue[j], taken[j], rest, fs, loop[j], stop[j], accepted[j])
    BY <1>2, LeftAlone DEF Change
<1> QED
    BY <1>5, <1>6, Touches

\* The goroutine, or Stop, moves on and nothing else changes.
LEMMA MoveKeeps ==
    ASSUME PipeInv, NEW j \in Pipes, NEW at \in Labels, NEW st \in {"no", "waiting", "done"},
           at # "processing" => Len(pcmBuf[j]) < FrameLen,
           at # "taken" => taken[j] = <<>>,
           st = "done" => at = "exited",
           loop' = [loop EXCEPT ![j] = at], stop' = [stop EXCEPT ![j] = st],
           UNCHANGED <<queue, taken, pcmBuf, frames, accepted>>
    PROVE  PipeInv'
<1>1. Good(queue[j], taken[j], pcmBuf[j], frames[j], at, st, accepted[j])
    BY GoodAt DEF Good
<1>2. Change(j, queue[j], taken[j], pcmBuf[j], frames[j], at, st, accepted[j])
    BY LeftAlone DEF Change
<1> QED
    BY <1>1, <1>2, Touches

LEMMA ReleaseKeeps ==
    ASSUME PipeInv, NEW j \in Pipes, Release(j)
    PROVE  PipeInv'
<1>1. Good(queue[j], taken[j], pcmBuf[j], frames[j], loop[j], stop[j], accepted[j])
    BY GoodAt
<1>2. loop[j] = "processing" /\ Len(pcmBuf[j]) < FrameLen
    BY DEF Release, Drained
<1>3. /\ loop' = [loop EXCEPT ![j] = "select"] /\ stop' = [stop EXCEPT ![j] = stop[j]]
      /\ UNCHANGED <<queue, taken, pcmBuf, frames, accepted>>
    BY LeftAlone DEF Release, Goto
<1>4. /\ "select" \in Labels /\ stop[j] \in {"no", "waiting", "done"}
      /\ taken[j] = <<>> /\ stop[j] # "done"
    BY <1>1, <1>2 DEF Good, Labels
<1> QED
    BY <1>2, <1>3, <1>4, MoveKeeps

LEMMA ExitKeeps ==
    ASSUME PipeInv, NEW j \in Pipes, Exit(j)
    PROVE  PipeInv'
<1>1. Good(queue[j], taken[j], pcmBuf[j], frames[j], loop[j], stop[j], accepted[j])
    BY GoodAt
<1>2. loop[j] = "select"
    BY DEF Exit
<1>3. /\ loop' = [loop EXCEPT ![j] = "exited"] /\ stop' = [stop EXCEPT ![j] = stop[j]]
      /\ UNCHANGED <<queue, taken, pcmBuf, frames, accepted>>
    BY LeftAlone DEF Exit, Goto
<1>4. /\ "exited" \in Labels /\ stop[j] \in {"no", "waiting", "done"}
      /\ taken[j] = <<>> /\ Len(pcmBuf[j]) < FrameLen
    BY <1>1, <1>2 DEF Good, Labels
<1> QED
    BY <1>3, <1>4, MoveKeeps

LEMMA RunKeeps ==
    ASSUME PipeInv, NEW j \in Pipes, Run(j)
    PROVE  PipeInv'
BY TakeKeeps, AccumulateKeeps, ReleaseKeeps, ExitKeeps, EncodeKeeps DEF Run

LEMMA StopKeeps ==
    ASSUME PipeInv, NEW j \in Pipes, StopCancel(j) \/ StopWait(j)
    PROVE  PipeInv'
<1>1. Good(queue[j], taken[j], pcmBuf[j], frames[j], loop[j], stop[j], accepted[j])
    BY GoodAt
<1>2. loop' = [loop EXCEPT ![j] = loop[j]]
    BY LeftAlone DEF StopCancel, StopWait
<1>3. UNCHANGED <<queue, taken, pcmBuf, frames, accepted>>
    BY DEF StopCancel, StopWait
<1>4. /\ loop[j] \in Labels
      /\ loop[j] # "processing" => Len(pcmBuf[j]) < FrameLen
      /\ loop[j] # "taken" => taken[j] = <<>>
    BY <1>1 DEF Good
<1>5. CASE StopCancel(j)
    <2>1. stop' = [stop EXCEPT ![j] = "waiting"]
        BY <1>5 DEF StopCancel
    <2> QED
        BY <1>2, <1>3, <1>4, <2>1, MoveKeeps
<1>6. CASE StopWait(j)
    <2>1. stop' = [stop EXCEPT ![j] = "done"] /\ loop[j] = "exited"
        BY <1>6 DEF StopWait, Returned
    <2> QED
        BY <1>2, <1>3, <1>4, <2>1, MoveKeeps
<1> QED
    BY <1>5, <1>6

\* A pipeline that is made anew, or not yet, is good.
LEMMA PipeInvInit ==
    ASSUME PipelineInit, NEW at \in {"select", "unmade"}, loop = Each(at)
    PROVE  PipeInv
<1>1. WholeOf(<<>>, <<>>, <<>>, <<>>) = <<>>
    <2>1. <<>> \in Seq(Sample) /\ <<>> \in Seq(Seq(Sample))
        OBVIOUS
    <2>2. Resampled(<<>>) = <<>>
        BY <2>1, ResampledType
    <2>3. Pcms(<<>>) = <<>> /\ Resamples(<<>>) = <<>>
        BY DEF Pcms, Resamples
    <2>4. FlattenSeq(<<>>) = <<>>
        BY <2>1, FlattenIs
    <2>5. <<>> \o <<>> = <<>>
        BY <2>1, ConcatEmptySeq
    <2> QED
        BY <2>2, <2>3, <2>4, <2>5 DEF WholeOf
<1>2. Good(<<>>, <<>>, <<>>, <<>>, at, "no", <<>>)
    BY <1>1, PipelineAssumption DEF Good, Labels
<1> QED
    BY <1>2 DEF PipelineInit, PipeInv, OnPipes, Each

Counted == produced \in [Sources -> Nat]

LEMMA CountedInit ==
    ASSUME PipelineInit
    PROVE  Counted
BY PipelineAssumption DEF PipelineInit, Counted

\* The audio that a source produces next.
LEMMA ChunkType ==
    ASSUME Counted, NEW s \in Sources, NEW n \in 0 .. MaxChunk, Produce(s, n)
    PROVE  Counted' /\ Chunk(s, n) \in Seq(Sample)
<1>1. produced[s] \in Nat /\ n \in Nat
    BY PipelineAssumption DEF Counted
<1>2. Counted'
    <2>1. produced' = [produced EXCEPT ![s] = @ + n]
        BY Zenon DEF Produce
    <2> QED
        BY <1>1, <2>1 DEF Counted
<1>3. \A k \in 1 .. n : <<s, produced[s] + k>> \in Sample
    BY <1>1 DEF Sample
<1> QED
    BY <1>1, <1>2, <1>3 DEF Chunk

-----------------------------------------------------------------------------
\* The shared pipeline.
LEMMA PipelineInductive ==
    /\ Init => PipeInv /\ Counted
    /\ PipeInv /\ Counted /\ [Next]_vars => PipeInv' /\ Counted'
<1>1. Init => PipeInv /\ Counted
    BY PipeInvInit, CountedInit DEF Init
<1>2. ASSUME PipeInv, Counted, [Next]_vars
      PROVE  PipeInv' /\ Counted'
    <2>1. CASE UNCHANGED vars
        BY <1>2, <2>1 DEF vars, pipeVars, PipeInv, OnPipes, Counted
    <2>2. ASSUME NEW i \in Pipes, NEW s \in Sources, Ingest(i, s)
          PROVE  PipeInv' /\ Counted'
        <3>1. PICK n \in 0 .. MaxChunk : Produce(s, n) /\ PushPCM(i, Chunk(s, n))
            BY <2>2 DEF Ingest
        <3>2. Counted' /\ Chunk(s, n) \in Seq(Sample)
            BY <1>2, <3>1, ChunkType
        <3> QED
            BY <1>2, <3>1, <3>2, PushKeeps
    <2>3. ASSUME NEW i \in Pipes, Run(i) \/ StopCancel(i) \/ StopWait(i),
                 UNCHANGED produced
          PROVE  PipeInv' /\ Counted'
        <3>1. PipeInv'
            BY <1>2, <2>3, RunKeeps, StopKeeps
        <3> QED
            BY <1>2, <2>3, <3>1 DEF Counted
    <2> QED
        BY <1>2, <2>1, <2>2, <2>3 DEF Next
<1> QED
    BY <1>1, <1>2

LEMMA PipelineAlways == Spec => [](PipeInv /\ Counted)
BY PipelineInductive, PTL DEF Spec

\* The state of the shared pipeline keeps its types: no chunk, buffer or frame
\* gets anything that no source produced, and the queue never has more than
\* its capacity.
THEOREM PipelineTyped == Spec => []PipelineTypeOK
<1>1. PipeInv /\ Counted => PipelineTypeOK
    BY PipeInvSafe DEF Counted
<1> QED
    BY <1>1, PipelineAlways, PTL

\* What PushPCM accepts is in the frames, the buffer, the chunk in hand and
\* the queue, all of it and in order, for any rates, frame length and queue.
THEOREM NothingIsLost == Spec => []NothingLost
<1>1. PipeInv => NothingLost
    BY PipeInvSafe
<1> QED
    BY <1>1, PipelineAlways, PTL

\* processChunk leaves less than a frame behind.
THEOREM NoFrameStays == Spec => []NoFrameHeldBack
<1>1. PipeInv => NoFrameHeldBack
    BY PipeInvSafe
<1> QED
    BY <1>1, PipelineAlways, PTL

\* Only a goroutine that is processing cuts a frame.
LEMMA FramesOf ==
    ASSUME PipeInv, NEW i \in Pipes, NEW j \in Pipes, Run(j), stop[i] = "done"
    PROVE  UNCHANGED frames[i]
<1>1. loop[i] = "exited"
    BY DEF PipeInv, Good
<1>2. CASE \E ok \in BOOLEAN : Encode(j, ok)
    BY <1>1, <1>2 DEF Encode, PipeInv, OnPipes
<1>3. CASE Take(j) \/ Accumulate(j) \/ Release(j) \/ Exit(j)
    BY <1>3 DEF Take, Accumulate, Release, Exit
<1> QED
    BY <1>2, <1>3 DEF Run

\* Once Stop has returned, its wg.Wait behind it, no frame is published.
THEOREM StoppedStaysSilent == Spec => StoppedIsSilent
<1>1. ASSUME PipeInv, [Next]_vars, NEW i \in Pipes, stop[i] = "done"
      PROVE  UNCHANGED frames[i]
    <2>1. CASE UNCHANGED vars
        BY <2>1 DEF vars, pipeVars
    <2>2. ASSUME NEW j \in Pipes, NEW s \in Sources, Ingest(j, s)
          PROVE  UNCHANGED frames[i]
        BY <2>2 DEF Ingest, PushPCM
    <2>3. ASSUME NEW j \in Pipes, StopCancel(j) \/ StopWait(j)
          PROVE  UNCHANGED frames[i]
        BY <2>3 DEF StopCancel, StopWait
    <2> QED
        BY <1>1, <2>1, <2>2, <2>3, FramesOf DEF Next
<1>2. PipeInv /\ [Next]_vars => [\A i \in Pipes : stop[i] = "done" => UNCHANGED frames[i]]_vars
    BY <1>1
<1> QED
    BY <1>2, PipelineAlways, PTL DEF Spec, StoppedIsSilent

-----------------------------------------------------------------------------
(***************************************************************************)
(* The session router.                                                     *)
(***************************************************************************)

\* The handlers' and the router's variables have their types, and a handler
\* has a chunk and a pipeline only from reading the one to pushing it.
Handlers ==
    /\ sessionId \in URLs
    /\ conn \in [Sources -> {"new", "loop", "read", "route", "push", "gone"}]
    /\ chunk \in [Sources -> Seq(Sample)]
    /\ target \in [Sources -> Pipes \cup {NoPipe}]
    /\ workers \in [Keys -> Pipes \cup {NoPipe}]
    /\ adapter \in {"running", "stopped"}
    /\ close \in {"no", "stopping", "done"}
    /\ \A c \in Sources :
        /\ conn[c] = "push" <=> target[c] # NoPipe
        /\ conn[c] \notin {"route", "push"} => chunk[c] = <<>>

\* Audio of connection c is in pipeline i, or about to be pushed to it.
Reaches(c, i) ==
    \/ target[c] = i
    \/ \E a \in DOMAIN accepted[i] : accepted[i][a][1] = c

\* A pipeline is one call's, and the router's map agrees.
Apart ==
    /\ \A i \in Pipes : \A c, d \in Sources :
        Reaches(c, i) /\ Reaches(d, i) => Key(c) = Key(d)
    /\ \A i \in Pipes, c \in Sources, k \in Keys :
        Reaches(c, i) /\ workers[k] = i => Key(c) = k
    /\ \A i \in Pipes : \A k, l \in Keys :
        workers[k] = i /\ workers[l] = i => k = l

\* Nothing knows a pipeline before it is made, and the map knows all that run.
Live ==
    \A i \in Pipes :
        /\ loop[i] = "unmade" =>
            /\ accepted[i] = <<>>
            /\ \A c \in Sources : target[c] # i
            /\ \A k \in Keys : workers[k] # i
        /\ loop[i] \notin {"unmade", "exited"} => \E k \in Keys : workers[k] = i

\* The chunk in hand is the last that the connection has produced.
Newest ==
    \A c \in Sources : \A k \in 1 .. Len(chunk[c]) :
        chunk[c][k] = <<c, produced[c] - Len(chunk[c]) + k>>

\* Sequence s has no sample of connection c after number p[c].
UpTo(s, c, n) == \A a \in 1 .. Len(s) : s[a][1] = c => s[a][2] <= n

InOrder(s) ==
    \A a, b \in 1 .. Len(s) :
        a < b /\ s[a][1] = s[b][1] =>
            s[a][2] <= s[b][2] /\ (OutRate <= InRate => s[a][2] < s[b][2])

Ordered ==
    \A i \in Pipes :
        /\ InOrder(accepted[i])
        /\ \A c \in Sources : UpTo(accepted[i], c, produced[c] - Len(chunk[c]))

RouterInv ==
    /\ PipeInv /\ Counted /\ Handlers /\ Apart /\ Live /\ Newest /\ Ordered

\* A connection's call is one of the keys of the map.
LEMMA KeyType ==
    ASSUME Handlers, NEW c \in Sources
    PROVE  Key(c) \in Keys
BY RouterAssumption DEF Handlers, Key, Keys

\* The invariants of the runs follow.
LEMMA RouterInvSafe ==
    ASSUME RouterInv
    PROVE  RouterTypeOK /\ SessionsIsolated /\ OneWorkerPerSession /\ ConnectionInOrder
<1>1. PipelineTypeOK
    BY PipeInvSafe DEF RouterInv, Counted
<1>2. RouterTypeOK
    <2>1. \A c \in Sources : target[c] # NoPipe => loop[target[c]] # "unmade"
        BY DEF RouterInv, Handlers, Live
    <2> QED
        BY <1>1, <2>1 DEF RouterTypeOK, RouterInv, Handlers
<1>3. \A i \in Pipes : Audio(i) = accepted[i] /\ accepted[i] \in Seq(Sample)
    BY AudioIs DEF RouterInv, PipeInv, Good
<1>4. ASSUME NEW i \in Pipes, NEW c \in Heard(i)
      PROVE  c \in Sources /\ Reaches(c, i)
    <2>1. PICK x \in ToSet(accepted[i]) : c = x[1]
        BY <1>3, <1>4 DEF Heard
    <2>2. PICK a \in DOMAIN accepted[i] : x = accepted[i][a]
        BY <2>1 DEF ToSet
    <2>3. accepted[i][a] \in Sample
        BY <1>3, <2>2
    <2>4. c \in Sources
        BY <2>1, <2>2, <2>3 DEF Sample
    <2> QED
        BY <2>1, <2>2, <2>4 DEF Reaches
<1>5. SessionsIsolated
    <2> SUFFICES ASSUME NEW i \in Pipes, NEW c \in Heard(i), NEW d \in Heard(i)
                 PROVE  SameCall(c, d)
        BY DEF SessionsIsolated
    <2>1. Key(c) = Key(d)
        BY <1>4 DEF RouterInv, Apart
    <2> QED
        BY <2>1 DEF Key, SameCall
<1>6. OneWorkerPerSession
    <2> SUFFICES ASSUME NEW i \in Pipes, NEW j \in Pipes,
                        loop[i] \notin {"unmade", "exited"},
                        loop[j] \notin {"unmade", "exited"},
                        NEW c \in Heard(i), NEW d \in Heard(j), Key(c) = Key(d)
                 PROVE  i = j
        BY DEF OneWorkerPerSession
    <2>1. PICK k \in Keys : workers[k] = i
        BY DEF RouterInv, Live
    <2>2. PICK l \in Keys : workers[l] = j
        BY DEF RouterInv, Live
    <2>3. Key(c) = k /\ Key(d) = l
        BY <1>4, <2>1, <2>2 DEF RouterInv, Apart
    <2> QED
        BY <2>1, <2>2, <2>3
<1>7. ConnectionInOrder
    <2> SUFFICES ASSUME NEW i \in Pipes, NEW a \in DOMAIN accepted[i],
                        NEW b \in DOMAIN accepted[i], a < b,
                        accepted[i][a][1] = accepted[i][b][1]
                 PROVE  /\ accepted[i][a][2] <= accepted[i][b][2]
                        /\ OutRate <= InRate => accepted[i][a][2] < accepted[i][b][2]
        BY <1>3 DEF ConnectionInOrder
    <2>1. a \in 1 .. Len(accepted[i]) /\ b \in 1 .. Len(accepted[i])
        BY <1>3
    <2> QED
        BY <2>1 DEF RouterInv, Ordered, InOrder
<1> QED
    BY <1>2, <1>5, <1>6, <1>7

\* The invariant holds at first.
LEMMA RouterInvInit ==
    ASSUME RouterInit
    PROVE  RouterInv
<1>1. PipeInv /\ Counted
    BY PipeInvInit, CountedInit DEF RouterInit
<1>2. Handlers
    BY DEF RouterInit, Handlers
<1>3. Live
    BY RouterAssumption DEF RouterInit, PipelineInit, Live, Each
<1>4. Apart
    BY RouterAssumption DEF RouterInit, PipelineInit, Apart, Reaches, Each
<1>5. Newest
    BY DEF RouterInit, Newest
<1>6. Ordered
    BY DEF RouterInit, PipelineInit, Ordered, InOrder, UpTo, Each
<1> QED
    BY <1>1, <1>2, <1>3, <1>4, <1>5, <1>6 DEF RouterInv

\* Later output samples are named after later input samples, or after the
\* same one when the resampler makes several of one.
LEMMA ResampledLater ==
    ASSUME NEW k \in Nat \ {0}, NEW l \in Nat \ {0}, k < l
    PROVE  /\ ((k - 1) * InRate) \div OutRate <= ((l - 1) * InRate) \div OutRate
           /\ OutRate <= InRate =>
                ((k - 1) * InRate) \div OutRate < ((l - 1) * InRate) \div OutRate
<1> DEFINE a == (k - 1) * InRate
           b == (l - 1) * InRate
<1>0. InRate \in Nat \ {0} /\ OutRate \in Nat \ {0}
    BY PipelineAssumption
<1>1. a \in Nat /\ b \in Nat
    BY <1>0
<1>2. a + InRate <= b
    <2>1. a + InRate = k * InRate
        BY <1>0
    <2>2. k * InRate <= (l - 1) * InRate
        BY <1>0, MulMono
    <2> QED
        BY <2>1, <2>2
<1> HIDE DEF a, b
<1>3. a <= b /\ (OutRate <= InRate => a + OutRate <= b)
    BY <1>0, <1>1, <1>2
<1>4. a \div OutRate <= b \div OutRate
    BY <1>0, <1>1, <1>3, DivMono
<1>5. OutRate <= InRate => a \div OutRate < b \div OutRate
    BY <1>0, <1>1, <1>3, DivStep
<1> QED
    BY <1>4, <1>5 DEF a, b

\* A chunk of samples m + 1, m + 2, ... of connection c, resampled.
LEMMA ResampledOrder ==
    ASSUME NEW c, NEW m \in Int, NEW ch \in Seq(Sample),
           \A k \in 1 .. Len(ch) : ch[k] = <<c, m + k>>
    PROVE  /\ InOrder(Resampled(ch))
           /\ \A a \in 1 .. Len(Resampled(ch)) :
                /\ Resampled(ch)[a][1] = c
                /\ m < Resampled(ch)[a][2] /\ Resampled(ch)[a][2] <= m + Len(ch)
<1> DEFINE r == Resampled(ch)
           n == (Len(ch) * OutRate) \div InRate
           Ix(k) == ((k - 1) * InRate) \div OutRate
<1>0. InRate \in Nat \ {0} /\ OutRate \in Nat \ {0} /\ Len(ch) \in Nat
    BY PipelineAssumption
<1>1. n \in Nat
    <2>1. Len(ch) * OutRate \in Nat
        BY <1>0
    <2> QED
        BY <1>0, <2>1, DivBounds
<1>2. r = [k \in 1 .. n |-> ch[1 + Ix(k)]]
    BY DEF Resampled
<1>3. \A k \in 1 .. n : 1 + Ix(k) \in 1 .. Len(ch)
    BY <1>0, ResampledIndex
<1>4. \A k, l \in 1 .. n :
        k < l => Ix(k) <= Ix(l) /\ (OutRate <= InRate => Ix(k) < Ix(l))
    <2> SUFFICES ASSUME NEW k \in 1 .. n, NEW l \in 1 .. n, k < l
                 PROVE  Ix(k) <= Ix(l) /\ (OutRate <= InRate => Ix(k) < Ix(l))
        OBVIOUS
    <2>1. k \in Nat \ {0} /\ l \in Nat \ {0}
        BY <1>1
    <2> QED
        BY <2>1, ResampledLater
<1> HIDE DEF n, Ix, r
<1>5. Len(r) = n
    BY <1>1, <1>2
<1>6. ASSUME NEW k \in 1 .. n
      PROVE  r[k] = <<c, m + (1 + Ix(k))>> /\ Ix(k) \in Int /\ 1 + Ix(k) <= Len(ch)
             /\ 1 + Ix(k) >= 1
    <2>1. 1 + Ix(k) \in 1 .. Len(ch)
        BY <1>3
    <2>2. Ix(k) \in Int
        <3>1. (k - 1) * InRate \in Nat
            BY <1>0, <1>1
        <3> QED
            BY <1>0, <3>1, DivBounds DEF Ix
    <2>3. r[k] = ch[1 + Ix(k)]
        BY <1>2
    <2> QED
        BY <1>0, <2>1, <2>2, <2>3
<1>7. InOrder(r)
    BY <1>4, <1>5, <1>6 DEF InOrder
<1>8. \A a \in 1 .. Len(r) : r[a][1] = c /\ m < r[a][2] /\ r[a][2] <= m + Len(ch)
    BY <1>0, <1>5, <1>6
<1> QED
    BY <1>7, <1>8 DEF r

\* What is put behind a sequence in order and is later keeps it in order.
LEMMA OrderExtends ==
    ASSUME NEW s \in Seq(Sample), NEW r \in Seq(Sample), NEW c, NEW m \in Int,
           InOrder(s), InOrder(r), UpTo(s, c, m),
           \A a \in 1 .. Len(r) : r[a][1] = c /\ m < r[a][2]
    PROVE  InOrder(s \o r)
<1> DEFINE t == s \o r
<1>1. /\ Len(s) \in Nat /\ Len(r) \in Nat /\ Len(t) = Len(s) + Len(r)
      /\ \A a \in 1 .. Len(t) : t[a] = IF a <= Len(s) THEN s[a] ELSE r[a - Len(s)]
    BY ConcatProperties
<1>2. /\ \A a \in 1 .. Len(s) : s[a][2] \in Nat
      /\ \A a \in 1 .. Len(r) : r[a][2] \in Nat
    <2>1. \A a \in 1 .. Len(s) : s[a] \in Sample
        OBVIOUS
    <2>2. \A a \in 1 .. Len(r) : r[a] \in Sample
        OBVIOUS
    <2> QED
        BY <2>1, <2>2 DEF Sample
<1> HIDE DEF t
<1>3. ASSUME NEW a \in 1 .. Len(t), NEW b \in 1 .. Len(t), a < b, t[a][1] = t[b][1]
      PROVE  t[a][2] <= t[b][2] /\ (OutRate <= InRate => t[a][2] < t[b][2])
    <2>1. CASE b <= Len(s)
        <3>1. a \in 1 .. Len(s) /\ b \in 1 .. Len(s) /\ t[a] = s[a] /\ t[b] = s[b]
            BY <1>1, <1>3, <2>1
        <3> QED
            BY <1>3, <3>1 DEF InOrder
    <2>2. CASE a <= Len(s) /\ b > Len(s)
        <3>1. a \in 1 .. Len(s) /\ b - Len(s) \in 1 .. Len(r)
              /\ t[a] = s[a] /\ t[b] = r[b - Len(s)]
            BY <1>1, <2>2
        <3>2. s[a][2] <= m /\ m < r[b - Len(s)][2]
            BY <1>3, <3>1 DEF UpTo
        <3> QED
            BY <1>2, <3>1, <3>2
    <2>3. CASE a > Len(s)
        <3>1. a - Len(s) \in 1 .. Len(r) /\ b - Len(s) \in 1 .. Len(r)
              /\ a - Len(s) < b - Len(s)
              /\ t[a] = r[a - Len(s)] /\ t[b] = r[b - Len(s)]
            BY <1>1, <1>3, <2>3
        <3> QED
            BY <1>3, <3>1 DEF InOrder
    <2> QED
        BY <1>1, <2>1, <2>2, <2>3
<1> QED
    BY <1>3 DEF InOrder, t

\* What the numbers are bounded by, extended and raised.
LEMMA UpToExtends ==
    ASSUME NEW s \in Seq(Sample), NEW r \in Seq(Sample), NEW c, NEW n \in Int,
           UpTo(s, c, n), UpTo(r, c, n)
    PROVE  UpTo(s \o r, c, n)
<1> DEFINE t == s \o r
<1>1. /\ Len(s) \in Nat /\ Len(r) \in Nat /\ Len(t) = Len(s) + Len(r)
      /\ \A a \in 1 .. Len(t) : t[a] = IF a <= Len(s) THEN s[a] ELSE r[a - Len(s)]
    BY ConcatProperties
<1> HIDE DEF t
<1>2. ASSUME NEW a \in 1 .. Len(t), t[a][1] = c
      PROVE  t[a][2] <= n
    <2>1. CASE a <= Len(s)
        <3>1. a \in 1 .. Len(s) /\ t[a] = s[a]
            BY <1>1, <2>1
        <3> QED
            BY <1>2, <3>1 DEF UpTo
    <2>2. CASE a > Len(s)
        <3>1. a - Len(s) \in 1 .. Len(r) /\ t[a] = r[a - Len(s)]
            BY <1>1, <2>2
        <3> QED
            BY <1>2, <3>1 DEF UpTo
    <2> QED
        BY <1>1, <2>1, <2>2
<1> QED
    BY <1>2 DEF UpTo, t

LEMMA UpToWeakens ==
    ASSUME NEW s \in Seq(Sample), NEW c, NEW m \in Int, NEW n \in Int, m <= n,
           UpTo(s, c, m)
    PROVE  UpTo(s, c, n)
<1>1. \A a \in 1 .. Len(s) : s[a][2] \in Nat
    <2>1. \A a \in 1 .. Len(s) : s[a] \in Sample
        OBVIOUS
    <2> QED
        BY <2>1 DEF Sample
<1> QED
    BY <1>1 DEF UpTo

\* Calls stay apart as long as nothing new reaches a pipeline.
LEMMA ApartShrinks ==
    ASSUME Apart, UNCHANGED sessionId,
           \A c \in Sources, i \in Pipes : Reaches(c, i)' => Reaches(c, i),
           \A k \in Keys, i \in Pipes : workers'[k] = i => workers[k] = i
    PROVE  Apart'
<1>1. Keys' = Keys /\ \A c \in Sources : Key(c)' = Key(c)
    BY DEF Key, Keys
<1> QED
    BY <1>1 DEF Apart

\* The handler's steps outside RouteChunk, but for reading audio.
LEMMA MovesKeep ==
    ASSUME RouterInv, NEW c \in Sources, conn[c] \in {"new", "loop", "read"},
           NEW label \in {"loop", "read", "gone"}, Handler(c, label),
           UNCHANGED <<produced, chunk, target, workers, adapter, close, pipeVars>>
    PROVE  RouterInv'
<1>1. PipeInv' /\ Counted'
    BY DEF RouterInv, pipeVars, PipeInv, OnPipes, Counted
<1>2. Handlers'
    <2>1. conn' = [conn EXCEPT ![c] = label] /\ UNCHANGED sessionId
        BY DEF Handler
    <2>2. Keys' = Keys
        BY <2>1 DEF Keys
    <2> QED
        BY <2>1, <2>2 DEF RouterInv, Handlers
<1>3. Apart'
    <2>1. UNCHANGED <<sessionId, target, accepted, workers>>
        BY DEF Handler, pipeVars
    <2> QED
        BY <2>1, ApartShrinks DEF RouterInv, Reaches
<1>4. Live' /\ Newest' /\ Ordered'
    BY DEF RouterInv, pipeVars, Live, Newest, Ordered, UpTo, InOrder, Keys
<1> QED
    BY <1>1, <1>2, <1>3, <1>4 DEF RouterInv

\* A handler reads audio: it is newer than all of this connection.
LEMMA ReadKeeps ==
    ASSUME RouterInv, NEW c \in Sources, NEW n \in 0 .. MaxChunk, Read(c, n)
    PROVE  RouterInv'
<1> DEFINE ch == Chunk(c, n)
<1>0. /\ conn[c] = "read" /\ Produce(c, n) /\ chunk' = [chunk EXCEPT ![c] = ch]
      /\ conn' = [conn EXCEPT ![c] = "route"]
      /\ UNCHANGED <<sessionId, target, workers, adapter, close, pipeVars>>
    BY DEF Read, Handler
<1>1. n \in Nat /\ produced[c] \in Nat /\ chunk[c] = <<>>
    <2>1. conn[c] = "read" => chunk[c] = <<>>
        BY DEF RouterInv, Handlers
    <2>2. produced[c] \in Nat
        BY DEF RouterInv, Counted
    <2> QED
        BY <1>0, <2>1, <2>2, PipelineAssumption
<1>2. produced' = [produced EXCEPT ![c] = @ + n]
    BY <1>0, Zenon DEF Produce
<1>3. Counted' /\ ch \in Seq(Sample)
    BY <1>0, ChunkType DEF RouterInv
<1>4. /\ Len(ch) = n
      /\ \A k \in 1 .. n : ch[k] = <<c, produced[c] + k>>
    BY <1>1 DEF Chunk
<1> HIDE DEF ch
<1>5. PipeInv'
    BY <1>0 DEF RouterInv, pipeVars, PipeInv, OnPipes
<1>6. Handlers'
    <2>1. Keys' = Keys
        BY <1>0 DEF Keys
    <2> QED
        BY <1>0, <1>3, <2>1 DEF RouterInv, Handlers
<1>7. Apart'
    BY <1>0, ApartShrinks DEF RouterInv, Reaches, pipeVars
<1>8. Live'
    BY <1>0 DEF RouterInv, Live, pipeVars, Keys
<1>9. ASSUME NEW d \in Sources
      PROVE  /\ d = c => /\ chunk'[d] = ch /\ produced'[d] = produced[c] + n
                         /\ produced'[d] - Len(chunk'[d]) = produced[c]
             /\ d # c => chunk'[d] = chunk[d] /\ produced'[d] = produced[d]
             /\ produced'[d] - Len(chunk'[d]) = produced[d] - Len(chunk[d])
    <2>1. d = c => chunk'[d] = ch /\ produced'[d] = produced[c] + n
        BY <1>0, <1>2 DEF RouterInv, Handlers, Counted
    <2>2. d # c => chunk'[d] = chunk[d] /\ produced'[d] = produced[d]
        BY <1>0, <1>2 DEF RouterInv, Handlers, Counted
    <2>3. Len(chunk[c]) = 0
        BY <1>1
    <2> QED
        BY <1>1, <1>4, <2>1, <2>2, <2>3
<1>10. Newest'
    <2> SUFFICES ASSUME NEW d \in Sources, NEW k \in 1 .. Len(chunk'[d])
                 PROVE  chunk'[d][k] = <<d, produced'[d] - Len(chunk'[d]) + k>>
        BY DEF Newest
    <2>1. CASE d = c
        BY <1>4, <1>9, <2>1
    <2>2. CASE d # c
        BY <1>9, <2>2 DEF RouterInv, Newest
    <2> QED
        BY <2>1, <2>2
<1>11. Ordered'
    <2>1. accepted' = accepted
        BY <1>0 DEF pipeVars
    <2>2. ASSUME NEW i \in Pipes, NEW d \in Sources
          PROVE  UpTo(accepted[i], d, produced'[d] - Len(chunk'[d]))
        <3>1. UpTo(accepted[i], d, produced[d] - Len(chunk[d]))
            BY DEF RouterInv, Ordered
        <3>2. produced'[d] - Len(chunk'[d]) = produced[d] - Len(chunk[d])
            BY <1>9
        <3> QED
            BY <3>1, <3>2
    <2>3. \A i \in Pipes : InOrder(accepted[i])
        BY DEF RouterInv, Ordered
    <2> QED
        BY <2>1, <2>2, <2>3 DEF Ordered, UpTo, InOrder
<1> QED
    BY <1>3, <1>5, <1>6, <1>7, <1>8, <1>10, <1>11 DEF RouterInv

\* RouteChunk finds the worker of the call.
LEMMA RouteFoundKeeps ==
    ASSUME RouterInv, NEW c \in Sources, RouteFound(c)
    PROVE  RouterInv'
<1> DEFINE w == workers[Key(c)]
<1>0. /\ conn[c] = "route" /\ w # NoPipe /\ target' = [target EXCEPT ![c] = w]
      /\ conn' = [conn EXCEPT ![c] = "push"]
      /\ UNCHANGED <<produced, sessionId, chunk, workers, adapter, close, pipeVars>>
    BY DEF RouteFound, Handler
<1>1. Key(c) \in Keys /\ w \in Pipes
    BY <1>0, KeyType DEF RouterInv, Handlers
<1>2. Keys' = Keys /\ \A d \in Sources : Key(d)' = Key(d)
    BY <1>0 DEF Keys, Key
<1>3. PipeInv' /\ Counted'
    BY <1>0 DEF RouterInv, pipeVars, PipeInv, OnPipes, Counted
<1>4. Handlers'
    BY <1>0, <1>1, <1>2, RouterAssumption DEF RouterInv, Handlers
<1>5. ASSUME NEW d \in Sources, NEW i \in Pipes, Reaches(d, i)'
      PROVE  Reaches(d, i) \/ (d = c /\ i = w)
    BY <1>0, <1>5 DEF Reaches, pipeVars, RouterInv, Handlers
<1>6. Apart'
    <2>1. ASSUME NEW i \in Pipes, NEW d \in Sources, Reaches(d, i)',
                 NEW k \in Keys, workers[k] = i
          PROVE  Key(d) = k
        <3>1. CASE Reaches(d, i)
            BY <2>1, <3>1 DEF RouterInv, Apart
        <3>2. CASE d = c /\ i = w
            BY <1>1, <2>1, <3>2 DEF RouterInv, Apart
        <3> QED
            BY <1>5, <2>1, <3>1, <3>2
    <2>2. ASSUME NEW i \in Pipes, NEW d \in Sources, NEW e \in Sources,
                 Reaches(d, i)', Reaches(e, i)'
          PROVE  Key(d) = Key(e)
        <3>1. CASE i = w
            BY <1>1, <2>1, <2>2, <3>1
        <3>2. CASE i # w
            BY <1>5, <2>2, <3>2 DEF RouterInv, Apart
        <3> QED
            BY <3>1, <3>2
    <2>3. workers' = workers
        BY <1>0
    <2> QED
        BY <1>2, <2>1, <2>2, <2>3 DEF RouterInv, Apart
<1>7. Live'
    <2>1. UNCHANGED <<loop, accepted, workers>>
        BY <1>0 DEF pipeVars
    <2>2. \A i \in Pipes : loop[i] = "unmade" =>
            i # w /\ \A d \in Sources : target'[d] # i
        BY <1>0, <1>1 DEF RouterInv, Live, Handlers
    <2> QED
        BY <1>2, <2>1, <2>2 DEF RouterInv, Live
<1>8. Newest' /\ Ordered'
    BY <1>0 DEF RouterInv, pipeVars, Newest, Ordered, UpTo, InOrder
<1> QED
    BY <1>3, <1>4, <1>6, <1>7, <1>8 DEF RouterInv

\* RouteChunk makes a worker: no pipeline of another call is touched.
LEMMA RouteMadeKeeps ==
    ASSUME RouterInv, NEW c \in Sources, RouteMade(c)
    PROVE  RouterInv'
<1>0. /\ conn[c] = "route" /\ workers[Key(c)] = NoPipe
      /\ conn' = [conn EXCEPT ![c] = "push"]
      /\ UNCHANGED <<produced, sessionId, chunk, adapter, close, queue, taken,
                     pcmBuf, frames, stop, accepted>>
    BY DEF RouteMade, Handler
<1>1. PICK w \in Unmade : /\ Start(w) /\ workers' = Registered(Key(c), w)
                          /\ target' = [target EXCEPT ![c] = w]
    BY DEF RouteMade
<1>2. /\ w \in Pipes /\ loop[w] = "unmade" /\ w # NoPipe
      /\ loop' = [loop EXCEPT ![w] = "select"]
      /\ workers' = [workers EXCEPT ![Key(c)] = w]
      /\ Key(c) \in Keys
    BY <1>1, KeyType, RouterAssumption DEF Unmade, Start, Goto, Registered, RouterInv
<1>3. Keys' = Keys /\ \A d \in Sources : Key(d)' = Key(d)
    BY <1>0 DEF Keys, Key
<1>4. /\ accepted[w] = <<>> /\ \A d \in Sources : target[d] # w
      /\ \A k \in Keys : workers[k] # w
    BY <1>2 DEF RouterInv, Live
<1>5. PipeInv'
    <2>1. Good(queue[w], taken[w], pcmBuf[w], frames[w], loop[w], stop[w], accepted[w])
        BY <1>2, GoodAt DEF RouterInv
    <2>2. /\ "select" \in Labels /\ stop[w] \in {"no", "waiting", "done"}
          /\ taken[w] = <<>> /\ Len(pcmBuf[w]) < FrameLen /\ stop[w] # "done"
        BY <1>2, <2>1 DEF Good, Labels
    <2>3. stop' = [stop EXCEPT ![w] = stop[w]]
        BY <1>0, <1>2, LeftAlone DEF RouterInv
    <2> QED
        BY <1>0, <1>2, <2>2, <2>3, MoveKeeps DEF RouterInv
<1>6. Counted' /\ Newest' /\ Ordered'
    BY <1>0 DEF RouterInv, Counted, Newest, Ordered, UpTo, InOrder
<1>7. Handlers'
    BY <1>0, <1>1, <1>2, <1>3 DEF RouterInv, Handlers
<1>8. ASSUME NEW d \in Sources, NEW i \in Pipes, Reaches(d, i)'
      PROVE  IF i = w THEN d = c ELSE Reaches(d, i)
    <2>1. CASE i = w
        <3>1. accepted'[i] = <<>>
            BY <1>0, <1>4, <2>1
        <3>2. target'[d] = w
            BY <1>8, <2>1, <3>1 DEF Reaches
        <3> QED
            BY <1>1, <1>4, <2>1, <3>2 DEF RouterInv, Handlers
    <2>2. CASE i # w
        BY <1>0, <1>1, <1>8, <2>2 DEF Reaches, RouterInv, Handlers
    <2> QED
        BY <2>1, <2>2
<1>9. ASSUME NEW k \in Keys, NEW i \in Pipes, workers'[k] = i
      PROVE  IF i = w THEN k = Key(c) ELSE workers[k] = i
    BY <1>2, <1>4, <1>9 DEF RouterInv, Handlers
<1>10. Apart'
    <2>1. ASSUME NEW i \in Pipes, NEW d \in Sources, NEW e \in Sources,
                 Reaches(d, i)', Reaches(e, i)'
          PROVE  Key(d) = Key(e)
        BY <1>8, <2>1 DEF RouterInv, Apart
    <2>2. ASSUME NEW i \in Pipes, NEW d \in Sources, NEW k \in Keys,
                 Reaches(d, i)', workers'[k] = i
          PROVE  Key(d) = k
        BY <1>8, <1>9, <2>2 DEF RouterInv, Apart
    <2>3. ASSUME NEW i \in Pipes, NEW k \in Keys, NEW l \in Keys,
                 workers'[k] = i, workers'[l] = i
          PROVE  k = l
        BY <1>9, <2>3 DEF RouterInv, Apart
    <2> QED
        BY <1>3, <2>1, <2>2, <2>3 DEF Apart
<1>11. Live'
    <2>1. ASSUME NEW i \in Pipes, loop'[i] = "unmade"
          PROVE  /\ accepted'[i] = <<>>
                 /\ \A d \in Sources : target'[d] # i
                 /\ \A k \in Keys : workers'[k] # i
        <3>1. i # w /\ loop[i] = "unmade"
            BY <1>2, <2>1 DEF RouterInv, PipeInv, OnPipes
        <3>2. /\ accepted[i] = <<>> /\ \A d \in Sources : target[d] # i
              /\ \A k \in Keys : workers[k] # i
            BY <3>1 DEF RouterInv, Live
        <3>3. \A d \in Sources : target'[d] # i
            BY <1>1, <3>1, <3>2 DEF RouterInv, Handlers
        <3>4. \A k \in Keys : workers'[k] # i
            BY <1>9, <3>1, <3>2
        <3> QED
            BY <1>0, <3>2, <3>3, <3>4
    <2>2. ASSUME NEW i \in Pipes, loop'[i] \notin {"unmade", "exited"}
          PROVE  \E k \in Keys : workers'[k] = i
        <3>1. CASE i = w
            BY <1>2, <3>1 DEF RouterInv, Handlers
        <3>2. CASE i # w
            <4>1. loop[i] \notin {"unmade", "exited"}
                BY <1>2, <2>2, <3>2 DEF RouterInv, PipeInv, OnPipes
            <4>2. PICK k \in Keys : workers[k] = i
                BY <4>1 DEF RouterInv, Live
            <4>3. workers'[k] = i
                BY <1>0, <1>2, <4>2, RouterAssumption DEF RouterInv, Handlers
            <4> QED
                BY <4>3
        <3> QED
            BY <3>1, <3>2
    <2> QED
        BY <1>3, <2>1, <2>2 DEF Live
<1> QED
    BY <1>5, <1>6, <1>7, <1>10, <1>11 DEF RouterInv

\* RouteChunk makes none: the chunk is gone.
LEMMA RouteFailsKeeps ==
    ASSUME RouterInv, NEW c \in Sources, RouteFails(c)
    PROVE  RouterInv'
<1>0. /\ conn[c] = "route" /\ chunk' = [chunk EXCEPT ![c] = <<>>]
      /\ conn' = [conn EXCEPT ![c] = "loop"]
      /\ UNCHANGED <<produced, sessionId, target, workers, adapter, close, pipeVars>>
    BY DEF RouteFails, Handler, AfterFailure
<1>1. PipeInv' /\ Counted'
    BY <1>0 DEF RouterInv, pipeVars, PipeInv, OnPipes, Counted
<1>2. Handlers'
    <2>1. Keys' = Keys
        BY <1>0 DEF Keys
    <2> QED
        BY <1>0, <2>1 DEF RouterInv, Handlers
<1>3. Apart' /\ Live'
    <2>1. Apart'
        BY <1>0, ApartShrinks DEF RouterInv, Reaches, pipeVars
    <2>2. Live'
        BY <1>0 DEF RouterInv, Live, pipeVars, Keys
    <2> QED
        BY <2>1, <2>2
<1>4. \A d \in Sources : chunk'[d] = chunk[d] \/ chunk'[d] = <<>>
    BY <1>0 DEF RouterInv, Handlers
<1>5. Newest'
    BY <1>0, <1>4 DEF RouterInv, Newest
<1>6. Ordered'
    <2>1. accepted' = accepted /\ produced' = produced
        BY <1>0 DEF pipeVars
    <2>2. ASSUME NEW i \in Pipes, NEW d \in Sources
          PROVE  UpTo(accepted[i], d, produced[d] - Len(chunk'[d]))
        <3>1. /\ produced[d] \in Nat /\ Len(chunk[d]) \in Nat /\ Len(<<>>) = 0
              /\ accepted[i] \in Seq(Sample)
            BY DEF RouterInv, Counted, Handlers, PipeInv, Good
        <3>2. produced[d] - Len(chunk[d]) <= produced[d] - Len(chunk'[d])
              /\ produced[d] - Len(chunk'[d]) \in Int
            BY <1>4, <3>1
        <3>3. UpTo(accepted[i], d, produced[d] - Len(chunk[d]))
            BY DEF RouterInv, Ordered
        <3> QED
            BY <3>1, <3>2, <3>3, UpToWeakens
    <2>3. \A i \in Pipes : InOrder(accepted[i])
        BY DEF RouterInv, Ordered
    <2> QED
        BY <2>1, <2>2, <2>3 DEF Ordered, UpTo, InOrder
<1> QED
    BY <1>1, <1>2, <1>3, <1>5, <1>6 DEF RouterInv

\* The handler pushes what it read to the pipeline it was given.
LEMMA PushesKeep ==
    ASSUME RouterInv, NEW c \in Sources, Push(c)
    PROVE  RouterInv'
<1> DEFINE i == target[c]
           ch == chunk[c]
           m == produced[c] - Len(chunk[c])
           r == Resampled(ch)
<1>0. /\ conn[c] = "push" /\ PushPCM(i, ch)
      /\ chunk' = [chunk EXCEPT ![c] = <<>>]
      /\ target' = [target EXCEPT ![c] = NoPipe]
      /\ conn' = [conn EXCEPT ![c] = "loop"]
      /\ UNCHANGED <<produced, sessionId, workers, adapter, close>>
    BY DEF Push, Handler
<1>1. i \in Pipes /\ ch \in Seq(Sample) /\ r \in Seq(Sample)
    <2>1. i \in Pipes /\ ch \in Seq(Sample)
        BY <1>0 DEF RouterInv, Handlers
    <2> HIDE DEF ch
    <2> QED
        BY <2>1, ResampledType
<1>2. PipeInv'
    BY <1>0, <1>1, PushKeeps DEF RouterInv
<1>3. Counted'
    BY <1>0 DEF RouterInv, Counted
<1>4. Handlers'
    <2>1. Keys' = Keys
        BY <1>0 DEF Keys
    <2> QED
        BY <1>0, <2>1, RouterAssumption DEF RouterInv, Handlers
<1>5. /\ produced[c] \in Nat /\ m \in Int /\ Len(ch) \in Nat
      /\ m + Len(ch) = produced[c]
    <2>1. produced[c] \in Nat
        BY DEF RouterInv, Counted
    <2> QED
        BY <1>1, <2>1
<1>6. \A k \in 1 .. Len(ch) : ch[k] = <<c, m + k>>
    BY DEF RouterInv, Newest
<1> HIDE DEF i, ch, m, r
<1>7. /\ InOrder(r)
      /\ \A a \in 1 .. Len(r) :
            r[a][1] = c /\ m < r[a][2] /\ r[a][2] <= produced[c]
    <2>1. /\ InOrder(Resampled(ch))
          /\ \A a \in 1 .. Len(Resampled(ch)) :
                /\ Resampled(ch)[a][1] = c
                /\ m < Resampled(ch)[a][2] /\ Resampled(ch)[a][2] <= m + Len(ch)
        BY <1>1, <1>5, <1>6, ResampledOrder
    <2> QED
        BY <1>5, <2>1 DEF r
<1>8. \A j \in Pipes : accepted[j] \in Seq(Sample)
    BY DEF RouterInv, PipeInv, Good
<1>9. ASSUME NEW j \in Pipes
      PROVE  accepted'[j] = accepted[j] \/ (j = i /\ accepted'[j] = accepted[j] \o r)
    <2>1. \/ accepted' = accepted
          \/ accepted' = [accepted EXCEPT ![i] = @ \o r]
        BY <1>0 DEF PushPCM, r
    <2> QED
        BY <1>1, <2>1 DEF RouterInv, PipeInv, OnPipes
<1>10. loop' = loop
    BY <1>0 DEF PushPCM
<1>11. ASSUME NEW d \in Sources, NEW j \in Pipes, Reaches(d, j)'
       PROVE  Reaches(d, j)
    <2>1. CASE target'[d] = j
        BY <1>0, <2>1, RouterAssumption DEF Reaches, RouterInv, Handlers
    <2>2. CASE target'[d] # j
        <3>1. PICK a \in DOMAIN accepted'[j] : accepted'[j][a][1] = d
            BY <1>11, <2>2 DEF Reaches
        <3>2. CASE accepted'[j] = accepted[j]
            BY <3>1, <3>2 DEF Reaches
        <3>3. CASE j = i /\ accepted'[j] = accepted[j] \o r
            <4> DEFINE s == accepted[j]
                       t == accepted'[j]
            <4>1. /\ Len(s) \in Nat /\ Len(r) \in Nat /\ Len(t) = Len(s) + Len(r)
                  /\ t \in Seq(Sample)
                  /\ \A b \in 1 .. Len(t) : t[b] = IF b <= Len(s) THEN s[b] ELSE r[b - Len(s)]
                  /\ DOMAIN s = 1 .. Len(s) /\ DOMAIN t = 1 .. Len(t)
                BY <1>1, <1>8, <3>3, ConcatProperties
            <4>2. a \in 1 .. Len(t) /\ t[a][1] = d
                BY <3>1, <4>1
            <4>3. (\E b \in DOMAIN s : s[b][1] = d) => Reaches(d, j)
                BY DEF Reaches
            <4> HIDE DEF s, t
            <4>4. CASE a <= Len(s)
                <5>1. a \in DOMAIN s /\ s[a][1] = d
                    BY <4>1, <4>2, <4>4
                <5> QED
                    BY <4>3, <5>1
            <4>5. CASE a > Len(s)
                <5>1. a - Len(s) \in 1 .. Len(r) /\ t[a] = r[a - Len(s)]
                    BY <4>1, <4>2, <4>5
                <5>2. d = c
                    BY <1>7, <4>2, <5>1
                <5> QED
                    BY <3>3, <5>2 DEF Reaches, i
            <4> QED
                BY <4>1, <4>2, <4>4, <4>5
        <3> QED
            BY <1>9, <3>2, <3>3
    <2> QED
        BY <2>1, <2>2
<1>12. Apart'
    BY <1>0, <1>11, ApartShrinks DEF RouterInv
<1>13. Live'
    <2>1. Keys' = Keys /\ workers' = workers
        BY <1>0 DEF Keys
    <2>2. ASSUME NEW j \in Pipes, loop[j] = "unmade"
          PROVE  accepted'[j] = <<>> /\ \A d \in Sources : target'[d] # j
        <3>1. accepted[j] = <<>> /\ (\A d \in Sources : target[d] # j)
            BY <2>2 DEF RouterInv, Live
        <3>2. j # i
            BY <3>1 DEF i
        <3>3. accepted'[j] = <<>>
            BY <1>9, <3>1, <3>2
        <3>4. \A d \in Sources : target'[d] # j
            BY <1>0, <3>1, RouterAssumption DEF RouterInv, Handlers
        <3> QED
            BY <3>3, <3>4
    <2>3. \A j \in Pipes : loop[j] = "unmade" => \A k \in Keys : workers[k] # j
        BY DEF RouterInv, Live
    <2>4. \A j \in Pipes : loop[j] \notin {"unmade", "exited"} =>
            \E k \in Keys : workers[k] = j
        BY DEF RouterInv, Live
    <2> QED
        BY <1>10, <2>1, <2>2, <2>3, <2>4 DEF Live
<1>14. ASSUME NEW d \in Sources
       PROVE  chunk'[d] = IF d = c THEN <<>> ELSE chunk[d]
    BY <1>0 DEF RouterInv, Handlers
<1>15. Newest'
    <2>1. \A d \in Sources : chunk'[d] = chunk[d] \/ chunk'[d] = <<>>
        BY <1>14
    <2> QED
        BY <1>0, <2>1 DEF RouterInv, Newest
<1>16. ASSUME NEW j \in Pipes
       PROVE  InOrder(accepted'[j])
    <2>1. CASE accepted'[j] = accepted[j]
        BY <2>1 DEF RouterInv, Ordered
    <2>2. CASE accepted'[j] = accepted[j] \o r
        <3>1. UpTo(accepted[j], c, m) /\ InOrder(accepted[j])
            BY DEF RouterInv, Ordered, m
        <3>2. InOrder(accepted[j] \o r)
            BY <1>1, <1>5, <1>7, <1>8, <3>1, OrderExtends
        <3> QED
            BY <2>2, <3>2
    <2> QED
        BY <1>9, <2>1, <2>2
<1>17. ASSUME NEW j \in Pipes, NEW d \in Sources
       PROVE  UpTo(accepted'[j], d, produced[d] - Len(chunk'[d]))
    <2> DEFINE n == produced[d] - Len(chunk'[d])
    <2>1. /\ produced[d] \in Nat /\ Len(chunk[d]) \in Nat /\ Len(<<>>) = 0
        BY DEF RouterInv, Counted, Handlers
    <2>2. /\ n \in Int /\ produced[d] - Len(chunk[d]) <= n
          /\ d = c => n = produced[c]
        BY <1>14, <2>1
    <2> HIDE DEF n
    <2>3. UpTo(accepted[j], d, produced[d] - Len(chunk[d]))
        BY DEF RouterInv, Ordered
    <2>4. UpTo(accepted[j], d, n)
        BY <1>8, <2>1, <2>2, <2>3, UpToWeakens
    <2>5. UpTo(r, d, n)
        BY <1>7, <2>2 DEF UpTo
    <2>6. UpTo(accepted[j] \o r, d, n)
        BY <1>1, <1>8, <2>2, <2>4, <2>5, UpToExtends
    <2>7. UpTo(accepted'[j], d, n)
        BY <1>9, <2>4, <2>6
    <2> QED
        BY <2>7 DEF n
<1>18. Ordered'
    <2>1. produced' = produced
        BY <1>0
    <2> QED
        BY <1>16, <1>17, <2>1 DEF Ordered, UpTo, InOrder
<1> QED
    BY <1>2, <1>3, <1>4, <1>12, <1>13, <1>15, <1>18 DEF RouterInv

\* Pipeline i stays where it is, or it was made before and does not return
\* from where it has ended.
Onward(i) ==
    \/ loop'[i] = loop[i]
    \/ /\ loop[i] # "unmade" /\ loop'[i] # "unmade"
       /\ loop[i] = "exited" => loop'[i] = "exited"

\* Steps that no connection takes and that leave the map and what was
\* accepted alone.
LEMMA AsideKeeps ==
    ASSUME RouterInv, PipeInv',
           UNCHANGED <<produced, sessionId, conn, chunk, target, workers, accepted>>,
           adapter' \in {"running", "stopped"}, close' \in {"no", "stopping", "done"},
           \A i \in Pipes : Onward(i)
    PROVE  RouterInv'
<1>1. Keys' = Keys
    BY DEF Keys
<1>2. Counted' /\ Handlers'
    BY <1>1 DEF RouterInv, Counted, Handlers
<1>3. Apart'
    BY ApartShrinks DEF RouterInv, Reaches
<1>4. Live'
    BY <1>1 DEF RouterInv, Live, Onward
<1>5. Newest' /\ Ordered'
    BY DEF RouterInv, Newest, Ordered, UpTo, InOrder
<1> QED
    BY <1>2, <1>3, <1>4, <1>5 DEF RouterInv

\* A step of a pipeline, of Close, of the flags that adapters and Close share.
LEMMA RunPipelineKeeps ==
    ASSUME RouterInv, NEW j \in Pipes, RunPipeline(j)
    PROVE  RouterInv'
<1>1. /\ Run(j)
      /\ UNCHANGED <<produced, sessionId, conn, chunk, target, workers, adapter, close>>
    BY DEF RunPipeline, handlerVars
<1>2. PipeInv'
    BY <1>1, RunKeeps DEF RouterInv
<1>3. accepted' = accepted
    BY <1>1 DEF Run, Take, Accumulate, Release, Exit, Encode
<1>4. loop[j] \in {"select", "taken", "processing"}
    BY <1>1 DEF Run, Take, Accumulate, Release, Exit, Encode
<1>5. \/ loop' = loop
      \/ \E l \in {"select", "taken", "processing", "exited"} :
            loop' = [loop EXCEPT ![j] = l]
    BY <1>1 DEF Run, Take, Accumulate, Release, Exit, Encode, Goto
<1>6. \A i \in Pipes : Onward(i)
    BY <1>4, <1>5 DEF RouterInv, PipeInv, OnPipes, Onward
<1>7. adapter' \in {"running", "stopped"} /\ close' \in {"no", "stopping", "done"}
    BY <1>1 DEF RouterInv, Handlers
<1> QED
    BY <1>1, <1>2, <1>3, <1>6, <1>7, AsideKeeps

LEMMA CloseStopsKeep ==
    ASSUME RouterInv, NEW j \in Pipes, CloseCancel(j) \/ CloseWait(j)
    PROVE  RouterInv'
<1>1. /\ StopCancel(j) \/ StopWait(j)
      /\ UNCHANGED <<produced, sessionId, conn, chunk, target, workers, adapter, close>>
    BY DEF CloseCancel, CloseWait, handlerVars
<1>2. PipeInv'
    BY <1>1, StopKeeps DEF RouterInv
<1>3. accepted' = accepted /\ loop' = loop
    BY <1>1 DEF StopCancel, StopWait
<1>4. adapter' \in {"running", "stopped"} /\ close' \in {"no", "stopping", "done"}
    BY <1>1 DEF RouterInv, Handlers
<1>5. \A i \in Pipes : Onward(i)
    BY <1>3 DEF Onward
<1> QED
    BY <1>1, <1>2, <1>3, <1>4, <1>5, AsideKeeps

LEMMA FlagsKeep ==
    ASSUME RouterInv, AdapterStop \/ CloseLock
    PROVE  RouterInv'
<1>1. UNCHANGED <<produced, sessionId, conn, chunk, target, workers, pipeVars>>
    BY DEF AdapterStop, CloseLock, handlerVars
<1>2. PipeInv'
    BY <1>1 DEF RouterInv, pipeVars, PipeInv, OnPipes
<1>3. adapter' \in {"running", "stopped"} /\ close' \in {"no", "stopping", "done"}
    BY DEF RouterInv, Handlers, AdapterStop, CloseLock
<1>4. accepted' = accepted /\ \A i \in Pipes : Onward(i)
    BY <1>1 DEF pipeVars, Onward
<1> QED
    BY <1>1, <1>2, <1>3, <1>4, AsideKeeps

\* Close forgets the workers once all of them have exited.
LEMMA CloseUnlockKeeps ==
    ASSUME RouterInv, CloseUnlock
    PROVE  RouterInv'
<1>1. /\ workers' = [k \in Keys |-> NoPipe] /\ close' = "done"
      /\ UNCHANGED <<produced, sessionId, conn, chunk, target, adapter, pipeVars>>
      /\ \A i \in Active : stop[i] = "done"
    BY DEF CloseUnlock, handlerVars
<1>2. PipeInv'
    BY <1>1 DEF RouterInv, pipeVars, PipeInv, OnPipes
<1>3. Keys' = Keys
    BY <1>1 DEF Keys
<1>4. Counted' /\ Handlers'
    BY <1>1, <1>3 DEF RouterInv, Counted, Handlers
<1>5. \A k \in Keys, i \in Pipes : workers'[k] # i
    BY <1>1, RouterAssumption
<1>6. Apart'
    BY <1>1, <1>5, ApartShrinks DEF RouterInv, Reaches, pipeVars
<1>7. ASSUME NEW i \in Pipes
      PROVE  loop[i] \in {"unmade", "exited"}
    <2> SUFFICES ASSUME loop[i] \notin {"unmade", "exited"}
                 PROVE  FALSE
        OBVIOUS
    <2>1. PICK k \in Keys : workers[k] = i
        BY DEF RouterInv, Live
    <2>2. i \in Active
        BY <2>1, RouterAssumption DEF Active
    <2>3. stop[i] = "done" => loop[i] = "exited"
        BY DEF RouterInv, PipeInv, Good
    <2> QED
        BY <1>1, <2>2, <2>3
<1>8. Live'
    BY <1>1, <1>3, <1>5, <1>7 DEF RouterInv, Live, pipeVars
<1>9. Newest' /\ Ordered'
    BY <1>1 DEF RouterInv, pipeVars, Newest, Ordered, UpTo, InOrder
<1> QED
    BY <1>2, <1>4, <1>6, <1>8, <1>9 DEF RouterInv

\* Every step keeps the invariant.
LEMMA RouterInductive ==
    ASSUME RouterInv, [RouterNext]_routerVars
    PROVE  RouterInv'
<1>1. CASE UNCHANGED routerVars
    <2>1. UNCHANGED <<produced, sessionId, conn, chunk, target, workers, adapter,
                      close, pipeVars>>
        BY <1>1 DEF routerVars, handlerVars
    <2>2. PipeInv'
        BY <2>1 DEF RouterInv, pipeVars, PipeInv, OnPipes
    <2>3. adapter' \in {"running", "stopped"} /\ close' \in {"no", "stopping", "done"}
        BY <2>1 DEF RouterInv, Handlers
    <2>4. accepted' = accepted /\ \A i \in Pipes : Onward(i)
        BY <2>1 DEF pipeVars, Onward
    <2> QED
        BY <2>1, <2>2, <2>3, <2>4, AsideKeeps
<1>2. ASSUME NEW c \in Sources, Connect(c)
      PROVE  RouterInv'
    <2>1. /\ conn[c] \in {"new", "loop", "read"}
          /\ Handler(c, IF adapter = "running" THEN "loop" ELSE "gone")
          /\ UNCHANGED <<produced, chunk, target, workers, adapter, close, pipeVars>>
        BY <1>2 DEF Connect
    <2> QED
        BY <2>1, MovesKeep
<1>3. ASSUME NEW c \in Sources, CheckContext(c)
      PROVE  RouterInv'
    <2>1. /\ conn[c] \in {"new", "loop", "read"}
          /\ Handler(c, IF adapter = "stopped" THEN "gone" ELSE "read")
          /\ UNCHANGED <<produced, chunk, target, workers, adapter, close, pipeVars>>
        BY <1>3 DEF CheckContext
    <2> QED
        BY <2>1, MovesKeep
<1>4. ASSUME NEW c \in Sources, ReadFails(c) \/ ReadOther(c)
      PROVE  RouterInv'
    <2>1. /\ conn[c] \in {"new", "loop", "read"}
          /\ UNCHANGED <<produced, chunk, target, workers, adapter, close, pipeVars>>
        BY <1>4 DEF ReadFails, ReadOther
    <2>2. \E label \in {"loop", "read", "gone"} : Handler(c, label)
        BY <1>4 DEF ReadFails, ReadOther
    <2> QED
        BY <2>1, <2>2, MovesKeep
<1>5. ASSUME NEW c \in Sources, RouteFound(c) \/ RouteMade(c) \/ RouteFails(c) \/ Push(c)
      PROVE  RouterInv'
    BY <1>5, RouteFoundKeeps, RouteMadeKeeps, RouteFailsKeeps, PushesKeep
<1>6. CASE Close
    BY <1>6, FlagsKeep, CloseUnlockKeeps, CloseStopsKeep DEF Close
<1> QED
    BY <1>1, <1>2, <1>3, <1>4, <1>5, <1>6, ReadKeeps, RunPipelineKeeps, FlagsKeep
       DEF RouterNext, Handle

LEMMA RouterAlways == RouterSpec => []RouterInv
BY RouterInvInit, RouterInductive, PTL DEF RouterSpec

\* The router, the handlers and the pipelines keep their types; a handler has
\* a pipeline exactly when it is about to push, and that has been started.
THEOREM RouterTyped == RouterSpec => []RouterTypeOK
BY RouterAlways, RouterInvSafe, PTL

\* No pipeline ever has the audio of two calls, for any number of connections,
\* whatever session_ids they come with.
THEOREM SessionsStayApart == RouterSpec => []SessionsIsolated
BY RouterAlways, RouterInvSafe, PTL

\* No call has two workers that run.
THEOREM OneWorkerAlways == RouterSpec => []OneWorkerPerSession
BY RouterAlways, RouterInvSafe, PTL

\* The audio of a connection stays in order, from its handler through the
\* queue and the resampler to the frames.
THEOREM OrderKept == RouterSpec => []ConnectionInOrder
BY RouterAlways, RouterInvSafe, PTL

\* The pipelines of the router's workers lose nothing and keep no frame back,
\* whichever connections push to them.
THEOREM RoutedNothingLost == RouterSpec => [](NothingLost /\ NoFrameHeldBack)
<1>1. RouterInv => NothingLost /\ NoFrameHeldBack
    BY PipeInvSafe DEF RouterInv
<1> QED
    BY <1>1, RouterAlways, PTL
=============================================================================
