---------------------------- MODULE Replay_proofs -----------------------------
(***************************************************************************)
(* However many requests and adapters there are: the worker never loses    *)
(* hold of the goroutine that plays, and after a shutdown that no request  *)
(* outlived none does.  And whatever the layout of the file, the parser    *)
(* finds its audio, and a goroutine plays this and nothing else.           *)
(***************************************************************************)
EXTENDS Replay, WellFoundedInduction, SequenceTheorems, TLAPS

-----------------------------------------------------------------------------
\* The shape of what decides who plays.
ControlTypeOK ==
    /\ replayAdapter \in Adapters \cup {NoAdapter}
    /\ request \in [Requests -> {"new", "start", "stop", "waiting", "done"}]
    /\ main \in {"serving", "shutdown", "locking", "waiting", "stopped"}
    /\ timedOut \in BOOLEAN
    /\ loop \in [Adapters -> {"unmade", "open", "sleeping", "playing", "reading",
                              "played", "looping", "exited"}]

\* Once server.Shutdown has returned in time nobody is in a handler.
HandlersDone ==
    main \in {"locking", "waiting", "stopped"} /\ ~timedOut => ~Active

\* The inductive invariant.
ReplayInv == ControlTypeOK /\ HandlersDone /\ OneReplay /\ CleanShutdown

-----------------------------------------------------------------------------
LEMMA InitReplay == Init => ReplayInv
<1> SUFFICES ASSUME Init PROVE ReplayInv
    OBVIOUS
<1>1. ControlTypeOK
    BY DEF Init, ControlTypeOK
<1>2. HandlersDone
    BY DEF Init, HandlersDone
<1>3. OneReplay
    BY DEF Init, OneReplay, Live
<1>4. CleanShutdown
    BY DEF Init, CleanShutdown
<1> QED
    BY <1>1, <1>2, <1>3, <1>4 DEF ReplayInv

\* A step of a goroutine: it goes on, and does not come to life.
LEMMA GoroutineKeeps ==
    ASSUME ReplayInv, NEW a \in Adapters, Goroutine(a)
    PROVE  ReplayInv'
<1>1. /\ UNCHANGED <<replayAdapter, request, main, timedOut>>
      /\ loop[a] \notin {"unmade", "exited"}
    BY DEF Goroutine, Open, OpenFails, Interrupted, Tick, Read, ReadEnds, ReadFails, Wake,
           Again, Finish, LoopOn, Goes, workerVars
<1>2. PICK to \in {"open", "sleeping", "playing", "reading", "played",
                   "looping", "exited"} :
            loop' = [loop EXCEPT ![a] = to]
    BY DEF Goroutine, Open, OpenFails, Interrupted, Tick, Read, ReadEnds, ReadFails, Wake,
           Again, Finish, LoopOn, Goes
<1>3. ControlTypeOK'
    BY <1>1, <1>2 DEF ReplayInv, ControlTypeOK
<1>4. HandlersDone'
    BY <1>1 DEF ReplayInv, HandlersDone, Active
<1>5. \A b \in Adapters : Live(b)' => Live(b)
    BY <1>1, <1>2 DEF ReplayInv, ControlTypeOK, Live
<1>6. OneReplay' /\ CleanShutdown'
    BY <1>1, <1>5 DEF ReplayInv, OneReplay, CleanShutdown
<1> QED
    BY <1>3, <1>4, <1>6 DEF ReplayInv

\* A request that does not start a replay: no goroutine moves.
LEMMA RequestKeeps ==
    ASSUME ReplayInv, NEW r \in Requests, UNCHANGED <<main, timedOut, loop>>,
           NEW from \in {"new", "start", "stop", "waiting"},
           NEW to \in {"start", "stop", "waiting", "done"},
           Moves(r, from, to),
           from = "new" => main = "serving",
           replayAdapter' = replayAdapter
             \/ (replayAdapter' = NoAdapter /\ \A a \in Adapters : ~Live(a))
    PROVE  ReplayInv'
<1>1. ControlTypeOK'
    BY DEF ReplayInv, ControlTypeOK, Moves
<1>2. HandlersDone'
  <2> SUFFICES ASSUME main \in {"locking", "waiting", "stopped"}, ~timedOut
               PROVE  FALSE
      BY DEF HandlersDone
  <2>1. ~Active
      BY DEF ReplayInv, HandlersDone
  <2>2. request[r] \in {"start", "stop", "waiting"}
      BY DEF Moves
  <2> QED
      BY <2>1, <2>2 DEF Active
<1>3. \A a \in Adapters : Live(a)' <=> Live(a)
    BY DEF Live
<1>4. OneReplay' /\ CleanShutdown'
    BY <1>3 DEF ReplayInv, OneReplay, CleanShutdown
<1> QED
    BY <1>1, <1>2, <1>4 DEF ReplayInv

\* A replay is started only when there is none, and in a handler.
LEMMA StartKeeps ==
    ASSUME ReplayInv, NEW r \in Requests, NEW a \in Adapters, StartReplay(r, a)
    PROVE  ReplayInv'
<1>1. /\ request[r] = "start" /\ request' = [request EXCEPT ![r] = "done"]
      /\ loop[a] = "unmade" /\ loop' = [loop EXCEPT ![a] = "open"]
      /\ replayAdapter = NoAdapter /\ replayAdapter' = a
      /\ UNCHANGED <<main, timedOut>>
    BY DEF StartReplay, Moves, Goes, MayStart
<1>2. ControlTypeOK'
    BY <1>1 DEF ReplayInv, ControlTypeOK
<1>3. Active
    BY <1>1 DEF Active
<1>4. ~(main \in {"locking", "waiting", "stopped"} /\ ~timedOut)
    BY <1>3 DEF ReplayInv, HandlersDone
<1>5. HandlersDone' /\ CleanShutdown'
    BY <1>1, <1>4 DEF HandlersDone, CleanShutdown
<1>6. OneReplay'
  <2>1. \A b \in Adapters : ~Live(b)
      BY <1>1, ReplayAssumption DEF ReplayInv, OneReplay
  <2>2. \A b \in Adapters : Live(b)' => b = a
      BY <1>1, <2>1 DEF ReplayInv, ControlTypeOK, Live
  <2> QED
      BY <1>1, <2>2 DEF OneReplay
<1> QED
    BY <1>2, <1>5, <1>6 DEF ReplayInv

\* A step of main moves no goroutine and no request.
LEMMA MainKeeps ==
    ASSUME ReplayInv, Signal \/ Shutdown
    PROVE  ReplayInv'
<1>1. UNCHANGED <<replayAdapter, request, loop>>
    BY DEF Signal, Shutdown, ShutdownReturns, MainStop, MainStopped, adapterVars
<1>2. main' \in {"shutdown", "locking", "waiting", "stopped"} /\ timedOut' \in BOOLEAN
    BY DEF Signal, Shutdown, ShutdownReturns, MainStop, MainStopped, MainGoes,
           ReplayInv, ControlTypeOK, Active
<1>3. ControlTypeOK'
    BY <1>1, <1>2 DEF ReplayInv, ControlTypeOK
<1>4. \A a \in Adapters : Live(a)' <=> Live(a)
    BY <1>1 DEF Live
<1>5. Active' <=> Active
    BY <1>1 DEF Active
<1>6. OneReplay'
    BY <1>1, <1>4 DEF ReplayInv, OneReplay
<1>7. HandlersDone'
    BY <1>5 DEF ReplayInv, HandlersDone, Signal, Shutdown, ShutdownReturns,
                MainStop, MainStopped, MainGoes
<1>8. CleanShutdown'
  <2>1. main' = "stopped" => MainStopped
      BY DEF Signal, Shutdown, ShutdownReturns, MainStop, MainStopped, MainGoes
  <2>2. ASSUME MainStopped, NEW a \in Adapters, Live(a) PROVE FALSE
    <3>1. replayAdapter = a /\ replayAdapter # NoAdapter
        BY <2>2, ReplayAssumption DEF ReplayInv, OneReplay
    <3>2. Ended(replayAdapter)
        BY <2>2, <3>1 DEF MainStopped
    <3> QED
        BY <2>2, <3>1, <3>2 DEF Ended, Live
  <2> QED
      BY <1>4, <2>1, <2>2 DEF CleanShutdown
<1> QED
    BY <1>3, <1>6, <1>7, <1>8 DEF ReplayInv

LEMMA NextReplay == ReplayInv /\ [Next]_vars => ReplayInv'
<1> SUFFICES ASSUME ReplayInv, [Next]_vars PROVE ReplayInv'
    OBVIOUS
<1>1. CASE UNCHANGED vars
    BY <1>1 DEF vars, workerVars, adapterVars, ReplayInv, ControlTypeOK,
                HandlersDone, Active, OneReplay, CleanShutdown, Live
<1>2. ASSUME NEW a \in Adapters, Goroutine(a) PROVE ReplayInv'
    BY <1>2, GoroutineKeeps
<1>3. ASSUME NEW r \in Requests, NEW kind \in {"start", "stop"}, Arrive(r, kind)
      PROVE  ReplayInv'
  <2>1. /\ Moves(r, "new", kind) /\ main = "serving"
        /\ UNCHANGED <<main, timedOut, loop, replayAdapter>>
      BY <1>3 DEF Arrive, adapterVars
  <2> QED
      BY <2>1, RequestKeeps
<1>4. ASSUME NEW r \in Requests, Serve(r) PROVE ReplayInv'
  <2>1. CASE StartRefused(r)
    <3>1. /\ Moves(r, "start", "done")
          /\ UNCHANGED <<main, timedOut, loop, replayAdapter>>
        BY <2>1 DEF StartRefused, adapterVars
    <3> QED
        BY <3>1, RequestKeeps
  <2>2. CASE StopReplay(r)
    <3>1. /\ Moves(r, "stop", "waiting")
          /\ UNCHANGED <<main, timedOut, loop, replayAdapter>>
        BY <2>2 DEF StopReplay
    <3> QED
        BY <3>1, RequestKeeps
  <2>3. CASE StopRefused(r)
    <3>1. /\ Moves(r, "stop", "done")
          /\ UNCHANGED <<main, timedOut, loop, replayAdapter>>
        BY <2>3 DEF StopRefused, adapterVars
    <3> QED
        BY <3>1, RequestKeeps
  <2>4. CASE StopReplayed(r)
    <3>1. /\ Moves(r, "waiting", "done")
          /\ UNCHANGED <<main, timedOut, loop>>
          /\ replayAdapter' = NoAdapter
        BY <2>4 DEF StopReplayed, adapterVars
    <3>2. \A a \in Adapters : ~Live(a)
        BY <2>4 DEF StopReplayed, Ended, Live, ReplayInv, OneReplay
    <3> QED
        BY <3>1, <3>2, RequestKeeps
  <2>5. ASSUME NEW a \in Adapters, StartReplay(r, a) PROVE ReplayInv'
      BY <2>5, StartKeeps
  <2> QED
      BY <1>4, <2>1, <2>2, <2>3, <2>4, <2>5 DEF Serve
<1>5. CASE Signal \/ Shutdown
    BY <1>5, MainKeeps
<1> QED
    BY <1>1, <1>2, <1>3, <1>4, <1>5 DEF Next

(***************************************************************************)
(* However starts, stops and the shutdown meet, the goroutine that plays   *)
(* is that of replayAdapter (so there is one at most, and it can be        *)
(* stopped), and none plays after a shutdown that no request outlived.     *)
(***************************************************************************)
THEOREM ReplaySafe == Spec => [](OneReplay /\ CleanShutdown)
<1>1. ReplayInv => OneReplay /\ CleanShutdown
    BY DEF ReplayInv
<1> QED
    BY <1>1, InitReplay, NextReplay, PTL DEF Spec

(***************************************************************************)
(* Once main shut down, only a request that outlived the shutdown can have *)
(* started the goroutine that still plays.                                 *)
(***************************************************************************)
THEOREM ShutsDownCleanly == Spec => []CleanShutdown
    BY ReplaySafe, PTL

-----------------------------------------------------------------------------
(***************************************************************************)
(* What parseWavHeader finds.  Offset and Scan are recursive functions:    *)
(* for each, the recursion is first shown to have a solution.              *)
(***************************************************************************)
\* Induction over the numbers: such a set has all of them.
Inductive(S) == 0 \in S /\ \A n \in S : n + 1 \in S

LEMMA Induct ==
    ASSUME NEW S \in SUBSET Nat, Inductive(S)
    PROVE  \A n \in Nat : n \in S
<1> SUFFICES ASSUME Nat \ S # {} PROVE FALSE
    OBVIOUS
<1>1. PICK x \in Nat \ S : \A y \in Nat \ S : ~ (<<y, x>> \in OpToRel(<, Nat))
    BY NatLessThanWellFounded, WFMin
<1>2. \A y \in Nat \ S : ~ (y < x)
    BY <1>1 DEF OpToRel
<1>3. x \in Nat /\ x # 0 /\ x \notin S
    BY <1>1 DEF Inductive
<1>4. x - 1 \in Nat /\ x - 1 < x /\ (x - 1) + 1 = x
    BY <1>3
<1>5. x - 1 \in S
    BY <1>2, <1>4
<1> QED
    BY <1>3, <1>4, <1>5 DEF Inductive

\* A file's chunks, and the bytes of one with its header and pad byte.
Chunks == [id : STRING, size : Nat, len : Nat]
Length(c) == 8 + c.len + (c.len % 2)

LEMMA LengthIs ==
    ASSUME NEW c \in Chunks
    PROVE  Length(c) \in Nat /\ Length(c) >= 8 /\ Length(c) >= 8 + c.len
<1>1. c.len \in Nat
    BY DEF Chunks
<1>2. \A n \in Nat : n % 2 \in 0 .. 1
    OBVIOUS
<1>3. c.len % 2 \in Nat
    BY <1>1, <1>2
<1> DEFINE r == c.len % 2
           n == c.len
<1>4. Length(c) = 8 + n + r
    BY DEF Length
<1> HIDE DEF n, r
<1> QED
    BY <1>1, <1>3, <1>4 DEF n, r

\* What Offset takes its value from, so that one can speak of it.
IsOffsets(at, riff) ==
    at = [k \in 1 .. Len(riff) + 1 |-> IF k = 1 THEN 12 
                                         ELSE at[k - 1] + 8 + riff[k - 1].len
                                                + (riff[k - 1].len % 2)]

Offsets(riff) == CHOOSE at : IsOffsets(at, riff)

\* g has the right offset for chunk k.
OffsetRight(g, riff, k) == g[k] = IF k = 1 THEN 12 ELSE g[k - 1] + Length(riff[k - 1])

(***************************************************************************)
(* The recursion of Offset has a solution: step by step for the first n    *)
(* chunks.                                                                 *)
(***************************************************************************)
LEMMA OffsetsExist ==
    ASSUME NEW riff \in Seq(Chunks)
    PROVE  \E g \in [1 .. Len(riff) + 1 -> Nat] :
              \A k \in 1 .. Len(riff) + 1 : OffsetRight(g, riff, k)
<1> DEFINE P(n) == \E g \in [1 .. Len(riff) + 1 -> Nat] :
                      \A k \in 1 .. Len(riff) + 1 : k <= n => OffsetRight(g, riff, k)
           S == {n \in Nat : P(n)}
<1>1. P(0)
    <2>1. [k \in 1 .. Len(riff) + 1 |-> 0] \in [1 .. Len(riff) + 1 -> Nat]
        OBVIOUS
    <2>2. \A k \in 1 .. Len(riff) + 1 : ~ (k <= 0)
        OBVIOUS
    <2> QED
        BY <2>1, <2>2
<1>2. ASSUME NEW n \in Nat, P(n)
      PROVE  P(n + 1)
    <2>1. PICK g \in [1 .. Len(riff) + 1 -> Nat] :
              \A k \in 1 .. Len(riff) + 1 : k <= n => OffsetRight(g, riff, k)
        BY <1>2
    <2> DEFINE new == IF n = 0 THEN 12 ELSE g[n] + Length(riff[n])
               h == [g EXCEPT ![n + 1] = new]
    <2>2. CASE n + 1 > Len(riff) + 1
        BY <2>1, <2>2
    <2>3. CASE n + 1 \in 1 .. Len(riff) + 1
        <3>1. new \in Nat
            <4>1. CASE n = 0
                BY <4>1
            <4>2. CASE n # 0
                <5>1. n \in 1 .. Len(riff)
                    BY <2>3, <4>2
                <5>2. riff[n] \in Chunks /\ g[n] \in Nat
                    BY <5>1, <2>1
                <5> QED
                    BY <4>2, <5>2, LengthIs
            <4> QED
                BY <4>1, <4>2
        <3>2. h \in [1 .. Len(riff) + 1 -> Nat] /\ h[n + 1] = new
            BY <2>3, <3>1
        <3>3. \A k \in 1 .. Len(riff) + 1 : k <= n => h[k] = g[k]
            BY <2>1
        <3>4. ASSUME NEW k \in 1 .. Len(riff) + 1, k <= n + 1
              PROVE  OffsetRight(h, riff, k)
            <4>1. CASE k <= n
                <5>1. h[k] = g[k] /\ (k # 1 => h[k - 1] = g[k - 1])
                    BY <3>3, <4>1
                <5>2. OffsetRight(g, riff, k)
                    BY <2>1, <4>1
                <5> HIDE DEF h
                <5> QED
                    BY <5>1, <5>2 DEF OffsetRight
            <4>2. CASE k = n + 1
                <5>1. n # 0 => h[n] = g[n]
                    BY <3>3, <2>3
                <5>2. k - 1 = n /\ (k = 1 <=> n = 0)
                    BY <4>2
                <5> HIDE DEF h
                <5>3. h[k] = IF k = 1 THEN 12 ELSE g[n] + Length(riff[n])
                    BY <3>2, <4>2, <5>2
                <5> QED
                    BY <5>1, <5>2, <5>3 DEF OffsetRight
            <4> QED
                BY <3>4, <4>1, <4>2
        <3> HIDE DEF h
        <3> QED
            BY <3>2, <3>4
    <2> QED
        BY <2>2, <2>3
<1> HIDE DEF P
<1>3. S \in SUBSET Nat /\ Inductive(S)
    BY <1>1, <1>2 DEF Inductive
<1>4. \A n \in Nat : n \in S
    BY <1>3, Induct
<1>5. P(Len(riff) + 1)
    BY <1>4
<1> QED
    BY <1>5 DEF P

\* So Offset is one.
LEMMA OffsetsAre ==
    ASSUME NEW riff \in Seq(Chunks)
    PROVE  /\ \A i : Offset(riff, i) = Offsets(riff)[i]
           /\ IsOffsets(Offsets(riff), riff)
<1>1. PICK g \in [1 .. Len(riff) + 1 -> Nat] :
         \A k \in 1 .. Len(riff) + 1 : OffsetRight(g, riff, k)
    BY OffsetsExist
<1>2. g = [k \in 1 .. Len(riff) + 1 |-> g[k]]
    OBVIOUS
<1>3. ASSUME NEW k \in 1 .. Len(riff) + 1
      PROVE  g[k] = IF k = 1 THEN 12 
                    ELSE g[k - 1] + 8 + riff[k - 1].len + (riff[k - 1].len % 2)
    <2>1. CASE k = 1
        BY <1>1, <2>1 DEF OffsetRight
    <2>2. CASE k # 1
        <3>1. k - 1 \in 1 .. Len(riff) + 1 /\ k - 1 \in 1 .. Len(riff)
            BY <2>2
        <3>2. g[k - 1] \in Nat /\ riff[k - 1] \in Chunks
            BY <3>1
        <3>3. riff[k - 1].len \in Nat /\ riff[k - 1].len % 2 \in Nat
            BY <3>2 DEF Chunks
        <3>4. g[k] = g[k - 1] + Length(riff[k - 1])
            BY <1>1, <2>2 DEF OffsetRight
        <3>5. g[k] = g[k - 1] + (8 + riff[k - 1].len + (riff[k - 1].len % 2))
            BY <3>4 DEF Length
        <3> DEFINE l == riff[k - 1].len
                   r == riff[k - 1].len % 2
                   o == g[k - 1]
        <3>6. l \in Nat /\ r \in Nat /\ o \in Nat /\ g[k] = o + (8 + l + r)
            BY <3>2, <3>3, <3>5
        <3> HIDE DEF l, r, o
        <3>7. g[k] = o + 8 + l + r
            BY <3>6
        <3> QED
            BY <2>2, <3>7 DEF l, r, o
    <2> QED
        BY <2>1, <2>2
<1>4. IsOffsets(g, riff)
    BY <1>2, <1>3 DEF IsOffsets
<1>5. IsOffsets(Offsets(riff), riff)
    BY <1>4 DEF Offsets
<1>6. \A i : Offset(riff, i) = Offsets(riff)[i]
    BY DEF Offset, Offsets, IsOffsets
<1> QED
    BY <1>5, <1>6

\* Each chunk begins behind the one before it, the first at byte 12.
LEMMA OffsetNext ==
    ASSUME NEW riff \in Seq(Chunks)
    PROVE  /\ \A i \in 1 .. Len(riff) + 1 : Offset(riff, i) \in Nat
           /\ Offset(riff, 1) = 12
           /\ \A i \in 1 .. Len(riff) :
                Offset(riff, i + 1) = Offset(riff, i) + Length(riff[i])
<1> DEFINE at == Offsets(riff)
<1>1. /\ \A i : Offset(riff, i) = at[i]
      /\ \A k \in 1 .. Len(riff) + 1 :
            at[k] = IF k = 1 THEN 12 ELSE at[k - 1] + 8 + riff[k - 1].len
                                            + (riff[k - 1].len % 2)
    BY OffsetsAre DEF IsOffsets
<1> HIDE DEF at
<1>2. at[1] = 12
    BY <1>1
<1>3. ASSUME NEW i \in 1 .. Len(riff), at[i] \in Nat
      PROVE  at[i + 1] = at[i] + Length(riff[i]) /\ at[i + 1] \in Nat
    <2>1. i + 1 \in 1 .. Len(riff) + 1 /\ i + 1 # 1 /\ (i + 1) - 1 = i
        OBVIOUS
    <2>2. at[i + 1] = at[i] + 8 + riff[i].len + (riff[i].len % 2)
        BY <1>1, <2>1
    <2>3. riff[i] \in Chunks
        OBVIOUS
    <2> DEFINE l == riff[i].len
               r == riff[i].len % 2
               o == at[i]
    <2>4. l \in Nat /\ r \in Nat /\ at[i + 1] = o + 8 + l + r /\ Length(riff[i]) = 8 + l + r
        BY <2>2, <2>3 DEF Chunks, Length
    <2>5. o \in Nat
        BY <1>3
    <2> HIDE DEF l, r, o
    <2>6. at[i + 1] = o + (8 + l + r) /\ at[i + 1] \in Nat
        BY <2>4, <2>5
    <2> QED
        BY <2>4, <2>6 DEF o
<1> DEFINE S == {n \in Nat : n < Len(riff) + 1 => at[n + 1] \in Nat}
<1>4. 0 \in S
    BY <1>2
<1>5. ASSUME NEW n \in S PROVE n + 1 \in S
    <2> SUFFICES ASSUME n + 1 < Len(riff) + 1 PROVE at[(n + 1) + 1] \in Nat
        OBVIOUS
    <2>1. n + 1 \in 1 .. Len(riff) /\ at[n + 1] \in Nat
        OBVIOUS
    <2> QED
        BY <1>3, <2>1
<1>6. \A n \in Nat : n \in S
    <2>1. S \in SUBSET Nat
        OBVIOUS
    <2> HIDE DEF S
    <2> QED
        BY <1>4, <1>5, <2>1, Induct DEF Inductive
<1>7. ASSUME NEW i \in 1 .. Len(riff) + 1 PROVE at[i] \in Nat
    <2>1. i - 1 \in Nat /\ i - 1 < Len(riff) + 1 /\ (i - 1) + 1 = i
        OBVIOUS
    <2>2. i - 1 \in S
        BY <1>6, <2>1
    <2> QED
        BY <2>1, <2>2
<1>8. ASSUME NEW i \in 1 .. Len(riff) PROVE at[i + 1] = at[i] + Length(riff[i])
    BY <1>3, <1>7
<1> QED
    BY <1>1, <1>2, <1>7, <1>8

\* And so no two at the same offset, nor closer than a header.
LEMMA OffsetGrows ==
    ASSUME NEW riff \in Seq(Chunks),
           NEW i \in 1 .. Len(riff) + 1, NEW j \in 1 .. Len(riff) + 1, i < j
    PROVE  Offset(riff, i) + 8 <= Offset(riff, j)
<1> DEFINE S == {n \in Nat : i + 1 + n <= Len(riff) + 1 =>
                                Offset(riff, i) + 8 <= Offset(riff, i + 1 + n)}
<1>1. \A k \in 1 .. Len(riff) :
        /\ Offset(riff, k + 1) = Offset(riff, k) + Length(riff[k])
        /\ Offset(riff, k) \in Nat /\ Offset(riff, k + 1) \in Nat
        /\ Length(riff[k]) \in Nat /\ Length(riff[k]) >= 8
    BY OffsetNext, LengthIs
<1>2. 0 \in S
    <2>1. i \in 1 .. Len(riff)
        OBVIOUS
    <2> QED
        BY <1>1, <2>1
<1>3. ASSUME NEW n \in S PROVE n + 1 \in S
    <2> SUFFICES ASSUME i + 1 + (n + 1) <= Len(riff) + 1
                 PROVE  Offset(riff, i) + 8 <= Offset(riff, i + 1 + (n + 1))
        OBVIOUS
    <2> DEFINE k == i + 1 + n
    <2>1. k \in 1 .. Len(riff) /\ i \in 1 .. Len(riff) /\ i + 1 + (n + 1) = k + 1
        OBVIOUS
    <2>2. Offset(riff, i) + 8 <= Offset(riff, k)
        BY <2>1
    <2> HIDE DEF k
    <2>3. /\ Offset(riff, k + 1) = Offset(riff, k) + Length(riff[k])
          /\ Offset(riff, k) \in Nat /\ Offset(riff, i) \in Nat /\ Length(riff[k]) \in Nat
        BY <1>1, <2>1
    <2> QED
        BY <2>1, <2>2, <2>3
<1>4. \A n \in Nat : n \in S
    <2>1. S \in SUBSET Nat
        OBVIOUS
    <2> HIDE DEF S
    <2> QED
        BY <1>2, <1>3, <2>1, Induct DEF Inductive
<1>5. j - i - 1 \in Nat /\ i + 1 + (j - i - 1) = j
    OBVIOUS
<1>6. j - i - 1 \in S
    BY <1>4, <1>5
<1> QED
    BY <1>5, <1>6

\* Whatever is read as a header, the scan goes on behind it.
LEMMA HeaderIs ==
    ASSUME NEW riff \in Seq(Chunks), NEW o \in Nat
    PROVE  HeaderAt(riff, o).size \in Nat /\ NextOffset(o, HeaderAt(riff, o)) \in Nat
           /\ NextOffset(o, HeaderAt(riff, o)) > o
<1>1. FileEnd(riff) \in Nat
    <2>1. Len(riff) + 1 \in 1 .. Len(riff) + 1
        OBVIOUS
    <2> QED
        BY <2>1, OffsetNext DEF FileEnd
<1>2. HeaderAt(riff, o).size \in Nat
    <2>1. CASE \E i \in DOMAIN riff : Offset(riff, i) = o
        <3> DEFINE i == CHOOSE k \in DOMAIN riff : Offset(riff, k) = o
        <3>1. i \in DOMAIN riff
            BY <2>1
        <3>2. HeaderAt(riff, o) = riff[i]
            BY <2>1 DEF HeaderAt
        <3> HIDE DEF i
        <3>3. riff[i] \in Chunks
            BY <3>1
        <3> QED
            BY <3>2, <3>3 DEF Chunks
    <2>2. CASE ~ \E i \in DOMAIN riff : Offset(riff, i) = o
        BY <1>1, <2>2 DEF HeaderAt, Junk
    <2> QED
        BY <2>1, <2>2
<1> DEFINE n == HeaderAt(riff, o).size
<1>3. NextOffset(o, HeaderAt(riff, o)) = o + 8 + n
    BY DEF NextOffset
<1>4. n \in Nat
    BY <1>2
<1> HIDE DEF n
<1>5. o + 8 + n \in Nat /\ o + 8 + n > o
    BY <1>4
<1> QED
    BY <1>2, <1>3, <1>5

\* What the scan does at offset o, when g is what it does further on.
ScanValue(g, riff, o) ==
    IF o + 8 > FileEnd(riff) THEN [offset |-> 44, size |-> Junk(riff).size]
    ELSE IF HeaderAt(riff, o).id = "data"
         THEN [offset |-> o + 8, size |-> HeaderAt(riff, o).size]
         ELSE g[NextOffset(o, HeaderAt(riff, o))]

IsScan(g, riff) == g = [o \in Nat |-> ScanValue(g, riff, o)]

ScanFrom(riff) == CHOOSE g : IsScan(g, riff)

(***************************************************************************)
(* The scan ends: it has a value at every offset that is at most n bytes   *)
(* before the end of the file, for every n.                                *)
(***************************************************************************)
LEMMA ScanExists ==
    ASSUME NEW riff \in Seq(Chunks)
    PROVE  \E g : IsScan(g, riff)
<1> DEFINE E == FileEnd(riff)
           Right(g, o) == g[o] = ScanValue(g, riff, o)
           P(n) == \E g : g = [o \in Nat |-> g[o]] /\ \A o \in Nat : o + n > E => Right(g, o)
           S == {n \in Nat : P(n)}
<1>0. E \in Nat
    <2>1. Len(riff) + 1 \in 1 .. Len(riff) + 1
        OBVIOUS
    <2> QED
        BY <2>1, OffsetNext DEF FileEnd
<1>1. P(0)
    <2> DEFINE g == [o \in Nat |-> [offset |-> 44, size |-> Junk(riff).size]]
    <2>1. ASSUME NEW o \in Nat, o + 0 > E
          PROVE  Right(g, o)
        <3>1. o + 8 > E
            BY <2>1, <1>0
        <3> QED
            BY <3>1 DEF ScanValue
    <2>2. g = [o \in Nat |-> g[o]]
        OBVIOUS
    <2> HIDE DEF g, Right
    <2> QED
        BY <2>1, <2>2
<1>2. ASSUME NEW n \in Nat, P(n)
      PROVE  P(n + 1)
    <2>1. PICK g : g = [o \in Nat |-> g[o]] /\ \A o \in Nat : o + n > E => Right(g, o)
        BY <1>2
    <2> DEFINE h == [o \in Nat |-> IF o + n = E THEN ScanValue(g, riff, o) ELSE g[o]]
    <2>2. h = [o \in Nat |-> h[o]]
        OBVIOUS
    <2>3. ASSUME NEW o \in Nat, o + (n + 1) > E
          PROVE  Right(h, o)
        <3> DEFINE x == NextOffset(o, HeaderAt(riff, o))
        <3>1. x \in Nat /\ x > o
            BY HeaderIs
        <3> HIDE DEF x
        <3>2. x + n # E
            BY <2>3, <3>1, <1>0
        <3>3. h[x] = g[x]
            BY <3>1, <3>2
        <3>4. ScanValue(h, riff, o) = ScanValue(g, riff, o)
            BY <3>3 DEF ScanValue, x
        <3>5. CASE o + n = E
            BY <3>4, <3>5
        <3>6. CASE o + n # E
            <4>1. o + n > E
                BY <2>3, <3>6, <1>0
            <4>2. Right(g, o) /\ h[o] = g[o]
                BY <2>1, <4>1, <3>6
            <4> HIDE DEF h
            <4> QED
                BY <3>4, <4>2
        <3> QED
            BY <3>5, <3>6
    <2> HIDE DEF h, Right
    <2> QED
        BY <2>2, <2>3
<1>3. \A n \in Nat : n \in S
    <2>1. S \in SUBSET Nat
        OBVIOUS
    <2>2. Inductive(S)
        <3> HIDE DEF P
        <3> QED
            BY <1>1, <1>2 DEF Inductive
    <2> HIDE DEF S
    <2> QED
        BY <2>1, <2>2, Induct
<1>4. P(E + 1)
    <2> HIDE DEF P
    <2> QED
        BY <1>0, <1>3
<1>5. PICK g : g = [o \in Nat |-> g[o]] /\ \A o \in Nat : o + (E + 1) > E => Right(g, o)
    BY <1>4
<1>6. \A o \in Nat : o + (E + 1) > E
    BY <1>0
<1> HIDE DEF E
<1>7. \A o \in Nat : g[o] = ScanValue(g, riff, o)
    BY <1>5, <1>6
<1>8. g = [o \in Nat |-> ScanValue(g, riff, o)]
    BY <1>5, <1>7
<1> QED
    BY <1>8 DEF IsScan

\* So it can be followed from one offset to the next.
LEMMA ScanUnfolds ==
    ASSUME NEW riff \in Seq(Chunks)
    PROVE  /\ Scan(riff) = ScanFrom(riff)[12]
           /\ \A o \in Nat : ScanFrom(riff)[o] = ScanValue(ScanFrom(riff), riff, o)
<1>1. IsScan(ScanFrom(riff), riff)
    BY ScanExists DEF ScanFrom
<1>2. Scan(riff) = ScanFrom(riff)[12]
    BY DEF Scan, ScanFrom, IsScan, ScanValue
<1> DEFINE g == ScanFrom(riff)
<1> HIDE DEF g
<1>3. \A o \in Nat : g[o] = ScanValue(g, riff, o)
    BY <1>1 DEF IsScan, g
<1> QED
    BY <1>2, <1>3 DEF g

\* Where a chunk begins its header is read, and not another's.
LEMMA HeaderHere ==
    ASSUME NEW riff \in Seq(Chunks), NEW i \in 1 .. Len(riff)
    PROVE  HeaderAt(riff, Offset(riff, i)) = riff[i]
<1>1. \A j \in 1 .. Len(riff) : Offset(riff, j) = Offset(riff, i) => j = i
    <2> SUFFICES ASSUME NEW j \in 1 .. Len(riff), j # i
                 PROVE  Offset(riff, j) # Offset(riff, i)
        OBVIOUS
    <2>1. /\ i \in 1 .. Len(riff) + 1 /\ j \in 1 .. Len(riff) + 1
          /\ Offset(riff, i) \in Nat /\ Offset(riff, j) \in Nat
        BY OffsetNext
    <2>2. CASE i < j
        BY <2>1, <2>2, OffsetGrows
    <2>3. CASE j < i
        BY <2>1, <2>3, OffsetGrows
    <2> QED
        BY <2>2, <2>3
<1>2. DOMAIN riff = 1 .. Len(riff)
    OBVIOUS
<1> DEFINE o == Offset(riff, i)
           k == CHOOSE j \in DOMAIN riff : Offset(riff, j) = o
<1>3. k \in DOMAIN riff /\ Offset(riff, k) = o
    BY <1>2
<1>4. HeaderAt(riff, o) = riff[k]
    BY <1>2 DEF HeaderAt
<1> HIDE DEF k
<1> QED
    BY <1>1, <1>2, <1>3, <1>4

\* The chunks before chunk d are no data and need no pad byte.
PlainBefore(riff, d) ==
    \A i \in 1 .. d - 1 :
        riff[i].id # "data" /\ riff[i].size = riff[i].len /\ riff[i].len % 2 = 0

\* The scan goes from chunk to chunk until it comes to the data.
LEMMA ScanReaches ==
    ASSUME NEW riff \in Seq(Chunks), NEW d \in 1 .. Len(riff), PlainBefore(riff, d)
    PROVE  Scan(riff) = ScanFrom(riff)[Offset(riff, d)]
<1> DEFINE g == ScanFrom(riff)
           S == {n \in Nat : n < d => g[12] = g[Offset(riff, n + 1)]}
<1>1. 0 \in S
    BY OffsetNext
<1>2. ASSUME NEW n \in S PROVE n + 1 \in S
    <2> SUFFICES ASSUME n + 1 < d
                 PROVE  g[12] = g[Offset(riff, (n + 1) + 1)]
        OBVIOUS
    <2> DEFINE i == n + 1
               o == Offset(riff, i)
               c == riff[i]
    <2>1. /\ i \in 1 .. d - 1 /\ i \in 1 .. Len(riff) /\ i + 1 \in 1 .. Len(riff) + 1
          /\ i < Len(riff) + 1
        OBVIOUS
    <2>2. g[12] = g[o]
        BY <2>1
    <2>3. c.id # "data" /\ c.size = c.len /\ c.len % 2 = 0
        BY <2>1 DEF PlainBefore
    <2>4. HeaderAt(riff, o) = c
        BY <2>1, HeaderHere
    <2>5. /\ o \in Nat /\ Offset(riff, i + 1) = o + Length(c) /\ c \in Chunks
          /\ FileEnd(riff) \in Nat /\ o + 8 <= FileEnd(riff)
        <3>1. o \in Nat /\ Offset(riff, i + 1) = o + Length(c) /\ c \in Chunks
            BY <2>1, OffsetNext
        <3>2. Len(riff) + 1 \in 1 .. Len(riff) + 1 /\ i \in 1 .. Len(riff) + 1
            BY <2>1
        <3> HIDE DEF i, c
        <3>3. FileEnd(riff) \in Nat
            BY <3>2, OffsetNext DEF FileEnd
        <3>4. o + 8 <= FileEnd(riff)
            BY <2>1, <3>2, OffsetGrows DEF FileEnd
        <3> QED
            BY <3>1, <3>3, <3>4
    <2>6. g[o] = ScanValue(g, riff, o)
        BY <2>5, ScanUnfolds
    <2> HIDE DEF o, c, g
    <2>7. ~ (o + 8 > FileEnd(riff))
        BY <2>5
    <2>8. g[o] = g[NextOffset(o, c)]
        BY <2>3, <2>4, <2>6, <2>7 DEF ScanValue
    <2>9. NextOffset(o, c) = Offset(riff, i + 1)
        <3>1. c.len \in Nat /\ Length(c) = 8 + c.len + 0
            BY <2>3, <2>5 DEF Length, Chunks
        <3> DEFINE l == c.len
        <3>2. NextOffset(o, c) = o + 8 + l /\ l \in Nat /\ Length(c) = 8 + l + 0
            BY <2>3, <3>1 DEF NextOffset
        <3> HIDE DEF l
        <3> QED
            BY <2>5, <3>2
    <2> QED
        BY <2>2, <2>8, <2>9
<1>3. \A n \in Nat : n \in S
    <2>1. S \in SUBSET Nat
        OBVIOUS
    <2> HIDE DEF S
    <2> QED
        BY <1>1, <1>2, <2>1, Induct DEF Inductive
<1>4. d - 1 \in Nat /\ d - 1 < d /\ (d - 1) + 1 = d
    OBVIOUS
<1>5. g[12] = g[Offset(riff, d)]
    <2>1. d - 1 \in S
        BY <1>3, <1>4
    <2> HIDE DEF g
    <2> QED
        BY <1>4, <2>1
<1> QED
    BY <1>5, ScanUnfolds

\* At byte 44 at once, or else by the scan.
LEMMA ParserScans ==
    ASSUME NEW riff \in Seq(Chunks), NEW d \in 1 .. Len(riff),
           \A i \in 1 .. Len(riff) : riff[i].id = "data" <=> i = d,
           PlainBefore(riff, d)
    PROVE  Parsed(riff) = [offset |-> Offset(riff, d) + 8, size |-> riff[d].size]
<1>0. riff[d].id = "data"
    OBVIOUS
<1>1. /\ Offset(riff, d) \in Nat /\ FileEnd(riff) \in Nat
      /\ Offset(riff, d) + 8 <= FileEnd(riff)
    <2>1. d \in 1 .. Len(riff) + 1 /\ Len(riff) + 1 \in 1 .. Len(riff) + 1 /\ d < Len(riff) + 1
        OBVIOUS
    <2> QED
        BY <2>1, OffsetNext, OffsetGrows DEF FileEnd
<1>2. HeaderAt(riff, Offset(riff, d)) = riff[d]
    BY HeaderHere
<1>3. CASE HeaderAt(riff, 36).id = "data"
    <2>1. \E i \in DOMAIN riff : Offset(riff, i) = 36
        BY <1>3 DEF HeaderAt, Junk
    <2>2. PICK i \in 1 .. Len(riff) : Offset(riff, i) = 36
        BY <2>1
    <2>3. HeaderAt(riff, 36) = riff[i]
        BY <2>2, HeaderHere
    <2>4. i = d
        BY <1>3, <2>3
    <2> QED
        BY <1>3, <2>2, <2>3, <2>4 DEF Parsed
<1>4. CASE HeaderAt(riff, 36).id # "data"
    <2>1. Parsed(riff) = ScanFrom(riff)[Offset(riff, d)]
        BY <1>4, ScanReaches DEF Parsed
    <2>2. ~ (Offset(riff, d) + 8 > FileEnd(riff))
        BY <1>1
    <2>3. ScanFrom(riff)[Offset(riff, d)] = ScanValue(ScanFrom(riff), riff, Offset(riff, d))
        BY <1>1, ScanUnfolds
    <2> QED
        BY <1>0, <1>2, <2>1, <2>2, <2>3 DEF ScanValue
<1> QED
    BY <1>3, <1>4

(***************************************************************************)
(* parseWavHeader finds the data of every well-formed file, whatever       *)
(* chunks are before and behind it, and however many.  The file has the 44 *)
(* bytes that parseWavHeader begins by reading.                            *)
(***************************************************************************)
THEOREM ParserFindsData ==
    ASSUME NEW riff, WellFormed(riff)
    PROVE  /\ 44 <= FileEnd(riff)
           /\ \E d \in DOMAIN riff :
                /\ riff[d].id = "data"
                /\ Parsed(riff) = [offset |-> Offset(riff, d) + 8, size |-> riff[d].size]
<1>1. riff \in Seq(Chunks) /\ DOMAIN riff = 1 .. Len(riff) /\ Len(riff) \in Nat
    BY DEF WellFormed, Chunks
<1>2. PICK d \in 1 .. Len(riff) :
        /\ \A i \in 1 .. Len(riff) : riff[i].id = "data" <=> i = d
        /\ \E i \in 1 .. d - 1 : riff[i].id = "fmt" /\ riff[i].len >= 16
        /\ \A i \in 1 .. d - 1 : riff[i].size = riff[i].len /\ riff[i].len % 2 = 0
    BY <1>1 DEF WellFormed
<1>3. PlainBefore(riff, d)
    <2> SUFFICES ASSUME NEW i \in 1 .. d - 1
                 PROVE  riff[i].id # "data" /\ riff[i].size = riff[i].len
                        /\ riff[i].len % 2 = 0
        BY DEF PlainBefore
    <2>1. i \in 1 .. Len(riff) /\ i # d
        OBVIOUS
    <2> QED
        BY <1>2, <2>1
<1>4. Parsed(riff) = [offset |-> Offset(riff, d) + 8, size |-> riff[d].size]
    BY <1>1, <1>2, <1>3, ParserScans
<1>5. 44 <= FileEnd(riff)
    <2>1. PICK i \in 1 .. d - 1 : riff[i].len >= 16
        BY <1>2
    <2>2. /\ i \in 1 .. Len(riff) /\ i \in 1 .. Len(riff) + 1 /\ i + 1 \in 1 .. Len(riff) + 1
          /\ d \in 1 .. Len(riff) + 1 /\ 1 \in 1 .. Len(riff) + 1
          /\ Len(riff) + 1 \in 1 .. Len(riff) + 1 /\ d < Len(riff) + 1
        OBVIOUS
    <2>3. /\ Offset(riff, 1) = 12
          /\ \A k \in 1 .. Len(riff) + 1 : Offset(riff, k) \in Nat
          /\ Offset(riff, i + 1) = Offset(riff, i) + Length(riff[i])
        BY <1>1, <2>2, OffsetNext
    <2>4. Offset(riff, i) >= 12
        BY <1>1, <2>2, <2>3, OffsetGrows
    <2>5. Length(riff[i]) \in Nat /\ Length(riff[i]) >= 24
        <3>1. riff[i] \in Chunks
            BY <1>1, <2>2
        <3>2. Length(riff[i]) \in Nat /\ Length(riff[i]) >= 8 + riff[i].len /\ riff[i].len \in Nat
            BY <3>1, LengthIs DEF Chunks
        <3> QED
            BY <2>1, <3>2
    <2>6. Offset(riff, i + 1) >= 36
        BY <2>2, <2>3, <2>4, <2>5
    <2>7. Offset(riff, d) >= 36
        <3>1. CASE d = i + 1
            BY <2>6, <3>1
        <3>2. CASE i + 1 < d
            BY <1>1, <2>2, <2>3, <2>6, <3>2, OffsetGrows
        <3> QED
            BY <3>1, <3>2
    <2>8. Offset(riff, d) + 8 <= Offset(riff, Len(riff) + 1)
        BY <1>1, <2>2, OffsetGrows
    <2> QED
        BY <2>2, <2>3, <2>7, <2>8 DEF FileEnd
<1> QED
    BY <1>1, <1>2, <1>4, <1>5

-----------------------------------------------------------------------------
\* What there is to play of the file: n bytes of audio at offset o.
AudioLies(o, n) ==
    /\ Parsed(file).offset = o
    /\ \/ Parsed(file).size = n /\ n > 0 /\ o + n <= FileEnd(file)
       \/ Parsed(file).size = 0 /\ o + n = FileEnd(file)
    /\ FileEnd(file) \in Nat
    /\ Audio[file] = [k \in 1 .. n \div ChunkBytes |-> o + (k - 1) * ChunkBytes]

\* Of every file there is to play the parser finds the audio.
LEMMA AudioIs ==
    ASSUME file \in Files
    PROVE  /\ Parsed(file) \in [offset : Nat, size : Nat]
           /\ \E o, n \in Nat : AudioLies(o, n)
<1>1. WellFormed(file)
    BY ReplayAssumption
<1>2. file \in Seq(Chunks) /\ DOMAIN file = 1 .. Len(file)
    BY <1>1 DEF WellFormed, Chunks
<1>3. PICK d \in 1 .. Len(file) :
        /\ \A i \in 1 .. Len(file) : file[i].id = "data" <=> i = d
        /\ \A i \in 1 .. d - 1 : file[i].size = file[i].len /\ file[i].len % 2 = 0
        /\ \/ file[d].size = file[d].len /\ file[d].len > 0
           \/ file[d].size = 0 /\ d = Len(file) /\ file[d].len % 2 = 0
    BY <1>1, <1>2 DEF WellFormed
<1>4. PlainBefore(file, d)
    <2> SUFFICES ASSUME NEW i \in 1 .. d - 1
                 PROVE  file[i].id # "data" /\ file[i].size = file[i].len
                        /\ file[i].len % 2 = 0
        BY DEF PlainBefore
    <2>1. i \in 1 .. Len(file) /\ i # d
        OBVIOUS
    <2> QED
        BY <1>3, <2>1
<1>5. Parsed(file) = [offset |-> Offset(file, d) + 8, size |-> file[d].size]
    BY <1>2, <1>3, <1>4, ParserScans
<1>6. file[d] \in Chunks /\ file[d].size \in Nat /\ file[d].len \in Nat
    <2>1. file[d] \in Chunks
        BY <1>2
    <2> QED
        BY <2>1 DEF Chunks
<1> DEFINE o == Offset(file, d) + 8
           n == file[d].len
<1>7. /\ Offset(file, d) \in Nat /\ FileEnd(file) \in Nat
      /\ Offset(file, d + 1) = Offset(file, d) + Length(file[d])
      /\ Length(file[d]) >= 8 + n /\ Length(file[d]) \in Nat
    <2>1. Len(file) + 1 \in 1 .. Len(file) + 1 /\ d \in 1 .. Len(file) + 1
        OBVIOUS
    <2> QED
        BY <1>2, <1>6, <2>1, OffsetNext, LengthIs DEF FileEnd
<1>8. Offset(file, d + 1) <= FileEnd(file)
    <2>1. CASE d = Len(file)
        BY <1>7, <2>1 DEF FileEnd
    <2>2. CASE d < Len(file)
        <3>1. d + 1 \in 1 .. Len(file) + 1 /\ Len(file) + 1 \in 1 .. Len(file) + 1
              /\ d + 1 < Len(file) + 1
            BY <2>2
        <3>2. Offset(file, d + 1) + 8 <= FileEnd(file) /\ Offset(file, d + 1) \in Nat
            BY <1>2, <3>1, OffsetGrows, OffsetNext DEF FileEnd
        <3> QED
            BY <1>7, <3>2
    <2> QED
        BY <2>1, <2>2
<1>9. o + n <= FileEnd(file) /\ o \in Nat
    <2> DEFINE l == Length(file[d])
    <2>1. l >= 8 + n /\ l \in Nat /\ n \in Nat
        BY <1>6, <1>7
    <2>2. Offset(file, d) + l <= FileEnd(file)
        BY <1>7, <1>8
    <2> HIDE DEF l, n
    <2> QED
        BY <1>7, <2>1, <2>2
<1>10. d = Len(file) /\ n % 2 = 0 => o + n = FileEnd(file)
    <2> SUFFICES ASSUME d = Len(file), n % 2 = 0 PROVE o + n = FileEnd(file)
        OBVIOUS
    <2>1. FileEnd(file) = Offset(file, d) + Length(file[d])
        BY <1>7 DEF FileEnd
    <2>2. Length(file[d]) = 8 + n + 0
        BY DEF Length
    <2>3. FileEnd(file) = Offset(file, d) + (8 + n + 0)
        BY <2>1, <2>2
    <2>4. Offset(file, d) \in Nat /\ n \in Nat
        BY <1>6, <1>7
    <2> HIDE DEF n
    <2> QED
        BY <2>3, <2>4
<1>11. Audio[file] = [k \in 1 .. n \div ChunkBytes |-> o + (k - 1) * ChunkBytes]
    <2> DEFINE c == CHOOSE i \in DOMAIN file : file[i].id = "data"
    <2>1. c = d
        <3>1. c \in DOMAIN file /\ file[c].id = "data"
            BY <1>2, <1>3
        <3> HIDE DEF c
        <3> QED
            BY <1>2, <1>3, <3>1
    <2>2. Audio[file] = [k \in 1 .. file[c].len \div ChunkBytes |->
                            Offset(file, c) + 8 + (k - 1) * ChunkBytes]
        BY DEF Audio
    <2> HIDE DEF c
    <2> QED
        BY <2>1, <2>2
<1>12. AudioLies(o, n)
    <2> HIDE DEF o, n
    <2>1. \/ file[d].size = n /\ n > 0
          \/ file[d].size = 0 /\ d = Len(file) /\ n % 2 = 0
        BY <1>3 DEF n
    <2>2. Parsed(file).offset = o /\ Parsed(file).size = file[d].size
        BY <1>5 DEF o
    <2>3. CASE file[d].size = n /\ n > 0
        BY <1>7, <1>9, <1>11, <2>2, <2>3 DEF AudioLies
    <2>4. CASE file[d].size = 0 /\ d = Len(file) /\ n % 2 = 0
        BY <1>7, <1>10, <1>11, <2>2, <2>4 DEF AudioLies
    <2> QED
        BY <2>1, <2>3, <2>4
<1>13. o \in Nat /\ n \in Nat
    BY <1>6, <1>7
<1>14. Parsed(file) \in [offset : Nat, size : Nat]
    BY <1>5, <1>6, <1>13
<1> HIDE DEF o, n
<1> QED
    BY <1>12, <1>13, <1>14

\* Chunk k + 1 is whole exactly if it is one of the n bytes'.
LEMMA ChunkFits ==
    ASSUME NEW n \in Nat, NEW k \in Nat, NEW c \in Nat \ {0}
    PROVE  k + 1 <= n \div c <=> (k + 1) * c <= n
<1> DEFINE q == n \div c
           r == n % c
<1>1. q \in Nat /\ r \in Nat /\ r < c /\ n = c * q + r
    OBVIOUS
<1> HIDE DEF q, r
<1>2. CASE k + 1 <= q
    <2>1. (k + 1) * c <= q * c
        BY <1>1, <1>2
    <2> QED
        BY <1>1, <1>2, <2>1 DEF q
<1>3. CASE q <= k
    <2>1. (q + 1) * c <= (k + 1) * c
        BY <1>1, <1>3
    <2>2. (q + 1) * c = c * q + c
        BY <1>1
    <2>3. n < (k + 1) * c
        BY <1>1, <2>1, <2>2
    <2> QED
        BY <1>1, <1>3, <2>3 DEF q
<1> QED
    BY <1>1, <1>2, <1>3

\* Where the goroutine plays, it has played the first chunks of the audio.
SoFar(a) ==
    /\ wav[a] = Parsed(file)
    /\ \E o, n \in Nat :
        /\ AudioLies(o, n)
        /\ Len(pushed[a]) <= n \div ChunkBytes
        /\ \A k \in 1 .. Len(pushed[a]) : pushed[a][k] = o + (k - 1) * ChunkBytes

Playing == \A a \in Adapters : loop[a] \in {"playing", "reading"} => SoFar(a)

PlayInv == ReplayTypeOK /\ Playing

\* The next chunk can be read exactly if the audio has one more.
LEMMA ReadableIs ==
    ASSUME PlayInv, NEW a \in Adapters, NEW o \in Nat, NEW n \in Nat,
           AudioLies(o, n), wav[a] = Parsed(file)
    PROVE  /\ Len(pushed[a]) \in Nat
           /\ Position(a) = o + Len(pushed[a]) * ChunkBytes /\ Position(a) \in Nat
           /\ Readable(a) <=> Len(pushed[a]) + 1 <= n \div ChunkBytes
<1> DEFINE k == Len(pushed[a])
           c == ChunkBytes
           e == FileEnd(file)
           z == wav[a].size
<1>1. c \in Nat \ {0} /\ k \in Nat
    BY ReplayAssumption DEF PlayInv, ReplayTypeOK
<1>2. /\ wav[a].offset = o /\ e \in Nat
      /\ \/ z = n /\ n > 0 /\ o + n <= e
         \/ z = 0 /\ o + n = e
    BY DEF AudioLies
<1>3. Position(a) = o + k * c
    BY <1>2 DEF Position
<1>4. Readable(a) <=> /\ (o + k * c) + c <= e
                      /\ z > 0 => (k + 1) * c <= z
    BY <1>3 DEF Readable, WithinData
<1>5. k + 1 <= n \div c <=> (k + 1) * c <= n
    BY <1>1, ChunkFits
<1> HIDE DEF k, c, e, z
<1>6. k * c \in Nat /\ (k + 1) * c = k * c + c
    BY <1>1
<1> DEFINE m == k * c
<1>7. m \in Nat /\ (k + 1) * c = m + c
    BY <1>6
<1> HIDE DEF m
<1>8. Readable(a) <=> /\ (o + m) + c <= e
                      /\ z > 0 => m + c <= z
    BY <1>4, <1>7 DEF m
<1>9. Readable(a) <=> m + c <= n
    BY <1>1, <1>2, <1>7, <1>8
<1>10. o + m \in Nat
    BY <1>7
<1> QED
    BY <1>1, <1>3, <1>5, <1>7, <1>9, <1>10 DEF k, c, m

\* A step that moves no goroutine's data.
LEMMA PlayKept ==
    ASSUME PlayInv, ReplayTypeOK', UNCHANGED <<file, wav, pushed>>,
           \A a \in Adapters : loop'[a] \in {"playing", "reading"} =>
                                 loop[a] \in {"playing", "reading"}
    PROVE  PlayInv'
<1> SUFFICES ASSUME NEW a \in Adapters, loop'[a] \in {"playing", "reading"}
             PROVE  SoFar(a)'
    BY DEF PlayInv, Playing
<1>1. SoFar(a)
    BY DEF PlayInv, Playing
<1> QED
    BY <1>1 DEF SoFar, AudioLies

\* A step of a goroutine: the chunk it pushes is the next of the audio.
LEMMA GoroutinePlays ==
    ASSUME PlayInv, NEW a \in Adapters, Goroutine(a)
    PROVE  PlayInv'
<1>0. /\ loop \in [Adapters -> {"unmade", "open", "sleeping", "playing", "reading",
                                "played", "looping", "exited"}]
      /\ wav \in [Adapters -> [offset : Nat, size : Nat]]
      /\ pushed \in [Adapters -> Seq(Nat)] /\ file \in Files
    BY DEF PlayInv, ReplayTypeOK
<1>1. UNCHANGED <<file, mu, replayAdapter, request, main, timedOut, running, cancelled>>
    BY DEF Goroutine, Open, OpenFails, Interrupted, Tick, Read, ReadEnds, ReadFails, Wake,
           Again, Finish, LoopOn, workerVars
<1>2. CASE Open(a)
    <2>1. /\ loop' = [loop EXCEPT ![a] = "playing"]
          /\ wav' = [wav EXCEPT ![a] = Parsed(file)]
          /\ pushed' = [pushed EXCEPT ![a] = <<>>]
        BY <1>2 DEF Open, Goes
    <2>2. Parsed(file) \in [offset : Nat, size : Nat] /\ \E o, n \in Nat : AudioLies(o, n)
        BY <1>0, AudioIs
    <2>3. ReplayTypeOK'
        BY <1>1, <2>1, <2>2 DEF PlayInv, ReplayTypeOK
    <2>4. ASSUME NEW b \in Adapters, b # a, loop'[b] \in {"playing", "reading"}
          PROVE  SoFar(b)'
        <3>1. wav'[b] = wav[b] /\ pushed'[b] = pushed[b] /\ loop'[b] = loop[b]
            BY <1>0, <2>1, <2>4
        <3>2. SoFar(b)
            BY <2>4, <3>1 DEF PlayInv, Playing
        <3> QED
            BY <1>1, <3>1, <3>2 DEF SoFar, AudioLies
    <2>5. SoFar(a)'
        <3>1. wav'[a] = Parsed(file) /\ pushed'[a] = <<>>
            BY <1>0, <2>1
        <3>2. PICK o \in Nat, n \in Nat : AudioLies(o, n)
            BY <2>2
        <3>3. AudioLies(o, n)' /\ Parsed(file)' = Parsed(file)
            BY <1>1, <3>2 DEF AudioLies
        <3>4. n \div ChunkBytes \in Nat
            BY ReplayAssumption
        <3> QED
            BY <3>1, <3>3, <3>4 DEF SoFar
    <2> QED
        BY <2>3, <2>4, <2>5 DEF PlayInv, Playing
<1>3. CASE Read(a)
    <2>1. /\ loop[a] = "reading" /\ loop' = [loop EXCEPT ![a] = "playing"]
          /\ Readable(a) /\ wav' = wav
          /\ pushed' = [pushed EXCEPT ![a] = Append(@, Position(a))]
        BY <1>3 DEF Read, Goes
    <2>2. SoFar(a)
        BY <2>1 DEF PlayInv, Playing
    <2>3. PICK o \in Nat, n \in Nat :
            /\ AudioLies(o, n)
            /\ Len(pushed[a]) <= n \div ChunkBytes
            /\ \A k \in 1 .. Len(pushed[a]) : pushed[a][k] = o + (k - 1) * ChunkBytes
        BY <2>2 DEF SoFar
    <2> DEFINE p == pushed[a]
    <2>4. /\ Len(p) \in Nat /\ Position(a) = o + Len(p) * ChunkBytes
          /\ Position(a) \in Nat /\ Len(p) + 1 <= n \div ChunkBytes
        BY <2>1, <2>2, <2>3, ReadableIs DEF SoFar
    <2>5. p \in Seq(Nat) /\ pushed'[a] = Append(p, Position(a))
        BY <1>0, <2>1
    <2>6. ReplayTypeOK'
        <3>1. pushed' \in [Adapters -> Seq(Nat)]
            BY <1>0, <2>1, <2>4, <2>5
        <3>2. loop' \in [Adapters -> {"unmade", "open", "sleeping", "playing", "reading",
                                      "played", "looping", "exited"}]
            BY <1>0, <2>1
        <3> QED
            BY <1>1, <2>1, <3>1, <3>2 DEF PlayInv, ReplayTypeOK
    <2>7. ASSUME NEW b \in Adapters, b # a, loop'[b] \in {"playing", "reading"}
          PROVE  SoFar(b)'
        <3>1. wav'[b] = wav[b] /\ pushed'[b] = pushed[b] /\ loop'[b] = loop[b]
            BY <1>0, <2>1, <2>7
        <3>2. SoFar(b)
            BY <2>7, <3>1 DEF PlayInv, Playing
        <3> QED
            BY <1>1, <3>1, <3>2 DEF SoFar, AudioLies
    <2>8. SoFar(a)'
        <3> DEFINE q == Append(p, Position(a))
        <3>1. /\ Len(q) = Len(p) + 1
              /\ q[Len(p) + 1] = Position(a)
              /\ \A k \in 1 .. Len(p) : q[k] = p[k]
            BY <2>4, <2>5
        <3>2. pushed'[a] = q
            BY <2>5
        <3> HIDE DEF p, q
        <3>3. \A k \in 1 .. Len(q) : q[k] = o + (k - 1) * ChunkBytes
            <4> TAKE k \in 1 .. Len(q)
            <4>1. CASE k \in 1 .. Len(p)
                BY <2>3, <3>1, <4>1 DEF p
            <4>2. CASE k = Len(p) + 1
                <5>1. k - 1 = Len(p)
                    BY <2>4, <4>2
                <5> QED
                    BY <2>4, <3>1, <4>2, <5>1
            <4> QED
                BY <2>4, <3>1, <4>1, <4>2
        <3>4. AudioLies(o, n)' /\ Parsed(file)' = Parsed(file)
            BY <1>1, <2>3 DEF AudioLies
        <3>5. wav'[a] = Parsed(file)
            BY <2>1, <2>2 DEF SoFar
        <3>6. Len(q) <= n \div ChunkBytes
            BY <2>4, <3>1
        <3> QED
            BY <3>2, <3>3, <3>4, <3>5, <3>6 DEF SoFar
    <2> QED
        BY <2>6, <2>7, <2>8 DEF PlayInv, Playing
<1>4. CASE ~ Open(a) /\ ~ Read(a)
    <2>1. UNCHANGED <<wav, pushed>>
        BY <1>4 DEF Goroutine, OpenFails, Interrupted, Tick, ReadEnds, ReadFails, Wake,
                    Again, Finish, LoopOn
    <2>2. PICK to \in {"open", "sleeping", "playing", "reading", "played", "looping", "exited"} :
            /\ loop' = [loop EXCEPT ![a] = to]
            /\ to \in {"playing", "reading"} => loop[a] \in {"playing", "reading"}
        BY <1>4 DEF Goroutine, OpenFails, Interrupted, Tick, ReadEnds, ReadFails, Wake,
                    Again, Finish, LoopOn, Goes
    <2>3. ReplayTypeOK'
        BY <1>1, <2>1, <2>2 DEF PlayInv, ReplayTypeOK
    <2>4. \A b \in Adapters : loop'[b] \in {"playing", "reading"} =>
                                loop[b] \in {"playing", "reading"}
        BY <1>0, <2>2
    <2> QED
        BY <1>1, <2>1, <2>3, <2>4, PlayKept
<1> QED
    BY <1>2, <1>3, <1>4

\* A step of anybody: nobody else touches what a goroutine has played.
LEMMA NextPlays == PlayInv /\ [Next]_vars => PlayInv'
<1> SUFFICES ASSUME PlayInv, [Next]_vars PROVE PlayInv'
    OBVIOUS
<1>0. ReplayTypeOK
    BY DEF PlayInv
<1>1. ASSUME NEW a \in Adapters, Goroutine(a) PROVE PlayInv'
    BY <1>1, GoroutinePlays
<1>2. ASSUME NEW r \in Requests, NEW kind \in {"start", "stop"}, Arrive(r, kind)
      PROVE  PlayInv'
    <2>1. ReplayTypeOK' /\ UNCHANGED <<file, wav, pushed, loop>>
        BY <1>0, <1>2 DEF ReplayTypeOK, Arrive, Moves, adapterVars
    <2> QED
        BY <2>1, PlayKept
<1>3. ASSUME NEW r \in Requests, Serve(r) PROVE PlayInv'
    <2>1. CASE StartRefused(r) \/ StopRefused(r) \/ StopReplayed(r)
        <3>1. ReplayTypeOK' /\ UNCHANGED <<file, wav, pushed, loop>>
            BY <1>0, <2>1 DEF ReplayTypeOK, StartRefused, StopRefused, StopReplayed,
                              Moves, adapterVars
        <3> QED
            BY <3>1, PlayKept
    <2>2. CASE StopReplay(r)
        <3>1. replayAdapter \in Adapters
            BY <1>0, <2>2 DEF ReplayTypeOK, StopReplay
        <3>2. ReplayTypeOK' /\ UNCHANGED <<file, wav, pushed, loop>>
            BY <1>0, <2>2, <3>1 DEF ReplayTypeOK, StopReplay, StopCancel, Moves
        <3> QED
            BY <3>2, PlayKept
    <2>3. ASSUME NEW a \in Adapters, StartReplay(r, a) PROVE PlayInv'
        <3>1. /\ UNCHANGED <<file, wav, pushed>> /\ ReplayTypeOK'
              /\ loop' = [loop EXCEPT ![a] = "open"]
            BY <1>0, <2>3 DEF ReplayTypeOK, StartReplay, Moves, Goes
        <3>2. \A b \in Adapters : loop'[b] \in {"playing", "reading"} =>
                                    loop[b] \in {"playing", "reading"}
            BY <1>0, <3>1 DEF ReplayTypeOK
        <3> QED
            BY <3>1, <3>2, PlayKept
    <2> QED
        BY <1>3, <2>1, <2>2, <2>3 DEF Serve
<1>4. CASE Signal \/ Shutdown
    <2>1. UNCHANGED <<file, wav, pushed, loop>>
        BY <1>4 DEF Signal, Shutdown, ShutdownReturns, MainStop, MainStopped, adapterVars
    <2>2. ReplayTypeOK'
        <3>1. CASE Signal \/ ShutdownReturns \/ MainStopped
            BY <1>0, <3>1 DEF ReplayTypeOK, Signal, ShutdownReturns, MainStopped, MainGoes,
                              adapterVars, Active
        <3>2. CASE MainStop
            BY <1>0, <3>2 DEF ReplayTypeOK, MainStop, MainGoes, StopCancel
        <3> QED
            BY <1>4, <3>1, <3>2 DEF Shutdown
    <2> QED
        BY <2>1, <2>2, PlayKept
<1>5. CASE UNCHANGED vars
    <2>1. ReplayTypeOK' /\ UNCHANGED <<file, wav, pushed, loop>>
        BY <1>0, <1>5 DEF ReplayTypeOK, vars, workerVars, adapterVars
    <2> QED
        BY <2>1, PlayKept
<1> QED
    BY <1>1, <1>2, <1>3, <1>4, <1>5 DEF Next

LEMMA InitPlays == Init => PlayInv
<1> SUFFICES ASSUME Init PROVE PlayInv
    OBVIOUS
<1>1. ReplayTypeOK
    <2>1. wav \in [Adapters -> [offset : Nat, size : Nat]] /\ pushed \in [Adapters -> Seq(Nat)]
        BY DEF Init
    <2>2. /\ running \subseteq Adapters /\ cancelled \subseteq Adapters
          /\ timedOut \in BOOLEAN /\ mu = Nobody /\ replayAdapter = NoAdapter
          /\ main = "serving" /\ file \in Files
        BY DEF Init
    <2>3. /\ request \in [Requests -> {"new", "start", "stop", "waiting", "done"}]
          /\ loop \in [Adapters -> {"unmade", "open", "sleeping", "playing", "reading",
                                    "played", "looping", "exited"}]
        BY DEF Init
    <2> QED
        BY <2>1, <2>2, <2>3 DEF ReplayTypeOK
<1>2. Playing
    BY DEF Init, Playing
<1> QED
    BY <1>1, <1>2 DEF PlayInv

(***************************************************************************)
(* The state keeps its shape, what was parsed and pushed included.         *)
(***************************************************************************)
THEOREM ReplayTyped == Spec => []ReplayTypeOK
<1>1. PlayInv => ReplayTypeOK
    BY DEF PlayInv
<1> QED
    BY <1>1, InitPlays, NextPlays, PTL DEF Spec

\* The action of PlaysTheAudio.
PlaysAudioStep ==
    \A a \in Adapters :
        /\ pushed'[a] # pushed[a] => IsPrefix(pushed'[a], Audio[file])
        /\ loop[a] = "reading" /\ loop'[a] = "played" => pushed[a] = Audio[file]

\* What agrees with the beginning of A is a prefix of it.
LEMMA PrefixIs ==
    ASSUME NEW p \in Seq(Nat), NEW A \in Seq(Nat), Len(p) <= Len(A),
           \A k \in 1 .. Len(p) : p[k] = A[k]
    PROVE  IsPrefix(p, A)
<1>1. SubSeq(p, 1, Len(p)) = [k \in 1 .. Len(p) |-> p[k]]
    OBVIOUS
<1>2. SubSeq(A, 1, Len(p)) = [k \in 1 .. Len(p) |-> A[k]]
    OBVIOUS
<1>3. SubSeq(p, 1, Len(p)) = SubSeq(A, 1, Len(p))
    BY <1>1, <1>2
<1> QED
    BY <1>3 DEF IsPrefix

LEMMA StepPlaysAudio ==
    ASSUME PlayInv, Next
    PROVE  PlaysAudioStep
<1> SUFFICES ASSUME NEW a \in Adapters
             PROVE  /\ pushed'[a] # pushed[a] => IsPrefix(pushed'[a], Audio[file])
                    /\ loop[a] = "reading" /\ loop'[a] = "played" => pushed[a] = Audio[file]
    BY DEF PlaysAudioStep
<1>0. /\ loop \in [Adapters -> {"unmade", "open", "sleeping", "playing", "reading",
                                "played", "looping", "exited"}]
      /\ pushed \in [Adapters -> Seq(Nat)] /\ file \in Files
    BY DEF PlayInv, ReplayTypeOK
<1>1. ASSUME pushed'[a] # pushed[a]
      PROVE  Open(a) \/ Read(a)
    <2>1. ASSUME NEW b \in Adapters, Goroutine(b)
          PROVE  Open(a) \/ Read(a)
        <3>1. Open(b) \/ Read(b)
            BY <1>1, <2>1 DEF Goroutine, OpenFails, Interrupted, Tick, ReadEnds, ReadFails, Wake,
                              Again, Finish, LoopOn
        <3>2. b = a
            BY <1>0, <1>1, <3>1 DEF Open, Read
        <3> QED
            BY <3>1, <3>2
    <2>2. ASSUME NEW r \in Requests, Serve(r)
          PROVE  pushed' = pushed
        BY <2>2 DEF Serve, StartRefused, StopReplay, StopRefused, StopReplayed, StartReplay,
                    adapterVars
    <2>3. ASSUME NEW r \in Requests, NEW kind \in {"start", "stop"}, Arrive(r, kind)
          PROVE  pushed' = pushed
        BY <2>3 DEF Arrive, adapterVars
    <2>4. ASSUME Signal \/ Shutdown
          PROVE  pushed' = pushed
        BY <2>4 DEF Signal, Shutdown, ShutdownReturns, MainStop, MainStopped, adapterVars
    <2> QED
        BY <1>1, <2>1, <2>2, <2>3, <2>4 DEF Next
<1>2. ASSUME loop[a] = "reading", loop'[a] = "played"
      PROVE  ReadEnds(a)
    <2>1. ASSUME NEW b \in Adapters, Goroutine(b)
          PROVE  ReadEnds(a)
        <3>1. b = a
            BY <1>0, <1>2, <2>1 DEF Goroutine, Open, OpenFails, Interrupted, Tick, Read,
                                    ReadEnds, ReadFails, Wake, Again, Finish, LoopOn, Goes
        <3> QED
            BY <1>0, <1>2, <2>1, <3>1 DEF Goroutine, Open, OpenFails, Interrupted, Tick, Read,
                                    ReadFails, Wake, Again, Finish, LoopOn, Goes
    <2>2. ASSUME NEW r \in Requests, Serve(r)
          PROVE  loop'[a] # "played"
        <3>1. CASE \E b \in Adapters : StartReplay(r, b)
            BY <1>0, <1>2, <3>1 DEF StartReplay, Goes
        <3>2. CASE ~ \E b \in Adapters : StartReplay(r, b)
            BY <1>2, <2>2, <3>2 DEF Serve, StartRefused, StopReplay, StopRefused, StopReplayed,
                                    adapterVars
        <3> QED
            BY <3>1, <3>2
    <2>3. ASSUME NEW r \in Requests, NEW kind \in {"start", "stop"}, Arrive(r, kind)
          PROVE  loop' = loop
        BY <2>3 DEF Arrive, adapterVars
    <2>4. ASSUME Signal \/ Shutdown
          PROVE  loop' = loop
        BY <2>4 DEF Signal, Shutdown, ShutdownReturns, MainStop, MainStopped, adapterVars
    <2> QED
        BY <1>2, <2>1, <2>2, <2>3, <2>4 DEF Next
<1>3. ASSUME NEW o \in Nat, NEW n \in Nat, AudioLies(o, n)
      PROVE  /\ DOMAIN Audio[file] = 1 .. n \div ChunkBytes /\ n \div ChunkBytes \in Nat
             /\ Len(Audio[file]) = n \div ChunkBytes /\ Audio[file] \in Seq(Nat)
             /\ \A k \in 1 .. n \div ChunkBytes : Audio[file][k] = o + (k - 1) * ChunkBytes
    <2>1. n \div ChunkBytes \in Nat
        BY ReplayAssumption
    <2>2. Audio[file] = [k \in 1 .. n \div ChunkBytes |-> o + (k - 1) * ChunkBytes]
        BY <1>3 DEF AudioLies
    <2> DEFINE q == n \div ChunkBytes
               audio == [k \in 1 .. q |-> o + (k - 1) * ChunkBytes]
    <2>3. q \in Nat /\ Audio[file] = audio
        BY <2>1, <2>2
    <2> HIDE DEF q
    <2>4. /\ DOMAIN audio = 1 .. q /\ \A k \in 1 .. q : audio[k] = o + (k - 1) * ChunkBytes
          /\ audio = [k \in 1 .. q |-> audio[k]]
        OBVIOUS
    <2>5. audio \in Seq(Nat) /\ Len(audio) = q
        <3>1. \A k \in 1 .. q : o + (k - 1) * ChunkBytes \in Nat
            <4> TAKE k \in 1 .. q
            <4>1. k - 1 \in Nat /\ ChunkBytes \in Nat
                BY <2>3, ReplayAssumption
            <4>2. (k - 1) * ChunkBytes \in Nat
                BY <4>1
            <4> QED
                BY <4>2
        <3> HIDE DEF audio
        <3> QED
            BY <2>3, <2>4, <3>1
    <2> HIDE DEF audio
    <2> QED
        BY <2>3, <2>4, <2>5 DEF q
<1>4. ASSUME pushed'[a] # pushed[a]
      PROVE  IsPrefix(pushed'[a], Audio[file])
    <2>1. Open(a) \/ Read(a)
        BY <1>1, <1>4
    <2>2. file' = file /\ loop'[a] = "playing" /\ Goroutine(a)
        BY <1>0, <2>1 DEF Open, Read, Goes, Goroutine
    <2>3. PlayInv'
        BY <2>2, GoroutinePlays
    <2>4. SoFar(a)' /\ pushed'[a] \in Seq(Nat)
        BY <2>2, <2>3 DEF PlayInv, Playing, ReplayTypeOK
    <2>5. PICK o \in Nat, n \in Nat :
            /\ AudioLies(o, n)'
            /\ Len(pushed'[a]) <= n \div ChunkBytes
            /\ \A k \in 1 .. Len(pushed'[a]) : pushed'[a][k] = o + (k - 1) * ChunkBytes
        BY <2>4 DEF SoFar
    <2>6. AudioLies(o, n)
        BY <2>2, <2>5 DEF AudioLies
    <2> DEFINE p == pushed'[a]
               A == Audio[file]
    <2>7. /\ A \in Seq(Nat) /\ p \in Seq(Nat) /\ Len(p) <= Len(A)
          /\ \A k \in 1 .. Len(p) : p[k] = A[k]
        <3>1. /\ A \in Seq(Nat) /\ p \in Seq(Nat) /\ Len(p) \in Nat
              /\ Len(A) = n \div ChunkBytes /\ n \div ChunkBytes \in Nat
            BY <1>3, <2>4, <2>6
        <3>2. \A k \in 1 .. Len(p) : k \in 1 .. n \div ChunkBytes
            BY <2>5, <3>1
        <3> QED
            BY <1>3, <2>5, <2>6, <3>1, <3>2
    <2> HIDE DEF p, A
    <2> QED
        BY <2>7, PrefixIs DEF p, A
<1>5. ASSUME loop[a] = "reading", loop'[a] = "played"
      PROVE  pushed[a] = Audio[file]
    <2>1. ReadEnds(a)
        BY <1>2, <1>5
    <2>2. ~ Readable(a) /\ SoFar(a) /\ pushed[a] \in Seq(Nat)
        BY <1>0, <1>5, <2>1 DEF ReadEnds, PlayInv, Playing
    <2>3. PICK o \in Nat, n \in Nat :
            /\ AudioLies(o, n)
            /\ Len(pushed[a]) <= n \div ChunkBytes
            /\ \A k \in 1 .. Len(pushed[a]) : pushed[a][k] = o + (k - 1) * ChunkBytes
        BY <2>2 DEF SoFar
    <2>4. /\ Len(pushed[a]) \in Nat
          /\ Readable(a) <=> Len(pushed[a]) + 1 <= n \div ChunkBytes
        BY <2>2, <2>3, ReadableIs DEF SoFar
    <2>5. /\ Audio[file] \in Seq(Nat) /\ Len(Audio[file]) = n \div ChunkBytes
          /\ n \div ChunkBytes \in Nat
          /\ \A k \in 1 .. n \div ChunkBytes : Audio[file][k] = o + (k - 1) * ChunkBytes
        BY <1>3, <2>3
    <2>6. Len(pushed[a]) = n \div ChunkBytes
        BY <2>2, <2>3, <2>4, <2>5
    <2> DEFINE p == pushed[a]
               A == Audio[file]
               q == n \div ChunkBytes
    <2>7. /\ p \in Seq(Nat) /\ A \in Seq(Nat) /\ Len(p) = q /\ Len(A) = q
          /\ \A k \in 1 .. q : p[k] = A[k]
        BY <2>2, <2>3, <2>5, <2>6
    <2> HIDE DEF p, A, q
    <2> QED
        BY <2>7, SeqEqual DEF p, A
<1> QED
    BY <1>4, <1>5

(***************************************************************************)
(* Whatever the layout of the file, only its audio is pushed, in order and *)
(* from the start; and who reads to the end has pushed all of it.          *)
(***************************************************************************)
THEOREM AudioIsPlayed == Spec => PlaysTheAudio
<1>1. PlayInv /\ [Next]_vars => [PlaysAudioStep]_vars
    BY StepPlaysAudio
<1> QED
    BY <1>1, InitPlays, NextPlays, PTL DEF Spec, PlaysTheAudio, PlaysAudioStep
=============================================================================
