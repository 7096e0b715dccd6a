------------------------- MODULE SlowConsumer_proofs --------------------------
(***************************************************************************)
(* The slow consumer loses only the oldest messages and counts them, for   *)
(* every size of its queue and every number of starts and messages.        *)
(***************************************************************************)
EXTENDS SlowConsumer, SequenceTheorems, FiniteSetTheorems, TLAPS

-----------------------------------------------------------------------------
Msg == 1 .. MaxMessages
HandlerLabels == {"idle", "offer", "evict", "count", "retry"}
ReaderLabels == {"none", "loop", "select", "asleep", "exited"}

\* The shape of the state, but for the bound of slowDropped.
Types ==
    /\ started \in 0 .. MaxStarts /\ active \in {None, started}
    /\ starting => active # None
    /\ members \subseteq 1 .. started /\ cancelled \subseteq 1 .. started
    /\ inbox \in [Gens -> Seq(Msg)]
    /\ handler \in [Gens -> HandlerLabels]
    /\ held \in [Gens -> 0 .. MaxMessages]
    /\ queue \in [Gens -> Seq(Msg)]
    /\ slowDropped \in Nat
    /\ reader \in [Gens -> ReaderLabels]
    /\ source \in [Gens -> 0 .. started]
    /\ published \in 0 .. MaxMessages
    /\ handled \in Seq(Msg) /\ taken \in Seq(Msg)

Limits ==
    \A g \in Gens :
        /\ Len(queue[g]) <= QueueLimit
        /\ handler[g] # "idle" => held[g] \in Msg
        /\ g > started => /\ inbox[g] = <<>> /\ queue[g] = <<>>
                          /\ handler[g] = "idle" /\ reader[g] = "none"

\* The ranges of the state, in terms of the natural numbers.
LEMMA Bounds ==
    ASSUME Types
    PROVE  /\ started \in Nat /\ MaxStarts \in Nat /\ MaxMessages \in Nat
           /\ QueueLimit \in Nat \ {0}
           /\ active # None =>
                active \in Gens /\ active \in 1 .. started /\ active = started
           /\ Gens \subseteq Nat /\ Msg \subseteq Nat
BY SlowAssumption DEF Types, Gens, None, Msg

\* The shape at first, and after each step.
LEMMA TypesInit ==
    ASSUME Init
    PROVE  Types /\ Limits
<1>1. <<>> \in Seq(Msg) /\ Len(<<>>) = 0
    OBVIOUS
<1>2. Types
    BY <1>1, SlowAssumption DEF Init, Types, Each, HandlerLabels, ReaderLabels, None
<1>3. Limits
    BY <1>1, SlowAssumption DEF Init, Limits, Each
<1> QED
    BY <1>2, <1>3

LEMMA PublishTypes ==
    ASSUME Types, Limits, Publish
    PROVE  Types' /\ Limits'
<1>1. /\ published < MaxMessages /\ published' = published + 1
      /\ UNCHANGED <<started, active, starting, members, cancelled, handler, held,
                     handled, reader, source, taken, queue, slowDropped>>
    BY DEF Publish, startVars, readerVars
<1>2. published' \in Msg /\ published' \in 0 .. MaxMessages
    BY <1>1, SlowAssumption DEF Types, Msg
<1>3. CASE members = {}
    <2>1. inbox' = inbox
        BY <1>3 DEF Publish
    <2> QED
        BY <1>1, <1>2, <2>1 DEF Types, Limits
<1>4. CASE members # {}
    <2>1. PICK g \in members : inbox' = [inbox EXCEPT ![g] = Append(@, published')]
        BY <1>4 DEF Publish
    <2>2. g \in Gens /\ g <= started
        BY Bounds DEF Types, Gens
    <2>3. Append(inbox[g], published') \in Seq(Msg)
        BY <1>2, <2>2, AppendProperties DEF Types
    <2>4. inbox' \in [Gens -> Seq(Msg)]
        BY <2>1, <2>2, <2>3 DEF Types
    <2>5. \A h \in Gens : h > started => inbox'[h] = inbox[h]
        BY <2>1, <2>2 DEF Types
    <2> QED
        BY <1>1, <1>2, <2>4, <2>5 DEF Types, Limits
<1> QED
    BY <1>3, <1>4

LEMMA ControlTypes ==
    ASSUME Types, Limits, Start \/ Register \/ Started \/ StartFails \/ Stop
    PROVE  Types' /\ Limits'
<1>1. CASE Start
    <2>1. /\ active = None /\ started < MaxStarts /\ started' = started + 1
          /\ active' = started' /\ starting' = TRUE /\ slowDropped' = 0
          /\ reader' = [reader EXCEPT ![started'] = "loop"]
          /\ UNCHANGED <<members, cancelled, inbox, handler, held, handled, source,
                         taken, queue, published>>
        BY <1>1 DEF Start, handlerVars
    <2>2. started' \in Gens /\ started' \in 0 .. MaxStarts /\ started' # None
        <3>1. started \in Nat /\ MaxStarts \in Nat
            BY Bounds
        <3> QED
            BY <2>1, <3>1 DEF Gens, None
    <2>3. Types'
        <3>1. reader' \in [Gens -> ReaderLabels]
            BY <2>1, <2>2 DEF Types, ReaderLabels
        <3>2. 1 .. started \subseteq 1 .. started' /\ 0 .. started \subseteq 0 .. started'
            BY <2>1, Bounds
        <3>3. source' \in [Gens -> 0 .. started']
            BY <2>1, <3>2 DEF Types
        <3> QED
            BY <2>1, <2>2, <3>1, <3>2, <3>3 DEF Types
    <2>4. Limits'
        <3>1. \A g \in Gens : g > started' => g > started /\ reader'[g] = reader[g]
            BY <2>1, <2>2, Bounds DEF Types
        <3> QED
            BY <2>1, <3>1 DEF Limits
    <2> QED
        BY <2>3, <2>4
<1>2. CASE Register \/ Started
    <2>1. /\ UNCHANGED <<started, active, cancelled, inbox, handler, held, handled,
                         reader, source, taken, queue, slowDropped, published>>
          /\ members' \subseteq members \cup {active}
          /\ starting
          /\ starting' = starting \/ starting' = FALSE
        BY <1>2 DEF Register, Started, handlerVars, readerVars
    <2>2. active \in 1 .. started
        BY <2>1, Bounds DEF Types
    <2> QED
        BY <2>1, <2>2 DEF Types, Limits
<1>3. CASE StartFails
    <2>1. /\ starting /\ starting' = FALSE /\ active' = None
          /\ members' = members \ {active} /\ cancelled' = cancelled \cup {active}
          /\ inbox' = [inbox EXCEPT ![active] = <<>>]
          /\ UNCHANGED <<started, handler, held, handled, reader, source, taken,
                         queue, slowDropped, published>>
        BY <1>3 DEF StartFails, Cancel, readerVars
    <2>2. active \in 1 .. started /\ active \in Gens
        BY <2>1, Bounds DEF Types
    <2>3. inbox' \in [Gens -> Seq(Msg)]
        BY <2>1, <2>2 DEF Types
    <2>4. \A g \in Gens : inbox'[g] = inbox[g] \/ inbox'[g] = <<>>
        BY <2>1, <2>2 DEF Types
    <2> QED
        BY <2>1, <2>2, <2>3, <2>4 DEF Types, Limits
<1>4. CASE Stop
    <2>1. /\ ~starting /\ active # None /\ active' = None
          /\ cancelled' = cancelled \cup {active}
          /\ UNCHANGED <<started, starting, members, inbox, handler, held, handled,
                         reader, source, taken, queue, slowDropped, published>>
        BY <1>4 DEF Stop, MutexFree, Cancel, handlerVars, readerVars
    <2>2. active \in 1 .. started
        BY <2>1, Bounds DEF Types
    <2> QED
        BY <2>1, <2>2 DEF Types, Limits
<1> QED
    BY <1>1, <1>2, <1>3, <1>4

\* What taking the first of a sequence gives.
LEMMA Popped ==
    ASSUME NEW S, NEW q \in Seq(S), q # <<>>
    PROVE  /\ Head(q) \in S /\ Tail(q) \in Seq(S)
           /\ Len(q) \in Nat \ {0} /\ Len(Tail(q)) = Len(q) - 1
BY HeadTailProperties, EmptySeq

\* A generation with a message or a reader has been started.
LEMMA Known ==
    ASSUME Types, Limits, NEW g \in Gens,
           \/ handler[g] # "idle" \/ inbox[g] # <<>>
           \/ reader[g] # "none" \/ queue[g] # <<>>
    PROVE  /\ g \in 1 .. started
           /\ \A h \in Gens : h > started => h # g
<1>1. ~ (g > started)
    BY DEF Limits
<1>2. g \in Nat /\ g >= 1 /\ started \in Nat
    BY Bounds DEF Gens
<1> QED
    BY <1>1, <1>2

LEMMA CallTypes ==
    ASSUME Types, Limits, NEW g \in Gens, Call(g)
    PROVE  Types' /\ Limits'
<1>1. /\ handler[g] = "idle" /\ inbox[g] # <<>>
      /\ inbox' = [inbox EXCEPT ![g] = Tail(@)]
      /\ UNCHANGED <<startVars, handled, readerVars, queue, slowDropped, published>>
    BY DEF Call
<1>2. Head(inbox[g]) \in Msg /\ Tail(inbox[g]) \in Seq(Msg) /\ Msg \subseteq 0 .. MaxMessages
    <2>1. inbox[g] \in Seq(Msg)
        BY DEF Types
    <2>2. Msg \subseteq 0 .. MaxMessages
        BY DEF Msg
    <2> QED
        BY <1>1, <2>1, <2>2, Popped
<1>3. \A h \in Gens : h > started => h # g
    BY <1>1, Known
<1>4. inbox' \in [Gens -> Seq(Msg)] /\ \A h \in Gens : h > started => inbox'[h] = inbox[h]
    BY <1>1, <1>2, <1>3 DEF Types
<1>5. CASE g \in cancelled
    <2>1. UNCHANGED <<handler, held>>
        BY <1>5 DEF Call
    <2> QED
        BY <1>1, <1>4, <2>1 DEF Types, Limits, startVars, readerVars
<1>6. CASE g \notin cancelled
    <2>1. /\ handler' = [handler EXCEPT ![g] = "offer"]
          /\ held' = [held EXCEPT ![g] = Head(inbox[g])]
        BY <1>6 DEF Call
    <2>2. handler' \in [Gens -> HandlerLabels] /\ held' \in [Gens -> 0 .. MaxMessages]
        BY <1>2, <2>1 DEF Types, HandlerLabels
    <2>3. \A h \in Gens : handler'[h] # "idle" => held'[h] \in Msg
        BY <1>2, <2>1 DEF Types, Limits
    <2>4. \A h \in Gens : h > started => handler'[h] = handler[h]
        BY <1>3, <2>1 DEF Types
    <2> QED
        BY <1>1, <1>4, <2>2, <2>3, <2>4 DEF Types, Limits, startVars, readerVars
<1> QED
    BY <1>5, <1>6

\* The handler's steps that only move it.
LEMMA MoveTypes ==
    ASSUME Types, Limits, NEW g \in Gens, handler[g] # "idle", NEW to \in HandlerLabels,
           handler' = [handler EXCEPT ![g] = to],
           slowDropped' \in Nat,
           UNCHANGED <<startVars, inbox, held, handled, readerVars, queue, published>>
    PROVE  Types' /\ Limits'
<1>1. \A h \in Gens : h > started => h # g
    BY Known
<1>2. /\ handler' \in [Gens -> HandlerLabels]
      /\ \A h \in Gens : h > started => handler'[h] = handler[h]
      /\ \A h \in Gens : handler'[h] # "idle" => handler[h] # "idle"
    BY <1>1 DEF Types, HandlerLabels
<1> QED
    BY <1>2 DEF Types, Limits, startVars, readerVars

LEMMA FinishedTypes ==
    ASSUME Types, Limits, NEW g \in Gens, handler[g] # "idle", Finished(g)
    PROVE  /\ handler' \in [Gens -> HandlerLabels] /\ handled' \in Seq(Msg)
           /\ held[g] \in Msg
           /\ \A h \in Gens : h > started => handler'[h] = handler[h]
           /\ \A h \in Gens : handler'[h] # "idle" => handler[h] # "idle"
<1>1. held[g] \in Msg /\ \A h \in Gens : h > started => h # g
    BY Known DEF Limits
<1>2. handled' = Append(handled, held[g]) /\ handler' = [handler EXCEPT ![g] = "idle"]
    BY DEF Finished
<1>3. handled' \in Seq(Msg)
    BY <1>1, <1>2, AppendProperties DEF Types
<1>4. /\ handler' \in [Gens -> HandlerLabels]
      /\ \A h \in Gens : h > started => handler'[h] = handler[h]
      /\ \A h \in Gens : handler'[h] # "idle" => handler[h] # "idle"
    BY <1>1, <1>2 DEF Types, HandlerLabels
<1> QED
    BY <1>1, <1>3, <1>4

\* The active generation's queue may change.
LEMMA QueueTypes ==
    ASSUME Types, Limits, NEW a \in 1 .. started, NEW q \in Seq(Msg), Len(q) <= QueueLimit,
           queue' = [queue EXCEPT ![a] = q], started' = started
    PROVE  /\ queue' \in [Gens -> Seq(Msg)]
           /\ \A h \in Gens : Len(queue'[h]) <= QueueLimit
           /\ \A h \in Gens : h > started => queue'[h] = queue[h]
<1>1. a \in Gens
    BY Bounds DEF Types, Gens
<1>2. queue' \in [Gens -> Seq(Msg)]
    BY <1>1 DEF Types
<1>3. \A h \in Gens : Len(queue'[h]) <= QueueLimit
    BY <1>1 DEF Types, Limits
<1>4. \A h \in Gens : h > started => queue'[h] = queue[h]
    BY <1>1, Bounds DEF Types
<1> QED
    BY <1>2, <1>3, <1>4

LEMMA PushTypes ==
    ASSUME Types, Limits, NEW g \in Gens, NEW from \in {"offer", "retry"}, Push(g, from)
    PROVE  Types' /\ Limits'
<1> DEFINE q == Append(queue[active], held[g])
<1>1. /\ handler[g] = from /\ active # None /\ Len(queue[active]) < QueueLimit
      /\ queue' = [queue EXCEPT ![active] = q]
      /\ Finished(g)
      /\ UNCHANGED <<startVars, inbox, held, readerVars, slowDropped, published>>
    BY DEF Push, HasRoom
<1>2. active \in 1 .. started /\ active \in Gens /\ QueueLimit \in Nat
    BY <1>1, Bounds
<1>3. /\ handler' \in [Gens -> HandlerLabels] /\ handled' \in Seq(Msg)
      /\ held[g] \in Msg
      /\ \A h \in Gens : h > started => handler'[h] = handler[h]
      /\ \A h \in Gens : handler'[h] # "idle" => handler[h] # "idle"
    BY <1>1, FinishedTypes
<1>4. q \in Seq(Msg) /\ Len(q) <= QueueLimit
    <2>1. queue[active] \in Seq(Msg) /\ Len(queue[active]) \in Nat
        BY <1>2 DEF Types
    <2>2. q \in Seq(Msg) /\ Len(q) = Len(queue[active]) + 1
        BY <1>3, <2>1, AppendProperties
    <2> HIDE DEF q
    <2> QED
        BY <1>1, <1>2, <2>1, <2>2
<1> HIDE DEF q
<1>5. /\ queue' \in [Gens -> Seq(Msg)]
      /\ \A h \in Gens : Len(queue'[h]) <= QueueLimit
      /\ \A h \in Gens : h > started => queue'[h] = queue[h]
    BY <1>1, <1>2, <1>4, QueueTypes DEF startVars
<1> QED
    BY <1>1, <1>3, <1>5 DEF Types, Limits, startVars, readerVars

LEMMA HandleTypes ==
    ASSUME Types, Limits, NEW g \in Gens, Handle(g)
    PROVE  Types' /\ Limits'
<1>1. CASE Push(g, "offer") \/ Push(g, "retry")
    BY <1>1, PushTypes
<1>2. CASE Full(g) \/ EvictNothing(g) \/ CountDrop(g)
    <2>1. /\ handler[g] # "idle"
          /\ \E to \in HandlerLabels : handler' = [handler EXCEPT ![g] = to]
          /\ slowDropped' = slowDropped \/ slowDropped' = slowDropped + 1
          /\ UNCHANGED <<startVars, inbox, held, handled, readerVars, queue, published>>
        BY <1>2 DEF Full, EvictNothing, CountDrop, Continues, HandlerLabels
    <2>2. slowDropped' \in Nat
        BY <2>1 DEF Types
    <2> QED
        BY <2>1, <2>2, MoveTypes
<1>3. CASE Evict(g)
    <2> DEFINE q == Tail(queue[active])
    <2>1. /\ handler[g] # "idle" /\ handler' = [handler EXCEPT ![g] = "count"]
          /\ active # None /\ queue[active] # <<>>
          /\ queue' = [queue EXCEPT ![active] = q]
          /\ UNCHANGED <<startVars, inbox, held, handled, readerVars, slowDropped, published>>
        BY <1>3 DEF Evict, Continues, HasMessage
    <2>2. active \in 1 .. started /\ active \in Gens
        BY <2>1, Bounds
    <2>3. q \in Seq(Msg) /\ Len(q) <= QueueLimit
        <3>1. queue[active] \in Seq(Msg) /\ Len(queue[active]) <= QueueLimit
            BY <2>2 DEF Types, Limits
        <3>2. q \in Seq(Msg) /\ Len(q) = Len(queue[active]) - 1 /\ Len(queue[active]) \in Nat
            BY <2>1, <3>1, Popped
        <3> HIDE DEF q
        <3> QED
            BY <3>1, <3>2, Bounds
    <2> HIDE DEF q
    <2>4. /\ queue' \in [Gens -> Seq(Msg)]
          /\ \A h \in Gens : Len(queue'[h]) <= QueueLimit
          /\ \A h \in Gens : h > started => queue'[h] = queue[h]
        BY <2>1, <2>2, <2>3, QueueTypes DEF startVars
    <2>5. /\ handler' \in [Gens -> HandlerLabels]
          /\ \A h \in Gens : h > started => handler'[h] = handler[h]
          /\ \A h \in Gens : handler'[h] # "idle" => handler[h] # "idle"
        <3>1. \A h \in Gens : h > started => h # g
            BY <2>1, Known
        <3> QED
            BY <2>1, <3>1 DEF Types, HandlerLabels
    <2> QED
        BY <2>1, <2>4, <2>5 DEF Types, Limits, startVars, readerVars
<1>4. CASE GiveUp(g)
    <2>1. /\ handler[g] # "idle" /\ Finished(g)
          /\ UNCHANGED <<startVars, inbox, held, readerVars, queue, slowDropped, published>>
        BY <1>4 DEF GiveUp
    <2>2. /\ handler' \in [Gens -> HandlerLabels] /\ handled' \in Seq(Msg)
          /\ \A h \in Gens : h > started => handler'[h] = handler[h]
          /\ \A h \in Gens : handler'[h] # "idle" => handler[h] # "idle"
        BY <2>1, FinishedTypes
    <2> QED
        BY <2>1, <2>2 DEF Types, Limits, startVars, readerVars
<1> QED
    BY <1>1, <1>2, <1>3, <1>4 DEF Handle

LEMMA ReadTypes ==
    ASSUME Types, Limits, NEW g \in Gens, Select(g) \/ Take(g) \/ Wake(g) \/ Leave(g)
    PROVE  Types' /\ Limits'
<1>1. /\ reader[g] # "none"
      /\ reader' \in [Gens -> ReaderLabels]
      /\ \A h \in Gens : h # g => reader'[h] = reader[h]
    BY DEF Types, Select, Take, Wake, Leave, ReaderLabels
<1>2. \A h \in Gens : h > started => h # g
    BY <1>1, Known
<1>3. UNCHANGED <<startVars, handlerVars, slowDropped, published>>
    BY DEF Select, Take, Wake, Leave
<1>4. CASE ~ Take(g)
    <2>1. UNCHANGED <<queue, taken>>
        BY <1>4 DEF Select, Wake, Leave
    <2>2. source' \in [Gens -> 0 .. started]
        <3>1. active \in 0 .. started
            BY Bounds DEF Types, None
        <3>2. source' = source \/ source' = [source EXCEPT ![g] = active]
            BY <1>4 DEF Select, Wake, Leave
        <3> QED
            BY <3>1, <3>2 DEF Types
    <2> QED
        BY <1>1, <1>2, <1>3, <2>1, <2>2, Bounds DEF Types, Limits, startVars, handlerVars
<1>5. CASE Take(g)
    <2> DEFINE s == source[g]
               q == Tail(queue[source[g]])
    <2>1. /\ s # None /\ queue[s] # <<>>
          /\ queue' = [queue EXCEPT ![s] = q]
          /\ taken' = Append(taken, Head(queue[s]))
          /\ source' = source
        BY <1>5 DEF Take
    <2>2. s \in 1 .. started /\ s \in Gens
        <3>1. s \in 0 .. started
            BY DEF Types
        <3>2. started \in Nat /\ started <= MaxStarts /\ MaxStarts \in Nat
            BY Bounds DEF Types
        <3> HIDE DEF s
        <3> QED
            BY <2>1, <3>1, <3>2 DEF None, Gens
    <2> HIDE DEF s
    <2>3. q \in Seq(Msg) /\ Len(q) <= QueueLimit /\ taken' \in Seq(Msg)
        <3>1. queue[s] \in Seq(Msg) /\ Len(queue[s]) <= QueueLimit
            BY <2>2 DEF Types, Limits
        <3>2. /\ q \in Seq(Msg) /\ Len(q) = Len(queue[s]) - 1 /\ Len(queue[s]) \in Nat
              /\ Head(queue[s]) \in Msg
            BY <2>1, <3>1, Popped DEF s
        <3>3. taken' \in Seq(Msg)
            BY <2>1, <3>2, AppendProperties DEF Types
        <3> HIDE DEF q
        <3> QED
            BY <3>1, <3>2, <3>3, Bounds
    <2> HIDE DEF q
    <2>4. /\ queue' \in [Gens -> Seq(Msg)]
          /\ \A h \in Gens : Len(queue'[h]) <= QueueLimit
          /\ \A h \in Gens : h > started => queue'[h] = queue[h]
        BY <1>3, <2>1, <2>2, <2>3, QueueTypes DEF startVars
    <2> QED
        BY <1>1, <1>2, <1>3, <2>1, <2>3, <2>4, Bounds DEF Types, Limits, startVars, handlerVars
<1> QED
    BY <1>4, <1>5

LEMMA TypesNext ==
    ASSUME Types, Limits, [Next]_vars
    PROVE  Types' /\ Limits'
<1>1. CASE UNCHANGED vars
    BY <1>1 DEF vars, startVars, handlerVars, readerVars, Types, Limits
<1> QED
    BY <1>1, PublishTypes, ControlTypes, CallTypes, HandleTypes, ReadTypes DEF Next

Cat(s, t) == s \o t

\* Concatenation, under a name that the provers take as a whole.
LEMMA CatAssociative ==
    ASSUME NEW a \in Seq(Msg), NEW b \in Seq(Msg), NEW c \in Seq(Msg)
    PROVE  Cat(Cat(a, b), c) = Cat(a, Cat(b, c))
BY ConcatAssociative DEF Cat

LEMMA CatSeq ==
    ASSUME NEW a \in Seq(Msg), NEW b \in Seq(Msg)
    PROVE  Cat(a, b) \in Seq(Msg)
BY ConcatProperties DEF Cat

LEMMA CatType ==
    ASSUME NEW a \in Seq(Msg), NEW b \in Seq(Msg)
    PROVE  /\ Cat(a, b) \in Seq(Msg) /\ Len(Cat(a, b)) = Len(a) + Len(b)
           /\ \A k \in 1 .. Len(a) + Len(b) :
                Cat(a, b)[k] = IF k <= Len(a) THEN a[k] ELSE b[k - Len(a)]
BY ConcatProperties DEF Cat

LEMMA CatUnits ==
    ASSUME NEW a \in Seq(Msg), NEW x \in Msg
    PROVE  /\ Cat(<<>>, a) = a /\ Cat(a, <<>>) = a
           /\ Append(a, x) = Cat(a, <<x>>) /\ <<x>> \in Seq(Msg) /\ <<>> \in Seq(Msg)
           /\ a # <<>> => a = Cat(<<Head(a)>>, Tail(a))
<1>1. Cat(<<>>, a) = a /\ Cat(a, <<>>) = a
    BY ConcatEmptySeq DEF Cat
<1>2. Append(a, x) = Cat(a, <<x>>)
    BY AppendIsConcat DEF Cat
<1>3. <<x>> \in Seq(Msg) /\ <<>> \in Seq(Msg)
    OBVIOUS
<1>4. ASSUME a # <<>> PROVE a = Cat(<<Head(a)>>, Tail(a))
    <2> DEFINE h == <<Head(a)>>
               t == Tail(a)
               c == Cat(h, t)
    <2>1. /\ h \in Seq(Msg) /\ Len(h) = 1 /\ h[1] = a[1]
          /\ t \in Seq(Msg) /\ Len(t) = Len(a) - 1 /\ Len(a) \in Nat
          /\ \A k \in 1 .. Len(t) : t[k] = a[k + 1]
        BY <1>4, HeadTailProperties, EmptySeq
    <2> HIDE DEF h, t
    <2>0. h \in Seq(Msg) /\ t \in Seq(Msg)
        BY <2>1
    <2>a. /\ c \in Seq(Msg) /\ Len(c) = Len(h) + Len(t)
          /\ \A k \in 1 .. Len(h) + Len(t) : c[k] = IF k <= Len(h) THEN h[k] ELSE t[k - Len(h)]
        BY <2>0, CatType
    <2> HIDE DEF c
    <2>2. /\ c \in Seq(Msg) /\ Len(c) = 1 + Len(t)
          /\ \A k \in 1 .. 1 + Len(t) : c[k] = IF k <= 1 THEN h[k] ELSE t[k - 1]
        BY <2>1, <2>a
    <2>3. Len(a) = Len(c)
        BY <2>1, <2>2
    <2>4. ASSUME NEW k \in 1 .. Len(a) PROVE a[k] = c[k]
        <3>1. c[k] = IF k <= 1 THEN h[k] ELSE t[k - 1]
            BY <2>1, <2>2
        <3>2. CASE k = 1
            BY <2>1, <3>1, <3>2
        <3>3. CASE k # 1
            <4>1. k - 1 \in 1 .. Len(t) /\ ~ (k <= 1) /\ k - 1 + 1 = k
                BY <2>1, <3>3
            <4> QED
                BY <2>1, <3>1, <4>1
        <3> QED
            BY <3>2, <3>3
    <2> QED
        BY <2>2, <2>3, <2>4, SeqEqual DEF c, h, t
<1> QED
    BY <1>1, <1>2, <1>3, <1>4

-----------------------------------------------------------------------------
(***************************************************************************)
(* The messages of the first generation in one line: those its reader has  *)
(* taken, those queued, the one the handler has, those in the inbox.       *)
(***************************************************************************)
Rising(s) == \A a, b \in 1 .. Len(s) : a < b => s[a] < s[b]

AtMost(s, n) == \A a \in 1 .. Len(s) : s[a] <= n

InHand(at, x) == IF at = "idle" THEN <<>> ELSE <<x>>

Line(t, q, h, i) == Cat(t, Cat(q, Cat(h, i)))

\* The line is a sequence of messages; it stays the same when a message moves
\* on, and grows at its end with a published one.
LEMMA LineType ==
    ASSUME NEW t \in Seq(Msg), NEW q \in Seq(Msg), NEW h \in Seq(Msg), NEW i \in Seq(Msg)
    PROVE  Line(t, q, h, i) \in Seq(Msg)
BY CatSeq DEF Line

LEMMA LineTake ==
    ASSUME NEW t \in Seq(Msg), NEW q \in Seq(Msg), NEW h \in Seq(Msg), NEW i \in Seq(Msg),
           q # <<>>
    PROVE  Line(Append(t, Head(q)), Tail(q), h, i) = Line(t, q, h, i)
<1> DEFINE y == Cat(h, i)
           x == Head(q)
           r == Tail(q)
<1>1. y \in Seq(Msg)
    BY CatType
<1>2. x \in Msg /\ r \in Seq(Msg)
    BY Popped
<1>3. q = Cat(<<x>>, r)
    BY <1>2, CatUnits
<1> HIDE DEF y, x, r
<1>4. <<x>> \in Seq(Msg) /\ Append(t, x) = Cat(t, <<x>>)
    BY <1>2, CatUnits
<1>5. Cat(r, y) \in Seq(Msg)
    BY <1>1, <1>2, CatType
<1>6. Cat(Cat(t, <<x>>), Cat(r, y)) = Cat(t, Cat(<<x>>, Cat(r, y)))
    BY <1>4, <1>5, CatAssociative
<1>7. Cat(<<x>>, Cat(r, y)) = Cat(Cat(<<x>>, r), y)
    BY <1>1, <1>2, <1>4, CatAssociative
<1>8. Cat(Append(t, x), Cat(r, y)) = Cat(t, Cat(q, y))
    BY <1>3, <1>4, <1>6, <1>7
<1> QED
    BY <1>8 DEF Line, x, r, y

LEMMA LineCall ==
    ASSUME NEW t \in Seq(Msg), NEW q \in Seq(Msg), NEW i \in Seq(Msg), i # <<>>
    PROVE  Line(t, q, <<Head(i)>>, Tail(i)) = Line(t, q, <<>>, i)
<1>1. Head(i) \in Msg
    BY Popped
<1>2. Cat(<<>>, i) = i /\ i = Cat(<<Head(i)>>, Tail(i))
    BY <1>1, CatUnits
<1> QED
    BY <1>2 DEF Line

LEMMA LinePush ==
    ASSUME NEW t \in Seq(Msg), NEW q \in Seq(Msg), NEW i \in Seq(Msg), NEW x \in Msg
    PROVE  Line(t, Append(q, x), <<>>, i) = Line(t, q, <<x>>, i)
<1>1. Append(q, x) = Cat(q, <<x>>) /\ <<x>> \in Seq(Msg)
    BY CatUnits
<1>2. Cat(<<>>, i) = i
    BY CatUnits
<1>3. Cat(Cat(q, <<x>>), i) = Cat(q, Cat(<<x>>, i))
    BY <1>1, CatAssociative
<1> QED
    BY <1>1, <1>2, <1>3 DEF Line

LEMMA LinePublish ==
    ASSUME NEW t \in Seq(Msg), NEW q \in Seq(Msg), NEW h \in Seq(Msg), NEW i \in Seq(Msg),
           NEW u \in Seq(Msg)
    PROVE  Line(t, q, h, Cat(i, u)) = Cat(Line(t, q, h, i), u)
<1>1. Cat(h, i) \in Seq(Msg)
    BY CatSeq
<1>2. Cat(q, Cat(h, i)) \in Seq(Msg)
    BY <1>1, CatSeq
<1>3. Cat(h, Cat(i, u)) = Cat(Cat(h, i), u)
    BY CatAssociative
<1>4. Cat(q, Cat(Cat(h, i), u)) = Cat(Cat(q, Cat(h, i)), u)
    BY <1>1, CatAssociative
<1>5. Cat(t, Cat(Cat(q, Cat(h, i)), u)) = Cat(Cat(t, Cat(q, Cat(h, i))), u)
    BY <1>2, CatAssociative
<1> QED
    BY <1>3, <1>4, <1>5 DEF Line

\* Adding a greater one at the end, and leaving one out.
LEMMA RisingAppend ==
    ASSUME NEW s \in Seq(Msg), NEW n \in Nat, NEW x \in Msg, Rising(s), AtMost(s, n), x = n + 1
    PROVE  Rising(Append(s, x)) /\ AtMost(Append(s, x), x)
<1> DEFINE r == Append(s, x)
<1>1. /\ Len(r) = Len(s) + 1 /\ Len(s) \in Nat /\ r[Len(s) + 1] = x
      /\ \A a \in 1 .. Len(s) : r[a] = s[a]
    BY AppendProperties
<1>a. \A a \in 1 .. Len(s) : s[a] \in Msg
    OBVIOUS
<1>b. \A a \in 1 .. Len(s) : s[a] \in Nat
    BY <1>a, SlowAssumption DEF Msg
<1> HIDE DEF r
<1>2. \A a \in 1 .. Len(s) : s[a] < x /\ s[a] <= x
    BY <1>b DEF AtMost
<1>3. Rising(r)
    BY <1>1, <1>2 DEF Rising
<1>4. AtMost(r, x)
    BY <1>1, <1>2 DEF AtMost
<1> QED
    BY <1>3, <1>4 DEF r

LEMMA RisingWithout ==
    ASSUME NEW t \in Seq(Msg), NEW x \in Msg, NEW z \in Seq(Msg), NEW n \in Nat,
           Rising(Cat(t, Cat(<<x>>, z))), AtMost(Cat(t, Cat(<<x>>, z)), n)
    PROVE  Rising(Cat(t, z)) /\ AtMost(Cat(t, z), n)
<1> DEFINE u == <<x>>
           v == Cat(u, z)
           w == Cat(t, v)
           r == Cat(t, z)
<1>1. u \in Seq(Msg) /\ Len(u) = 1
    OBVIOUS
<1> HIDE DEF u
<1>0. u \in Seq(Msg)
    BY <1>1
<1>a. /\ v \in Seq(Msg) /\ Len(v) = Len(u) + Len(z)
      /\ \A k \in 1 .. Len(u) + Len(z) : v[k] = IF k <= Len(u) THEN u[k] ELSE z[k - Len(u)]
    BY <1>0, CatType
<1> HIDE DEF v
<1>b. Len(z) \in Nat /\ Len(t) \in Nat
    OBVIOUS
<1>2. /\ v \in Seq(Msg) /\ Len(v) = 1 + Len(z) /\ Len(z) \in Nat /\ Len(t) \in Nat
      /\ \A k \in 1 .. 1 + Len(z) : v[k] = IF k <= 1 THEN u[k] ELSE z[k - 1]
    BY <1>1, <1>a, <1>b
<1>3. /\ Len(w) = Len(t) + Len(v)
      /\ \A k \in 1 .. Len(t) + Len(v) : w[k] = IF k <= Len(t) THEN t[k] ELSE v[k - Len(t)]
    BY <1>2, CatType
<1>4. /\ Len(r) = Len(t) + Len(z)
      /\ \A k \in 1 .. Len(t) + Len(z) : r[k] = IF k <= Len(t) THEN t[k] ELSE z[k - Len(t)]
    BY CatType
<1>5. Rising(w) /\ AtMost(w, n)
    BY DEF w, v, u
<1> HIDE DEF w, r
<1>6. ASSUME NEW k \in 1 .. Len(r)
      PROVE  IF k <= Len(t) THEN k \in 1 .. Len(w) /\ r[k] = w[k]
                            ELSE k + 1 \in 1 .. Len(w) /\ r[k] = w[k + 1]
    <2>1. CASE k <= Len(t)
        BY <1>2, <1>3, <1>4, <2>1
    <2>2. CASE k > Len(t)
        <3>1. k - Len(t) \in 1 .. Len(z) /\ k - Len(t) + 1 \in 1 .. 1 + Len(z)
              /\ ~ (k - Len(t) + 1 <= 1)
            BY <1>2, <1>4, <2>2
        <3>2. v[k - Len(t) + 1] = z[k - Len(t) + 1 - 1]
            BY <1>2, <3>1
        <3>3. k - Len(t) + 1 - 1 = k - Len(t) /\ k + 1 - Len(t) = k - Len(t) + 1
            BY <1>2, <1>4, <2>2
        <3>4. k + 1 \in 1 .. Len(w) /\ w[k + 1] = v[k + 1 - Len(t)]
            BY <1>2, <1>3, <1>4, <2>2
        <3>5. r[k] = z[k - Len(t)]
            BY <1>2, <1>4, <2>2
        <3> QED
            BY <1>2, <1>4, <2>2, <3>2, <3>3, <3>4, <3>5
    <2> QED
        BY <1>2, <1>4, <2>1, <2>2
<1>7. Rising(r)
    <2> SUFFICES ASSUME NEW a \in 1 .. Len(r), NEW b \in 1 .. Len(r), a < b
                 PROVE  r[a] < r[b]
        BY DEF Rising
    <2> DEFINE up(k) == IF k <= Len(t) THEN k ELSE k + 1
    <2>1. /\ up(a) \in 1 .. Len(w) /\ up(b) \in 1 .. Len(w)
          /\ r[a] = w[up(a)] /\ r[b] = w[up(b)]
        BY <1>6
    <2>2. up(a) < up(b)
        BY <1>2, <1>4
    <2> HIDE DEF up
    <2> QED
        BY <1>5, <2>1, <2>2 DEF Rising
<1>8. AtMost(r, n)
    BY <1>5, <1>6 DEF AtMost
<1> QED
    BY <1>7, <1>8 DEF r

\* Without the oldest queued message the line still rises.
LEMMA LineEvict ==
    ASSUME NEW t \in Seq(Msg), NEW q \in Seq(Msg), NEW h \in Seq(Msg), NEW i \in Seq(Msg),
           NEW n \in Nat, q # <<>>, Rising(Line(t, q, h, i)), AtMost(Line(t, q, h, i), n)
    PROVE  Rising(Line(t, Tail(q), h, i)) /\ AtMost(Line(t, Tail(q), h, i), n)
<1> DEFINE y == Cat(h, i)
           x == Head(q)
           r == Tail(q)
           z == Cat(r, y)
<1>1. y \in Seq(Msg)
    BY CatType
<1>2. x \in Msg /\ r \in Seq(Msg)
    BY Popped
<1>3. q = Cat(<<x>>, r) /\ <<x>> \in Seq(Msg)
    BY <1>2, CatUnits
<1> HIDE DEF y, x, r
<1>4. z \in Seq(Msg)
    BY <1>1, <1>2, CatType
<1>5. Cat(q, y) = Cat(<<x>>, z)
    BY <1>1, <1>2, <1>3, CatAssociative
<1> HIDE DEF z
<1>6. Line(t, q, h, i) = Cat(t, Cat(<<x>>, z))
    BY <1>5 DEF Line, y
<1>7. Rising(Cat(t, z)) /\ AtMost(Cat(t, z), n)
    BY <1>2, <1>4, <1>6, RisingWithout
<1>8. Line(t, Tail(q), h, i) = Cat(t, z)
    BY DEF Line, y, r, z
<1> QED
    BY <1>7, <1>8

\* What has been taken and is queued is the first part of the line.
LEMMA KeptRises ==
    ASSUME NEW t \in Seq(Msg), NEW q \in Seq(Msg), NEW h \in Seq(Msg), NEW i \in Seq(Msg),
           Rising(Line(t, q, h, i))
    PROVE  Rising(Cat(t, q))
<1> DEFINE y == Cat(h, i)
           k == Cat(t, q)
<1>1. y \in Seq(Msg) /\ k \in Seq(Msg)
    BY CatType
<1>2. Cat(k, y) = Line(t, q, h, i)
    BY <1>1, CatAssociative DEF Line
<1> HIDE DEF y, k
<1>a. Len(k) \in Nat /\ Len(y) \in Nat
    BY <1>1
<1>3. /\ Len(Cat(k, y)) = Len(k) + Len(y)
      /\ \A a \in 1 .. Len(k) + Len(y) :
            Cat(k, y)[a] = IF a <= Len(k) THEN k[a] ELSE y[a - Len(k)]
    BY <1>1, CatType
<1>4. \A a \in 1 .. Len(k) : a \in 1 .. Len(Cat(k, y)) /\ Cat(k, y)[a] = k[a]
    BY <1>a, <1>3
<1>5. Rising(k)
    BY <1>2, <1>4 DEF Rising
<1> QED
    BY <1>5 DEF k

-----------------------------------------------------------------------------
\* Sequence s is the last part of r.
Behind(s, r) ==
    /\ Len(s) <= Len(r)
    /\ \A k \in 1 .. Len(s) : s[k] = r[Len(r) - Len(s) + k]

\* In the words of the community modules; and one more, one less.
LEMMA BehindIsSuffix ==
    ASSUME NEW s \in Seq(Msg), NEW r \in Seq(Msg), Behind(s, r)
    PROVE  IsSuffix(s, r)
<1> DEFINE a == Reverse(s)
           b == Reverse(r)
           n == Len(s)
<1>1. n \in Nat /\ Len(r) \in Nat /\ n <= Len(r)
    BY DEF Behind
<1>2. /\ Len(a) = n /\ \A k \in 1 .. n : a[k] = s[(n - k) + 1]
    BY <1>1 DEF Reverse
<1>3. /\ Len(b) = Len(r) /\ \A k \in 1 .. Len(r) : b[k] = r[(Len(r) - k) + 1]
    BY <1>1 DEF Reverse
<1>4. \A k \in 1 .. n : s[k] = r[Len(r) - n + k]
    BY DEF Behind
<1> HIDE DEF a, b, n
<1>5. ASSUME NEW k \in 1 .. n PROVE a[k] = b[k]
    <2>1. (n - k) + 1 \in 1 .. n /\ k \in 1 .. Len(r)
        BY <1>1
    <2>2. Len(r) - n + ((n - k) + 1) = (Len(r) - k) + 1
        BY <1>1
    <2> QED
        BY <1>2, <1>3, <1>4, <2>1, <2>2
<1>6. SubSeq(a, 1, n) = SubSeq(b, 1, n)
    BY <1>1, <1>5
<1> QED
    BY <1>1, <1>2, <1>3, <1>6 DEF IsSuffix, IsPrefix, a, b, n

LEMMA BehindAppend ==
    ASSUME NEW s \in Seq(Msg), NEW r \in Seq(Msg), NEW x \in Msg, Behind(s, r)
    PROVE  Behind(Append(s, x), Append(r, x))
<1> DEFINE a == Append(s, x)
           b == Append(r, x)
<1>1. /\ Len(a) = Len(s) + 1 /\ Len(s) \in Nat /\ a[Len(s) + 1] = x
      /\ \A k \in 1 .. Len(s) : a[k] = s[k]
    BY AppendProperties
<1>2. /\ Len(b) = Len(r) + 1 /\ Len(r) \in Nat /\ b[Len(r) + 1] = x
      /\ \A k \in 1 .. Len(r) : b[k] = r[k]
    BY AppendProperties
<1> HIDE DEF a, b
<1>3. ASSUME NEW k \in 1 .. Len(a) PROVE a[k] = b[Len(b) - Len(a) + k]
    <2>1. CASE k = Len(s) + 1
        <3>1. Len(b) - Len(a) + k = Len(r) + 1
            BY <1>1, <1>2, <2>1
        <3> QED
            BY <1>1, <1>2, <2>1, <3>1
    <2>2. CASE k # Len(s) + 1
        <3>1. k \in 1 .. Len(s) /\ Len(b) - Len(a) + k = Len(r) - Len(s) + k
            BY <1>1, <1>2, <2>2
        <3>2. s[k] = r[Len(r) - Len(s) + k] /\ Len(s) <= Len(r)
            BY <3>1 DEF Behind
        <3>3. Len(r) - Len(s) + k \in 1 .. Len(r)
            BY <1>1, <1>2, <3>1, <3>2
        <3> QED
            BY <1>1, <1>2, <3>1, <3>2, <3>3
    <2> QED
        BY <2>1, <2>2
<1>4. Len(a) <= Len(b)
    BY <1>1, <1>2 DEF Behind
<1> QED
    BY <1>3, <1>4 DEF Behind, a, b

LEMMA BehindTail ==
    ASSUME NEW s \in Seq(Msg), NEW r \in Seq(Msg), s # <<>>, Behind(s, r)
    PROVE  Behind(Tail(s), r)
<1> DEFINE t == Tail(s)
<1>1. /\ Len(t) = Len(s) - 1 /\ Len(s) \in Nat \ {0} /\ Len(r) \in Nat
      /\ \A k \in 1 .. Len(t) : t[k] = s[k + 1]
    BY HeadTailProperties, EmptySeq
<1> HIDE DEF t
<1>2. Len(s) <= Len(r)
    BY DEF Behind
<1>3. ASSUME NEW k \in 1 .. Len(t) PROVE t[k] = r[Len(r) - Len(t) + k]
    <2>1. k + 1 \in 1 .. Len(s) /\ Len(r) - Len(t) + k = Len(r) - Len(s) + (k + 1)
        BY <1>1
    <2> QED
        BY <1>1, <2>1 DEF Behind
<1> QED
    BY <1>1, <1>2, <1>3 DEF Behind, t

-----------------------------------------------------------------------------
(***************************************************************************)
(* A generation that nobody has stopped: what it took, has queued, holds   *)
(* and was sent is in the order of publication, its queue is the end of    *)
(* what its handler finished with, and nothing is missing that slowDropped *)
(* does not count, or is about to.                                         *)
(***************************************************************************)
Whole(t, q, at, x, i, n, f, d) ==
    /\ Behind(q, f)
    /\ Rising(Line(t, q, InHand(at, x), i)) /\ AtMost(Line(t, q, InHand(at, x), i), n)
    /\ Len(f) = Len(t) + Len(q) + d + (IF at = "count" THEN 1 ELSE 0)
    /\ at \in {"count", "retry"} => Len(q) < QueueLimit

One == Whole(taken, queue[1], handler[1], held[1], inbox[1], published, handled, slowDropped)

Fresh ==
    cancelled = {} =>
        /\ started <= 1 /\ active = started
        /\ \A g \in Gens : reader[g] = "select" => source[g] = 1
        /\ started = 0 => taken = <<>> /\ handled = <<>> /\ slowDropped = 0
        /\ started = 1 => One

SlowInv == Types /\ Limits /\ Fresh

\* At first.
LEMMA WholeEmpty ==
    ASSUME NEW n \in Nat, NEW x
    PROVE  Whole(<<>>, <<>>, "idle", x, <<>>, n, <<>>, 0)
<1>1. <<>> \in Seq(Msg) /\ Len(<<>>) = 0
    OBVIOUS
<1>2. Line(<<>>, <<>>, InHand("idle", x), <<>>) = <<>>
    <2>1. Cat(<<>>, <<>>) = <<>>
        BY <1>1, ConcatEmptySeq DEF Cat
    <2> QED
        BY <2>1 DEF Line, InHand
<1>3. Behind(<<>>, <<>>) /\ Rising(<<>>) /\ AtMost(<<>>, n)
    BY <1>1 DEF Behind, Rising, AtMost
<1>4. Len(<<>>) = Len(<<>>) + Len(<<>>) + 0 + 0
    BY <1>1
<1> QED
    BY <1>2, <1>3, <1>4 DEF Whole

\* What the steps do to it.
LEMMA WholePublish ==
    ASSUME NEW t \in Seq(Msg), NEW q \in Seq(Msg), NEW i \in Seq(Msg), NEW f \in Seq(Msg),
           NEW at, NEW x, at # "idle" => x \in Msg, NEW d \in Nat,
           NEW n \in Nat, NEW m \in Msg, Whole(t, q, at, x, i, n, f, d)
    PROVE  m = n + 1 => /\ Whole(t, q, at, x, i, m, f, d)
                        /\ Whole(t, q, at, x, Append(i, m), m, f, d)
<1> DEFINE h == InHand(at, x)
           l == Line(t, q, h, i)
<1>1. h \in Seq(Msg)
    BY DEF InHand
<1>2. Rising(l) /\ AtMost(l, n)
    BY DEF Whole
<1> HIDE DEF h
<1>3. l \in Seq(Msg)
    BY <1>1, LineType
<1>4. Line(t, q, h, Append(i, m)) = Append(l, m)
    <2> DEFINE u == <<m>>
    <2>1. u \in Seq(Msg) /\ Append(i, m) = Cat(i, u)
        BY CatUnits
    <2>2. Append(l, m) = Cat(l, u)
        BY <1>3, CatUnits
    <2> HIDE DEF u
    <2>3. Line(t, q, h, Cat(i, u)) = Cat(l, u)
        BY <1>1, <2>1, LinePublish
    <2> HIDE DEF l
    <2> QED
        BY <2>1, <2>2, <2>3
<1> HIDE DEF l
<1> SUFFICES ASSUME m = n + 1
             PROVE  /\ Whole(t, q, at, x, i, m, f, d)
                    /\ Whole(t, q, at, x, Append(i, m), m, f, d)
    OBVIOUS
<1>5. Rising(Append(l, m)) /\ AtMost(Append(l, m), m)
    BY <1>2, <1>3, RisingAppend
<1>6. AtMost(l, m)
    <2>1. \A a \in 1 .. Len(l) : l[a] \in Msg
        BY <1>3
    <2>2. \A a \in 1 .. Len(l) : l[a] \in Nat
        BY <2>1, Bounds, SlowAssumption DEF Msg
    <2> QED
        BY <1>2, <2>2 DEF AtMost
<1> QED
    BY <1>2, <1>4, <1>5, <1>6 DEF Whole, h, l

LEMMA WholePush ==
    ASSUME NEW t \in Seq(Msg), NEW q \in Seq(Msg), NEW i \in Seq(Msg), NEW f \in Seq(Msg),
           NEW at \in {"offer", "evict", "retry"}, NEW x \in Msg, NEW d \in Nat,
           NEW n \in Nat, Whole(t, q, at, x, i, n, f, d)
    PROVE  Whole(t, Append(q, x), "idle", x, i, n, Append(f, x), d)
<1> DEFINE r == Append(q, x)
           g == Append(f, x)
<1>a. Behind(q, f) /\ Len(f) = Len(t) + Len(q) + d + 0
    BY DEF Whole
<1>b. Len(t) \in Nat /\ Len(q) \in Nat
    OBVIOUS
<1>1. Behind(q, f) /\ Len(f) = Len(t) + Len(q) + d
    BY <1>a, <1>b
<1>2. Behind(r, g)
    BY <1>1, BehindAppend
<1>3. Len(r) = Len(q) + 1 /\ Len(g) = Len(f) + 1
    BY AppendProperties
<1>4. Line(t, r, InHand("idle", x), i) = Line(t, q, InHand(at, x), i)
    BY LinePush DEF InHand
<1>5. Len(t) \in Nat /\ Len(q) \in Nat /\ Len(f) \in Nat
    OBVIOUS
<1> HIDE DEF r, g
<1>6. Len(g) = Len(t) + Len(r) + d + 0
    BY <1>1, <1>3, <1>5
<1> QED
    BY <1>2, <1>4, <1>6 DEF Whole, r, g

LEMMA WholeEvict ==
    ASSUME NEW t \in Seq(Msg), NEW q \in Seq(Msg), NEW i \in Seq(Msg), NEW f \in Seq(Msg),
           NEW x \in Msg, NEW d \in Nat, NEW n \in Nat, q # <<>>, Len(q) <= QueueLimit,
           Whole(t, q, "evict", x, i, n, f, d)
    PROVE  Whole(t, Tail(q), "count", x, i, n, f, d)
<1> DEFINE r == Tail(q)
           h == InHand("evict", x)
<1>1. Behind(q, f) /\ Len(f) = Len(t) + Len(q) + d
      /\ Rising(Line(t, q, h, i)) /\ AtMost(Line(t, q, h, i), n)
    BY DEF Whole
<1>2. Behind(r, f)
    BY <1>1, BehindTail
<1>3. h \in Seq(Msg) /\ h = InHand("count", x)
    BY DEF InHand
<1>4. Len(q) \in Nat \ {0} /\ Len(r) = Len(q) - 1
    BY Popped
<1> HIDE DEF h
<1>5. Rising(Line(t, r, h, i)) /\ AtMost(Line(t, r, h, i), n)
    BY <1>1, <1>3, LineEvict
<1> HIDE DEF r
<1>6. Len(t) \in Nat /\ Len(f) \in Nat /\ QueueLimit \in Nat
    BY SlowAssumption
<1>7. Len(f) = Len(t) + Len(r) + d + 1 /\ Len(r) < QueueLimit
    BY <1>1, <1>4, <1>6
<1> QED
    BY <1>2, <1>3, <1>5, <1>7 DEF Whole, r

LEMMA WholeTake ==
    ASSUME NEW t \in Seq(Msg), NEW q \in Seq(Msg), NEW i \in Seq(Msg), NEW f \in Seq(Msg),
           NEW at, NEW x, at # "idle" => x \in Msg, NEW d \in Nat, NEW n \in Nat,
           q # <<>>, Len(q) <= QueueLimit, Whole(t, q, at, x, i, n, f, d)
    PROVE  Whole(Append(t, Head(q)), Tail(q), at, x, i, n, f, d)
<1> DEFINE r == Tail(q)
           u == Append(t, Head(q))
           h == InHand(at, x)
           c == IF at = "count" THEN 1 ELSE 0
<1>1. Behind(q, f) /\ Len(f) = Len(t) + Len(q) + d + c
      /\ Rising(Line(t, q, h, i)) /\ AtMost(Line(t, q, h, i), n)
    BY DEF Whole
<1>2. Behind(r, f)
    BY <1>1, BehindTail
<1>3. h \in Seq(Msg)
    BY DEF InHand
<1>4. Len(q) \in Nat \ {0} /\ Len(r) = Len(q) - 1 /\ Head(q) \in Msg
    BY Popped
<1>a. Len(u) = Len(t) + 1
    BY <1>4, AppendProperties
<1>b. c \in Nat
    OBVIOUS
<1> HIDE DEF h
<1>5. Line(u, r, h, i) = Line(t, q, h, i)
    BY <1>3, LineTake
<1> HIDE DEF r, u, c
<1>6. Len(t) \in Nat /\ Len(f) \in Nat /\ QueueLimit \in Nat
    BY SlowAssumption
<1>7. Len(f) = Len(u) + Len(r) + d + c /\ Len(r) < QueueLimit
    BY <1>1, <1>4, <1>6, <1>a, <1>b
<1> QED
    BY <1>1, <1>2, <1>5, <1>7 DEF Whole, r, u, h, c

LEMMA WholeCall ==
    ASSUME NEW t \in Seq(Msg), NEW q \in Seq(Msg), NEW i \in Seq(Msg), NEW f,
           NEW x, NEW d, NEW n, i # <<>>, Whole(t, q, "idle", x, i, n, f, d)
    PROVE  Whole(t, q, "offer", Head(i), Tail(i), n, f, d)
<1>1. Line(t, q, <<Head(i)>>, Tail(i)) = Line(t, q, <<>>, i)
    BY LineCall
<1>2. InHand("offer", Head(i)) = <<Head(i)>> /\ InHand("idle", x) = <<>>
    BY DEF InHand
<1> QED
    BY <1>1, <1>2 DEF Whole

LEMMA WholeMove ==
    ASSUME NEW t \in Seq(Msg), NEW q \in Seq(Msg), NEW i, NEW f \in Seq(Msg), NEW x,
           NEW d \in Nat, NEW n
    PROVE  /\ Whole(t, q, "offer", x, i, n, f, d) => Whole(t, q, "evict", x, i, n, f, d)
           /\ Whole(t, q, "evict", x, i, n, f, d) /\ Len(q) < QueueLimit
                => Whole(t, q, "retry", x, i, n, f, d)
           /\ Whole(t, q, "count", x, i, n, f, d) => Whole(t, q, "retry", x, i, n, f, d + 1)
<1>1. Len(t) \in Nat /\ Len(q) \in Nat /\ Len(f) \in Nat
    OBVIOUS
<1>2. Len(t) + Len(q) + d + 1 = Len(t) + Len(q) + (d + 1) + 0
    BY <1>1
<1> QED
    BY <1>2 DEF Whole, InHand

\* While there is one generation every step is its own.
LEMMA Only ==
    ASSUME Types, Limits, started <= 1, NEW g \in Gens,
           \/ handler[g] # "idle" \/ inbox[g] # <<>>
           \/ reader[g] # "none" \/ queue[g] # <<>>
    PROVE  g = 1 /\ started = 1
<1>1. g \in 1 .. started
    BY Known
<1> QED
    BY <1>1, Bounds

LEMMA OneTyped ==
    ASSUME Types, Limits, started = 1
    PROVE  /\ 1 \in Gens
           /\ taken \in Seq(Msg) /\ queue[1] \in Seq(Msg) /\ inbox[1] \in Seq(Msg)
           /\ handled \in Seq(Msg)
           /\ handler[1] \in HandlerLabels /\ (handler[1] # "idle" => held[1] \in Msg)
           /\ slowDropped \in Nat /\ published \in Nat /\ Len(queue[1]) <= QueueLimit
<1>1. 1 \in Gens
    BY Bounds DEF Types, Gens
<1>2. published \in Nat
    BY Bounds DEF Types
<1> QED
    BY <1>1, <1>2 DEF Types, Limits

\* The steps that concern the messages of a generation leave the rest alone.
LEMMA FreshOne ==
    ASSUME Types, Limits, Fresh, UNCHANGED startVars,
           \A g \in Gens : reader'[g] = "select" => reader[g] = "select" /\ source'[g] = source[g],
           started = 0 => UNCHANGED <<taken, handled, slowDropped>>,
           cancelled = {} /\ started = 1 /\ One => One'
    PROVE  Fresh'
BY DEF Fresh, startVars

\* Each step in turn.
LEMMA FreshPublish ==
    ASSUME Types, Limits, Fresh, Publish
    PROVE  Fresh'
<1>1. /\ published < MaxMessages /\ published' = published + 1
      /\ UNCHANGED <<startVars, handler, held, handled, readerVars, queue, slowDropped>>
    BY DEF Publish
<1>2. ASSUME cancelled = {}, started = 1, One PROVE One'
    <2>1. /\ 1 \in Gens
          /\ taken \in Seq(Msg) /\ queue[1] \in Seq(Msg) /\ inbox[1] \in Seq(Msg)
          /\ handled \in Seq(Msg) /\ (handler[1] # "idle" => held[1] \in Msg)
          /\ slowDropped \in Nat /\ published \in Nat
        BY <1>2, OneTyped
    <2>2. published' \in Msg
        BY <1>1, <2>1, Bounds DEF Msg
    <2>3. inbox'[1] = inbox[1] \/ inbox'[1] = Append(inbox[1], published')
        <3>1. CASE members = {}
            BY <3>1 DEF Publish
        <3>2. CASE members # {}
            <4>1. PICK g \in members : inbox' = [inbox EXCEPT ![g] = Append(@, published')]
                BY <3>2 DEF Publish
            <4>2. g = 1
                BY <1>2 DEF Types
            <4> QED
                BY <2>1, <4>1, <4>2 DEF Types
        <3> QED
            BY <3>1, <3>2
    <2> DEFINE m == published'
               n == published
               i == inbox[1]
    <2>4. /\ Whole(taken, queue[1], handler[1], held[1], i, m, handled, slowDropped)
          /\ Whole(taken, queue[1], handler[1], held[1], Append(i, m), m, handled, slowDropped)
        <3>1. Whole(taken, queue[1], handler[1], held[1], i, n, handled, slowDropped)
            BY <1>2 DEF One
        <3>2. m \in Msg /\ m = n + 1 /\ n \in Nat /\ i \in Seq(Msg)
            BY <1>1, <2>1, <2>2
        <3> HIDE DEF m, n, i
        <3> QED
            BY <2>1, <3>1, <3>2, WholePublish
    <2> QED
        BY <1>1, <2>3, <2>4 DEF One, readerVars
<1> QED
    BY <1>1, <1>2, FreshOne DEF readerVars

LEMMA FreshControl ==
    ASSUME Types, Limits, Fresh, Start \/ Register \/ Started \/ StartFails \/ Stop
    PROVE  Fresh'
<1>1. CASE Start
    <2>1. /\ active = None /\ started' = started + 1 /\ active' = started'
          /\ slowDropped' = 0 /\ reader' = [reader EXCEPT ![started'] = "loop"]
          /\ UNCHANGED <<members, cancelled, handlerVars, source, taken, queue, published>>
        BY <1>1 DEF Start
    <2> SUFFICES ASSUME cancelled = {}
                 PROVE  /\ started' <= 1 /\ active' = started'
                        /\ \A g \in Gens : reader'[g] = "select" => source'[g] = 1
                        /\ started' = 0 => taken' = <<>> /\ handled' = <<>> /\ slowDropped' = 0
                        /\ started' = 1 => One'
        BY <2>1 DEF Fresh
    <2>2. started = 0 /\ started' = 1 /\ taken = <<>> /\ handled = <<>>
        BY <2>1 DEF Fresh, None
    <2>3. \A g \in Gens : reader[g] = "none" /\ handler[g] = "idle"
                          /\ inbox[g] = <<>> /\ queue[g] = <<>>
        BY <2>2, Bounds DEF Limits, Gens
    <2>4. \A g \in Gens : reader'[g] # "select"
        BY <2>1, <2>3 DEF Types
    <2>5. 1 \in Gens /\ published \in Nat
        <3>1. started < MaxStarts
            BY <1>1 DEF Start
        <3> QED
            BY <2>2, <3>1, Bounds DEF Types, Gens
    <2>6. One'
        BY <2>1, <2>2, <2>3, <2>5, WholeEmpty DEF One, handlerVars
    <2> QED
        BY <2>1, <2>2, <2>4, <2>6
<1>2. CASE Register \/ Started
    <2>1. UNCHANGED <<started, active, cancelled, handlerVars, readerVars, queue,
                      slowDropped, published>>
        BY <1>2 DEF Register, Started
    <2> QED
        BY <2>1 DEF Fresh, One, handlerVars, readerVars
<1>3. CASE StartFails \/ Stop
    <2>1. cancelled' # {}
        BY <1>3 DEF StartFails, Stop, Cancel
    <2> QED
        BY <2>1 DEF Fresh
<1> QED
    BY <1>1, <1>2, <1>3

LEMMA FreshCall ==
    ASSUME Types, Limits, Fresh, NEW g \in Gens, Call(g)
    PROVE  Fresh'
<1>1. /\ handler[g] = "idle" /\ inbox[g] # <<>>
      /\ inbox' = [inbox EXCEPT ![g] = Tail(@)]
      /\ UNCHANGED <<startVars, handled, readerVars, queue, slowDropped, published>>
    BY DEF Call
<1>2. ASSUME cancelled = {}, started = 1, One PROVE One'
    <2>1. g = 1
        BY <1>1, <1>2, Only
    <2>2. /\ taken \in Seq(Msg) /\ queue[1] \in Seq(Msg) /\ inbox[1] \in Seq(Msg)
        BY <1>2, OneTyped
    <2>3. /\ handler' = [handler EXCEPT ![g] = "offer"]
          /\ held' = [held EXCEPT ![g] = Head(inbox[g])]
        BY <1>2 DEF Call
    <2>4. inbox'[1] = Tail(inbox[1]) /\ handler'[1] = "offer" /\ held'[1] = Head(inbox[1])
        BY <1>1, <2>1, <2>3 DEF Types
    <2>5. Whole(taken, queue[1], "offer", Head(inbox[1]), Tail(inbox[1]), published,
                handled, slowDropped)
        BY <1>1, <1>2, <2>1, <2>2, WholeCall DEF One
    <2> QED
        BY <1>1, <2>4, <2>5 DEF One, readerVars
<1> QED
    BY <1>1, <1>2, FreshOne DEF readerVars

LEMMA FreshHandle ==
    ASSUME Types, Limits, Fresh, NEW g \in Gens, Handle(g)
    PROVE  Fresh'
<1>1. handler[g] # "idle" /\ UNCHANGED <<startVars, readerVars, inbox, held, published>>
    BY DEF Handle, Push, Full, Evict, CountDrop, EvictNothing, GiveUp, Continues
<1>2. CASE cancelled # {}
    BY <1>1, <1>2 DEF Fresh, startVars
<1>3. CASE cancelled = {}
    <2>1. g = 1 /\ started = 1 /\ active = 1
        BY <1>1, <1>3, Only DEF Fresh
    <2>2. /\ 1 \in Gens /\ taken \in Seq(Msg) /\ queue[1] \in Seq(Msg) /\ inbox[1] \in Seq(Msg)
          /\ handled \in Seq(Msg) /\ handler[1] \in HandlerLabels /\ held[1] \in Msg
          /\ slowDropped \in Nat /\ published \in Nat /\ Len(queue[1]) <= QueueLimit
          /\ QueueLimit \in Nat /\ Len(queue[1]) \in Nat
        BY <1>1, <2>1, OneTyped, SlowAssumption
    <2>3. Whole(taken, queue[1], handler[1], held[1], inbox[1], published, handled, slowDropped)
        BY <1>3, <2>1 DEF Fresh, One
    <2>4. ASSUME NEW from \in {"offer", "retry"}, Push(g, from) PROVE One'
        <3>1. /\ handler[1] = from
              /\ queue' = [queue EXCEPT ![1] = Append(@, held[1])]
              /\ handler' = [handler EXCEPT ![1] = "idle"]
              /\ handled' = Append(handled, held[1])
              /\ slowDropped' = slowDropped
            BY <2>1, <2>4 DEF Push, Finished
        <3>2. queue'[1] = Append(queue[1], held[1]) /\ handler'[1] = "idle"
            BY <2>2, <3>1 DEF Types
        <3>3. Whole(taken, Append(queue[1], held[1]), "idle", held[1], inbox[1], published,
                    Append(handled, held[1]), slowDropped)
            BY <2>2, <2>3, <3>1, WholePush
        <3> QED
            BY <1>1, <3>1, <3>2, <3>3 DEF One, readerVars
    <2>5. ASSUME Full(g) PROVE One'
        <3>1. /\ handler[1] = "offer" /\ handler'[1] = "evict"
              /\ UNCHANGED <<queue, handled, slowDropped>>
            BY <2>1, <2>2, <2>5 DEF Full, Continues, Types
        <3>2. Whole(taken, queue[1], "evict", held[1], inbox[1], published, handled, slowDropped)
            BY <2>2, <2>3, <3>1, WholeMove
        <3> QED
            BY <1>1, <3>1, <3>2 DEF One, readerVars
    <2>6. ASSUME Evict(g) PROVE One'
        <3>1. /\ handler[1] = "evict" /\ handler' = [handler EXCEPT ![1] = "count"]
              /\ queue[1] # <<>> /\ queue' = [queue EXCEPT ![1] = Tail(@)]
              /\ UNCHANGED <<handled, slowDropped>>
            BY <2>1, <2>6 DEF Evict, Continues, HasMessage
        <3>2. handler'[1] = "count" /\ queue'[1] = Tail(queue[1])
            BY <2>2, <3>1 DEF Types
        <3>3. Whole(taken, Tail(queue[1]), "count", held[1], inbox[1], published,
                    handled, slowDropped)
            BY <2>2, <2>3, <3>1, WholeEvict
        <3> QED
            BY <1>1, <3>1, <3>2, <3>3 DEF One, readerVars
    <2>7. ASSUME CountDrop(g) PROVE One'
        <3>1. /\ handler[1] = "count" /\ handler'[1] = "retry"
              /\ slowDropped' = slowDropped + 1 /\ UNCHANGED <<queue, handled>>
            BY <2>1, <2>2, <2>7 DEF CountDrop, Continues, Types
        <3>2. Whole(taken, queue[1], "retry", held[1], inbox[1], published, handled,
                    slowDropped + 1)
            BY <2>2, <2>3, <3>1, WholeMove
        <3> QED
            BY <1>1, <3>1, <3>2 DEF One, readerVars
    <2>8. ASSUME EvictNothing(g) PROVE One'
        <3>1. /\ handler[1] = "evict" /\ handler'[1] = "retry"
              /\ queue[1] = <<>> /\ UNCHANGED <<queue, handled, slowDropped>>
            BY <2>1, <2>2, <2>8 DEF EvictNothing, Continues, HasMessage, Types, None
        <3>2. Len(queue[1]) < QueueLimit
            BY <2>2, <3>1, SlowAssumption
        <3>3. Whole(taken, queue[1], "retry", held[1], inbox[1], published, handled, slowDropped)
            BY <2>2, <2>3, <3>1, <3>2, WholeMove
        <3> QED
            BY <1>1, <3>1, <3>3 DEF One, readerVars
    <2>9. ASSUME GiveUp(g) PROVE One'
        <3>1. handler[1] = "retry" /\ ~ (Len(queue[1]) < QueueLimit)
            BY <2>1, <2>9 DEF GiveUp, HasRoom, None
        <3> QED
            BY <2>3, <3>1 DEF Whole
    <2>10. One'
        BY <2>4, <2>5, <2>6, <2>7, <2>8, <2>9 DEF Handle
    <2> QED
        BY <1>1, <2>1, <2>10, FreshOne DEF readerVars
<1> QED
    BY <1>2, <1>3

LEMMA FreshRead ==
    ASSUME Types, Limits, Fresh, NEW g \in Gens, Select(g) \/ Take(g) \/ Wake(g) \/ Leave(g)
    PROVE  Fresh'
<1>1. reader[g] # "none" /\ UNCHANGED <<startVars, handlerVars, slowDropped, published>>
    BY DEF Select, Take, Wake, Leave
<1>2. CASE cancelled # {}
    BY <1>1, <1>2 DEF Fresh, startVars
<1> SUFFICES ASSUME cancelled = {} PROVE Fresh'
    BY <1>2
<1>3. g = 1 /\ started = 1 /\ active = 1 /\ One
    BY <1>1, Only DEF Fresh
<1>4. CASE Select(g)
    <2>1. /\ reader' = [reader EXCEPT ![g] = "select"]
          /\ source' = [source EXCEPT ![g] = 1]
          /\ UNCHANGED <<taken, queue>>
        BY <1>3, <1>4 DEF Select
    <2>2. \A h \in Gens : reader'[h] = "select" => source'[h] = 1
        BY <1>1, <2>1 DEF Fresh, Types
    <2>3. One'
        BY <1>1, <1>3, <2>1 DEF One, handlerVars
    <2> QED
        BY <1>1, <1>3, <2>2, <2>3 DEF Fresh, startVars
<1>5. CASE Wake(g) \/ Leave(g)
    <2>1. /\ \A h \in Gens : reader'[h] = "select" => reader[h] = "select"
          /\ UNCHANGED <<taken, queue, source>>
        BY <1>5 DEF Wake, Leave, Types
    <2> QED
        BY <1>1, <1>3, <2>1, FreshOne DEF One, handlerVars
<1>6. CASE Take(g)
    <2>1. source[g] = 1
        BY <1>6 DEF Take, Fresh
    <2>2. /\ queue[1] # <<>> /\ queue' = [queue EXCEPT ![1] = Tail(@)]
          /\ taken' = Append(taken, Head(queue[1]))
          /\ reader' = [reader EXCEPT ![g] = "asleep"] /\ source' = source
        BY <1>6, <2>1 DEF Take
    <2>3. /\ 1 \in Gens /\ taken \in Seq(Msg) /\ queue[1] \in Seq(Msg) /\ inbox[1] \in Seq(Msg)
          /\ handled \in Seq(Msg) /\ (handler[1] # "idle" => held[1] \in Msg)
          /\ slowDropped \in Nat /\ published \in Nat /\ Len(queue[1]) <= QueueLimit
        BY <1>3, OneTyped
    <2>4. queue'[1] = Tail(queue[1])
        BY <2>2, <2>3 DEF Types
    <2>5. Whole(Append(taken, Head(queue[1])), Tail(queue[1]), handler[1], held[1], inbox[1],
                published, handled, slowDropped)
        BY <1>3, <2>2, <2>3, WholeTake DEF One
    <2>6. One'
        BY <1>1, <2>2, <2>4, <2>5 DEF One, handlerVars
    <2>7. \A h \in Gens : reader'[h] = "select" => reader[h] = "select"
        BY <2>2 DEF Types
    <2> QED
        BY <1>1, <1>3, <2>2, <2>6, <2>7, FreshOne
<1> QED
    BY <1>4, <1>5, <1>6

\* Every step keeps the invariant.
LEMMA SlowInductive ==
    ASSUME SlowInv, [Next]_vars
    PROVE  SlowInv'
<1>1. Types' /\ Limits'
    BY TypesNext DEF SlowInv
<1>2. Fresh'
    <2>1. CASE UNCHANGED vars
        BY <2>1 DEF SlowInv, vars, startVars, handlerVars, readerVars, Fresh, One
    <2> QED
        BY <2>1, FreshPublish, FreshControl, FreshCall, FreshHandle, FreshRead DEF SlowInv, Next
<1> QED
    BY <1>1, <1>2 DEF SlowInv

LEMMA SlowInit ==
    ASSUME Init
    PROVE  SlowInv
<1>1. Fresh
    BY DEF Init, Fresh, Each, None
<1> QED
    BY <1>1, TypesInit DEF SlowInv

LEMMA SlowAlways == Spec => []SlowInv
BY SlowInit, SlowInductive, PTL DEF Spec

\* Until it is stopped the consumer loses the oldest message only, and counts
\* it, however its reader and its handler's three steps interleave, for every
\* size of the queue and number of messages.
THEOREM OnlyOldestIsDropped == Spec => []OnlyOldestDropped
<1>1. SlowInv => OnlyOldestDropped
    <2> SUFFICES ASSUME SlowInv, active = 1, cancelled = {}
                 PROVE  /\ IsSuffix(queue[1], handled)
                        /\ \A i, j \in DOMAIN (taken \o queue[1]) :
                              i < j => (taken \o queue[1])[i] < (taken \o queue[1])[j]
                        /\ handler[1] # "count" =>
                              Len(handled) = Len(taken \o queue[1]) + slowDropped
        BY DEF OnlyOldestDropped
    <2>1. started = 1 /\ One /\ Types /\ Limits
        BY DEF SlowInv, Fresh
    <2>2. /\ taken \in Seq(Msg) /\ queue[1] \in Seq(Msg) /\ inbox[1] \in Seq(Msg)
          /\ handled \in Seq(Msg) /\ (handler[1] # "idle" => held[1] \in Msg)
          /\ slowDropped \in Nat
        BY <2>1, OneTyped
    <2> DEFINE q == queue[1]
               h == InHand(handler[1], held[1])
               i == inbox[1]
               kept == Cat(taken, q)
    <2>3. /\ Behind(q, handled) /\ Rising(Line(taken, q, h, i))
          /\ Len(handled) = Len(taken) + Len(q) + slowDropped
                                + (IF handler[1] = "count" THEN 1 ELSE 0)
        BY <2>1 DEF One, Whole
    <2>4. h \in Seq(Msg) /\ q \in Seq(Msg) /\ i \in Seq(Msg)
        BY <2>2 DEF InHand
    <2> HIDE DEF q, h, i
    <2>5. IsSuffix(q, handled)
        BY <2>2, <2>3, <2>4, BehindIsSuffix
    <2>6. Rising(kept)
        BY <2>2, <2>3, <2>4, KeptRises
    <2>7. kept \in Seq(Msg) /\ Len(kept) = Len(taken) + Len(q)
        BY <2>2, <2>4, CatType
    <2> HIDE DEF kept
    <2>8. Len(taken) \in Nat /\ Len(q) \in Nat /\ Len(kept) \in Nat
        BY <2>2, <2>4, <2>7
    <2>9. \A a, b \in DOMAIN kept : a < b => kept[a] < kept[b]
        BY <2>6, <2>7 DEF Rising
    <2>10. handler[1] # "count" => Len(handled) = Len(kept) + slowDropped
        BY <2>2, <2>3, <2>7, <2>8
    <2> QED
        BY <2>5, <2>9, <2>10 DEF kept, q, Cat
<1> QED
    BY <1>1, SlowAlways, PTL

-----------------------------------------------------------------------------
(***************************************************************************)
(* Where a message, or an eviction not yet counted, can be: the message k  *)
(* of an inbox or a queue, the one a handler has.  Each was published, so  *)
(* that they and what slowDropped counts are not more than that.           *)
(***************************************************************************)
At(p, g, k) ==
    \/ p = "inbox" /\ k \in 1 .. Len(inbox[g])
    \/ p = "queue" /\ k \in 1 .. Len(queue[g])
    \/ p = "held" /\ k = 0 /\ handler[g] # "idle"
    \/ p = "count" /\ k = 0 /\ handler[g] = "count"

Places == {"inbox", "queue", "held", "count"}
Spots == Places \X Gens \X Nat
Occupied(s) == At(s[1], s[2], s[3])
InFlight == {s \in Spots : Occupied(s)}

Accounted == IsFiniteSet(InFlight) /\ slowDropped + Cardinality(InFlight) <= published

\* Of a step that takes the spots b after a.
LEMMA Shrinks ==
    ASSUME NEW a, IsFiniteSet(a), NEW b, b \subseteq a
    PROVE  IsFiniteSet(b) /\ Cardinality(b) \in Nat /\ Cardinality(a) \in Nat
           /\ Cardinality(b) <= Cardinality(a)
BY FS_Subset, FS_CardinalityType

LEMMA Grows ==
    ASSUME NEW a, IsFiniteSet(a), NEW x, NEW b, b \subseteq a \cup {x}
    PROVE  IsFiniteSet(b) /\ Cardinality(b) \in Nat /\ Cardinality(a) \in Nat
           /\ Cardinality(b) <= Cardinality(a) + 1
<1> DEFINE c == a \cup {x}
<1>1. IsFiniteSet(c) /\ Cardinality(c) = IF x \in a THEN Cardinality(a) ELSE Cardinality(a) + 1
    BY FS_AddElement
<1>2. Cardinality(a) \in Nat
    BY FS_CardinalityType
<1> HIDE DEF c
<1>3. IsFiniteSet(b) /\ Cardinality(b) \in Nat /\ Cardinality(b) <= Cardinality(c)
      /\ Cardinality(c) \in Nat
    BY <1>1, Shrinks DEF c
<1> QED
    BY <1>1, <1>2, <1>3

LEMMA Loses ==
    ASSUME NEW a, IsFiniteSet(a), NEW x \in a, NEW b, b \subseteq a \ {x}
    PROVE  IsFiniteSet(b) /\ Cardinality(b) \in Nat /\ Cardinality(a) \in Nat
           /\ Cardinality(b) + 1 <= Cardinality(a)
<1> DEFINE c == a \ {x}
<1>1. IsFiniteSet(c) /\ Cardinality(c) = Cardinality(a) - 1
    BY FS_RemoveElement
<1>2. Cardinality(a) \in Nat
    BY FS_CardinalityType
<1> HIDE DEF c
<1>3. IsFiniteSet(b) /\ Cardinality(b) \in Nat /\ Cardinality(b) <= Cardinality(c)
      /\ Cardinality(c) \in Nat
    BY <1>1, Shrinks DEF c
<1> QED
    BY <1>1, <1>2, <1>3

LEMMA Moves ==
    ASSUME NEW a, IsFiniteSet(a), NEW x \in a, NEW y, NEW b, b \subseteq (a \ {x}) \cup {y}
    PROVE  IsFiniteSet(b) /\ Cardinality(b) \in Nat /\ Cardinality(a) \in Nat
           /\ Cardinality(b) <= Cardinality(a)
<1> DEFINE c == a \ {x}
<1>1. IsFiniteSet(c) /\ Cardinality(c) \in Nat /\ Cardinality(c) + 1 <= Cardinality(a)
      /\ Cardinality(a) \in Nat
    BY Loses
<1> HIDE DEF c
<1>2. IsFiniteSet(b) /\ Cardinality(b) \in Nat /\ Cardinality(b) <= Cardinality(c) + 1
    BY <1>1, Grows DEF c
<1> QED
    BY <1>1, <1>2

\* The steps, in terms of the spots they free and take.
LEMMA NoneTaken ==
    ASSUME Accounted, slowDropped' <= slowDropped, slowDropped \in Nat, slowDropped' \in Nat,
           published \in Nat, published' = published,
           \A s \in Spots : Occupied(s)' => Occupied(s)
    PROVE  Accounted'
<1> DEFINE a == InFlight
           b == InFlight'
<1>1. b \subseteq a /\ IsFiniteSet(a) /\ slowDropped + Cardinality(a) <= published
    BY DEF InFlight, Accounted
<1> HIDE DEF a, b
<1>2. IsFiniteSet(b) /\ Cardinality(b) \in Nat /\ Cardinality(a) \in Nat
      /\ Cardinality(b) <= Cardinality(a)
    BY <1>1, Shrinks
<1>3. slowDropped' + Cardinality(b) <= published'
    BY <1>1, <1>2
<1> QED
    BY <1>2, <1>3 DEF Accounted, b

LEMMA OneTaken ==
    ASSUME Accounted, slowDropped' = slowDropped, slowDropped \in Nat,
           published \in Nat, published' = published + 1, NEW y,
           \A s \in Spots : Occupied(s)' => Occupied(s) \/ s = y
    PROVE  Accounted'
<1> DEFINE a == InFlight
           b == InFlight'
<1>1. b \subseteq a \cup {y} /\ IsFiniteSet(a) /\ slowDropped + Cardinality(a) <= published
    BY DEF InFlight, Accounted
<1> HIDE DEF a, b
<1>2. IsFiniteSet(b) /\ Cardinality(b) \in Nat /\ Cardinality(a) \in Nat
      /\ Cardinality(b) <= Cardinality(a) + 1
    BY <1>1, Grows
<1>3. slowDropped' + Cardinality(b) <= published'
    BY <1>1, <1>2
<1> QED
    BY <1>2, <1>3 DEF Accounted, b

LEMMA OneMoves ==
    ASSUME Accounted, slowDropped' = slowDropped, slowDropped \in Nat,
           published \in Nat, published' = published,
           NEW x \in Spots, Occupied(x), NEW y,
           \A s \in Spots : Occupied(s)' => (Occupied(s) /\ s # x) \/ s = y
    PROVE  Accounted'
<1> DEFINE a == InFlight
           b == InFlight'
<1>1. x \in a /\ b \subseteq (a \ {x}) \cup {y} /\ IsFiniteSet(a)
      /\ slowDropped + Cardinality(a) <= published
    BY DEF InFlight, Accounted
<1> HIDE DEF a, b
<1>2. IsFiniteSet(b) /\ Cardinality(b) \in Nat /\ Cardinality(a) \in Nat
      /\ Cardinality(b) <= Cardinality(a)
    BY <1>1, Moves
<1>3. slowDropped' + Cardinality(b) <= published'
    BY <1>1, <1>2
<1> QED
    BY <1>2, <1>3 DEF Accounted, b

LEMMA OneCounted ==
    ASSUME Accounted, slowDropped' = slowDropped + 1, slowDropped \in Nat,
           published \in Nat, published' = published,
           NEW x \in Spots, Occupied(x),
           \A s \in Spots : Occupied(s)' => Occupied(s) /\ s # x
    PROVE  Accounted'
<1> DEFINE a == InFlight
           b == InFlight'
<1>1. x \in a /\ b \subseteq a \ {x} /\ IsFiniteSet(a)
      /\ slowDropped + Cardinality(a) <= published
    BY DEF InFlight, Accounted
<1> HIDE DEF a, b
<1>2. IsFiniteSet(b) /\ Cardinality(b) \in Nat /\ Cardinality(a) \in Nat
      /\ Cardinality(b) + 1 <= Cardinality(a)
    BY <1>1, Loses
<1>3. slowDropped' + Cardinality(b) <= published'
    BY <1>1, <1>2
<1> QED
    BY <1>2, <1>3 DEF Accounted, b

\* A spot and its parts.
LEMMA SpotIs ==
    ASSUME NEW s \in Spots
    PROVE  /\ s = <<s[1], s[2], s[3]>>
           /\ s[1] \in Places /\ s[2] \in Gens /\ s[3] \in Nat
BY DEF Spots

LEMMA SpotAt ==
    ASSUME NEW p \in Places, NEW g \in Gens, NEW k \in Nat
    PROVE  <<p, g, k>> \in Spots /\ (Occupied(<<p, g, k>>) <=> At(p, g, k))
BY DEF Spots, Occupied

\* A sequence that lost its first element has a spot less, one that got one
\* has a spot more.
LEMMA Shorter ==
    ASSUME NEW s \in [Gens -> Seq(Msg)], NEW g \in Gens, s[g] # <<>>,
           NEW r, r = [s EXCEPT ![g] = Tail(@)]
    PROVE  /\ Len(s[g]) \in Nat \ {0}
           /\ \A h \in Gens, k \in Nat :
                k \in 1 .. Len(r[h]) => k \in 1 .. Len(s[h]) /\ (h = g => k # Len(s[g]))
<1>1. /\ Len(s[g]) \in Nat \ {0} /\ Len(Tail(s[g])) = Len(s[g]) - 1
    <2>1. s[g] \in Seq(Msg)
        OBVIOUS
    <2> QED
        BY <2>1, Popped
<1>2. ASSUME NEW h \in Gens, NEW k \in Nat, k \in 1 .. Len(r[h])
      PROVE  k \in 1 .. Len(s[h]) /\ (h = g => k # Len(s[g]))
    <2>1. CASE h = g
        <3> DEFINE n == Len(s[g])
        <3>1. Len(r[h]) = n - 1 /\ Len(s[h]) = n /\ n \in Nat \ {0}
            BY <1>1, <2>1
        <3> HIDE DEF n
        <3>2. k \in 1 .. n - 1
            BY <1>2, <3>1
        <3>3. k \in 1 .. n /\ k # n
            BY <3>1, <3>2
        <3> QED
            BY <3>1, <3>3 DEF n
    <2>2. CASE h # g
        BY <1>2, <2>2
    <2> QED
        BY <2>1, <2>2
<1> QED
    BY <1>1, <1>2

LEMMA Longer ==
    ASSUME NEW s \in [Gens -> Seq(Msg)], NEW g \in Gens, NEW x \in Msg,
           NEW r, r = [s EXCEPT ![g] = Append(@, x)]
    PROVE  \A h \in Gens, k \in Nat :
                k \in 1 .. Len(r[h]) => k \in 1 .. Len(s[h]) \/ (h = g /\ k = Len(s[g]) + 1)
<1>1. /\ Len(s[g]) \in Nat /\ Len(Append(s[g], x)) = Len(s[g]) + 1
    <2>1. s[g] \in Seq(Msg)
        OBVIOUS
    <2> QED
        BY <2>1, AppendProperties
<1>2. ASSUME NEW h \in Gens, NEW k \in Nat, k \in 1 .. Len(r[h])
      PROVE  k \in 1 .. Len(s[h]) \/ (h = g /\ k = Len(s[g]) + 1)
    <2>1. CASE h = g
        <3>1. Len(r[h]) = Len(s[g]) + 1
            BY <1>1, <2>1
        <3> QED
            BY <1>1, <1>2, <2>1, <3>1
    <2>2. CASE h # g
        BY <1>2, <2>2
    <2> QED
        BY <2>1, <2>2
<1> QED
    BY <1>2

LEMMA CountsAre ==
    ASSUME Types
    PROVE  /\ slowDropped \in Nat /\ published \in Nat
           /\ inbox \in [Gens -> Seq(Msg)] /\ queue \in [Gens -> Seq(Msg)]
           /\ handler \in [Gens -> HandlerLabels]
BY Bounds DEF Types

\* Each step in turn.
LEMMA PublishAccounts ==
    ASSUME Types, Accounted, Publish
    PROVE  Accounted'
<1>1. published' = published + 1 /\ UNCHANGED <<handler, queue, slowDropped>>
    BY DEF Publish
<1>2. CASE members = {}
    <2>2. inbox' = inbox
        BY <1>2 DEF Publish
    <2>3. \A s \in Spots : Occupied(s)' => Occupied(s)
        BY <1>1, <2>2 DEF Occupied, At
    <2>4. \A s \in Spots : Occupied(s)' => Occupied(s) \/ s = <<>>
        BY <2>3
    <2> QED
        BY <1>1, <2>4, CountsAre, OneTaken
<1>3. CASE members # {}
    <2>1. PICK g \in members : inbox' = [inbox EXCEPT ![g] = Append(@, published')]
        BY <1>3 DEF Publish
    <2>2. g \in Gens /\ published' \in Msg
        <3>1. published < MaxMessages
            BY DEF Publish
        <3> QED
            BY <1>1, <3>1, Bounds DEF Types, Gens, Msg
    <2> DEFINE y == <<"inbox", g, Len(inbox[g]) + 1>>
    <2>3. \A h \in Gens, k \in Nat : k \in 1 .. Len(inbox'[h]) =>
                k \in 1 .. Len(inbox[h]) \/ (h = g /\ k = Len(inbox[g]) + 1)
        BY <2>1, <2>2, CountsAre, Longer
    <2>4. ASSUME NEW s \in Spots, Occupied(s)' PROVE Occupied(s) \/ s = y
        BY <1>1, <2>3, <2>4, SpotIs DEF Occupied, At
    <2> HIDE DEF y
    <2> QED
        BY <1>1, <2>4, CountsAre, OneTaken
<1> QED
    BY <1>2, <1>3

LEMMA ControlAccounts ==
    ASSUME Types, Accounted, Start \/ Register \/ Started \/ StartFails \/ Stop
    PROVE  Accounted'
<1>1. /\ UNCHANGED <<handler, queue, published>>
      /\ slowDropped' = 0 \/ slowDropped' = slowDropped
      /\ inbox' = inbox \/ inbox' = [inbox EXCEPT ![active] = <<>>]
    BY DEF Start, Register, Started, StartFails, Stop, handlerVars
<1>2. ASSUME NEW h \in Gens, NEW k \in 1 .. Len(inbox'[h]) PROVE k \in 1 .. Len(inbox[h])
    <2>1. inbox'[h] = inbox[h] \/ inbox'[h] = <<>>
        BY <1>1 DEF Types
    <2>2. Len(<<>>) = 0
        OBVIOUS
    <2> QED
        BY <2>1, <2>2
<1>3. ASSUME NEW s \in Spots, Occupied(s)' PROVE Occupied(s)
    BY <1>1, <1>2, <1>3, SpotIs DEF Occupied, At
<1>4. slowDropped' \in Nat /\ slowDropped' <= slowDropped
    BY <1>1, CountsAre
<1> QED
    BY <1>1, <1>3, <1>4, CountsAre, NoneTaken

LEMMA CallAccounts ==
    ASSUME Types, Accounted, NEW g \in Gens, Call(g)
    PROVE  Accounted'
<1>1. /\ handler[g] = "idle" /\ inbox[g] # <<>>
      /\ inbox' = [inbox EXCEPT ![g] = Tail(@)]
      /\ UNCHANGED <<queue, slowDropped, published>>
      /\ handler' = handler \/ handler' = [handler EXCEPT ![g] = "offer"]
    BY DEF Call
<1> DEFINE n == Len(inbox[g])
           x == <<"inbox", g, n>>
           y == <<"held", g, 0>>
<1>2. /\ n \in Nat \ {0}
      /\ \A h \in Gens, k \in Nat :
            k \in 1 .. Len(inbox'[h]) => k \in 1 .. Len(inbox[h]) /\ (h = g => k # n)
    BY <1>1, CountsAre, Shorter
<1> HIDE DEF n
<1>3. x \in Spots /\ Occupied(x)
    BY <1>2, SpotAt DEF At, Places, n
<1>4. ASSUME NEW s \in Spots, Occupied(s)' PROVE (Occupied(s) /\ s # x) \/ s = y
    <2>1. CASE s[1] = "inbox"
        BY <1>2, <1>4, <2>1, SpotIs DEF Occupied, At
    <2>2. CASE s[1] # "inbox" /\ s # y
        <3>1. s # x
            BY <2>2
        <3>2. s[2] \in Gens /\ s = <<s[1], s[2], s[3]>>
            BY SpotIs
        <3>3. s[2] # g => handler'[s[2]] = handler[s[2]]
            BY <1>1, <3>2, CountsAre
        <3>4. handler'[g] # "count" /\ handler[g] = "idle"
            BY <1>1, CountsAre
        <3> QED
            BY <1>1, <1>4, <2>2, <3>1, <3>2, <3>3, <3>4 DEF Occupied, At
    <2> QED
        BY <2>1, <2>2
<1> HIDE DEF x, y
<1> QED
    BY <1>1, <1>3, <1>4, CountsAre, OneMoves

LEMMA PushAccounts ==
    ASSUME Types, Limits, Accounted, NEW g \in Gens, NEW from \in {"offer", "retry"}, Push(g, from)
    PROVE  Accounted'
<1>1. /\ handler[g] = from /\ active # None
      /\ queue' = [queue EXCEPT ![active] = Append(@, held[g])]
      /\ handler' = [handler EXCEPT ![g] = "idle"]
      /\ UNCHANGED <<inbox, slowDropped, published>>
    BY DEF Push, HasRoom, Finished
<1>2. active \in Gens /\ held[g] \in Msg
    BY <1>1, Bounds DEF Limits
<1> DEFINE n == Len(queue[active]) + 1
           x == <<"held", g, 0>>
           y == <<"queue", active, n>>
<1>3. \A h \in Gens, k \in Nat :
            k \in 1 .. Len(queue'[h]) => k \in 1 .. Len(queue[h]) \/ (h = active /\ k = n)
    BY <1>1, <1>2, CountsAre, Longer
<1> HIDE DEF n
<1>4. x \in Spots /\ Occupied(x)
    BY <1>1, SpotAt DEF At, Places
<1>5. ASSUME NEW s \in Spots, Occupied(s)' PROVE (Occupied(s) /\ s # x) \/ s = y
    <2>1. s[2] \in Gens /\ s = <<s[1], s[2], s[3]>> /\ s[3] \in Nat
        BY SpotIs
    <2>2. /\ s[2] # g => handler'[s[2]] = handler[s[2]]
          /\ handler'[g] = "idle"
        BY <1>1, <2>1, CountsAre
    <2> QED
        BY <1>1, <1>3, <1>5, <2>1, <2>2 DEF Occupied, At
<1> HIDE DEF x, y
<1> QED
    BY <1>1, <1>4, <1>5, CountsAre, OneMoves

LEMMA EvictAccounts ==
    ASSUME Types, Accounted, NEW g \in Gens, Evict(g)
    PROVE  Accounted'
<1>1. /\ handler[g] = "evict" /\ active # None /\ queue[active] # <<>>
      /\ queue' = [queue EXCEPT ![active] = Tail(@)]
      /\ handler' = [handler EXCEPT ![g] = "count"]
      /\ UNCHANGED <<inbox, slowDropped, published>>
    BY DEF Evict, HasMessage, Continues
<1>2. active \in Gens
    BY <1>1, Bounds
<1> DEFINE n == Len(queue[active])
           x == <<"queue", active, n>>
           y == <<"count", g, 0>>
<1>3. /\ n \in Nat \ {0}
      /\ \A h \in Gens, k \in Nat :
            k \in 1 .. Len(queue'[h]) => k \in 1 .. Len(queue[h]) /\ (h = active => k # n)
    BY <1>1, <1>2, CountsAre, Shorter
<1> HIDE DEF n
<1>4. x \in Spots /\ Occupied(x)
    BY <1>2, <1>3, SpotAt DEF At, Places, n
<1>5. ASSUME NEW s \in Spots, Occupied(s)' PROVE (Occupied(s) /\ s # x) \/ s = y
    <2>1. s[2] \in Gens /\ s = <<s[1], s[2], s[3]>> /\ s[3] \in Nat
        BY SpotIs
    <2>2. /\ s[2] # g => handler'[s[2]] = handler[s[2]]
          /\ handler'[g] = "count"
        BY <1>1, <2>1, CountsAre
    <2>3. CASE s[1] = "queue"
        BY <1>3, <1>5, <2>1, <2>3 DEF Occupied, At
    <2>4. CASE s[1] # "queue"
        <3>1. s # x
            BY <2>4
        <3> QED
            BY <1>1, <1>5, <2>1, <2>2, <2>4, <3>1 DEF Occupied, At
    <2> QED
        BY <2>3, <2>4
<1> HIDE DEF x, y
<1> QED
    BY <1>1, <1>4, <1>5, CountsAre, OneMoves

LEMMA CountAccounts ==
    ASSUME Types, Accounted, NEW g \in Gens, CountDrop(g)
    PROVE  Accounted'
<1>1. /\ handler[g] = "count" /\ handler' = [handler EXCEPT ![g] = "retry"]
      /\ slowDropped' = slowDropped + 1 /\ UNCHANGED <<inbox, queue, published>>
    BY DEF CountDrop, Continues
<1> DEFINE x == <<"count", g, 0>>
<1>2. x \in Spots /\ Occupied(x)
    BY <1>1, SpotAt DEF At, Places
<1>3. ASSUME NEW s \in Spots, Occupied(s)' PROVE Occupied(s) /\ s # x
    <2>1. s[2] \in Gens
        BY SpotIs
    <2>2. /\ s[2] # g => handler'[s[2]] = handler[s[2]]
          /\ handler'[g] = "retry"
        BY <1>1, <2>1, CountsAre
    <2> QED
        BY <1>1, <1>3, <2>2 DEF Occupied, At
<1> HIDE DEF x
<1> QED
    BY <1>1, <1>2, <1>3, CountsAre, OneCounted

\* The handler's other steps and the reader's free spots, if anything.
LEMMA HandleAccounts ==
    ASSUME Types, Limits, Accounted, NEW g \in Gens, Handle(g)
    PROVE  Accounted'
<1>1. CASE Full(g) \/ EvictNothing(g) \/ GiveUp(g)
    <2>1. /\ handler[g] # "idle"
          /\ \E to \in {"evict", "retry", "idle"} : handler' = [handler EXCEPT ![g] = to]
          /\ UNCHANGED <<inbox, queue, slowDropped, published>>
        BY <1>1 DEF Full, EvictNothing, GiveUp, Finished, Continues
    <2>2. ASSUME NEW s \in Spots, Occupied(s)' PROVE Occupied(s)
        <3>1. s[2] \in Gens
            BY SpotIs
        <3>2. /\ s[2] # g => handler'[s[2]] = handler[s[2]]
              /\ handler'[g] \in {"evict", "retry", "idle"}
            BY <2>1, <3>1, CountsAre
        <3> QED
            BY <2>1, <2>2, <3>2 DEF Occupied, At
    <2> QED
        BY <2>1, <2>2, CountsAre, NoneTaken
<1> QED
    BY <1>1, PushAccounts, EvictAccounts, CountAccounts DEF Handle

LEMMA ReadAccounts ==
    ASSUME Types, Limits, Accounted, NEW g \in Gens,
           Select(g) \/ Take(g) \/ Wake(g) \/ Leave(g)
    PROVE  Accounted'
<1>1. UNCHANGED <<inbox, handler, slowDropped, published>>
    BY DEF Select, Take, Wake, Leave, handlerVars
<1>2. ASSUME NEW h \in Gens, NEW k \in Nat, k \in 1 .. Len(queue'[h])
      PROVE  k \in 1 .. Len(queue[h])
    <2>1. CASE Take(g)
        <3> DEFINE a == source[g]
        <3>1. a # None /\ queue[a] # <<>> /\ queue' = [queue EXCEPT ![a] = Tail(@)]
            BY <2>1 DEF Take
        <3>2. a \in Gens
            <4>1. a \in 0 .. started /\ started \in Nat /\ started <= MaxStarts /\ MaxStarts \in Nat
                BY Bounds DEF Types
            <4> HIDE DEF a
            <4> QED
                BY <3>1, <4>1 DEF None, Gens
        <3> HIDE DEF a
        <3> QED
            BY <1>2, <3>1, <3>2, CountsAre, Shorter
    <2>2. CASE Select(g) \/ Wake(g) \/ Leave(g)
        BY <1>2, <2>2 DEF Select, Wake, Leave
    <2> QED
        BY <2>1, <2>2
<1>3. ASSUME NEW s \in Spots, Occupied(s)' PROVE Occupied(s)
    BY <1>1, <1>2, <1>3, SpotIs DEF Occupied, At
<1> QED
    BY <1>1, <1>3, CountsAre, NoneTaken

LEMMA AccountedNext ==
    ASSUME Types, Limits, Accounted, [Next]_vars
    PROVE  Accounted'
<1>1. CASE UNCHANGED vars
    <2>1. UNCHANGED <<inbox, queue, handler, slowDropped, published>>
        BY <1>1 DEF vars, handlerVars
    <2>2. \A s \in Spots : Occupied(s)' => Occupied(s)
        BY <2>1 DEF Occupied, At
    <2> QED
        BY <2>1, <2>2, CountsAre, NoneTaken
<1> QED
    BY <1>1, PublishAccounts, ControlAccounts, CallAccounts, HandleAccounts, ReadAccounts DEF Next

LEMMA AccountedInit ==
    ASSUME Init
    PROVE  Accounted
<1>1. InFlight = {}
    <2>1. ASSUME NEW s \in Spots PROVE ~ Occupied(s)
        <3>1. s[2] \in Gens
            BY SpotIs
        <3>2. inbox[s[2]] = <<>> /\ queue[s[2]] = <<>> /\ handler[s[2]] = "idle" /\ Len(<<>>) = 0
            BY <3>1 DEF Init, Each
        <3>3. ~ (s[3] \in 1 .. Len(inbox[s[2]])) /\ ~ (s[3] \in 1 .. Len(queue[s[2]]))
            BY <3>2
        <3> QED
            BY <3>2, <3>3 DEF Occupied, At
    <2> QED
        BY <2>1 DEF InFlight
<1> QED
    BY <1>1, FS_EmptySet DEF Accounted, Init

\* The state keeps its shape: a queue has no more than its limit, and no more
\* is counted as dropped than was published.
THEOREM SlowTyped == Spec => []SlowTypeOK
<1>1. Init => Types /\ Limits /\ Accounted
    BY TypesInit, AccountedInit
<1>2. Types /\ Limits /\ Accounted /\ [Next]_vars => (Types /\ Limits /\ Accounted)'
    BY TypesNext, AccountedNext
<1>3. Types /\ Limits /\ Accounted => SlowTypeOK
    <2> SUFFICES ASSUME Types, Limits, Accounted PROVE SlowTypeOK
        OBVIOUS
    <2> DEFINE c == Cardinality(InFlight)
    <2>1. c \in Nat /\ slowDropped + c <= published
        BY FS_CardinalityType DEF Accounted
    <2> HIDE DEF c
    <2>2. slowDropped \in 0 .. MaxMessages
        BY <2>1, Bounds DEF Types
    <2> QED
        BY <2>2 DEF SlowTypeOK, Types, Limits, HandlerLabels, ReaderLabels, Msg
<1> QED
    BY <1>1, <1>2, <1>3, PTL DEF Spec
=============================================================================
