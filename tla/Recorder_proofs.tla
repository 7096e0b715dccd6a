--------------------------- MODULE Recorder_proofs ----------------------------
(***************************************************************************)
(* The bus under the recorders and the services, however many there are    *)
(* of each: a group is given every message due to it once, and a callback  *)
(* whose Subscribe failed is silent.  The recorders only add to the steps  *)
(* of the bus, so that this proof is about these.  Then the recorders'     *)
(* files: what is in one that a mutex guards, and how much may be in one   *)
(* that nothing does.                                                      *)
(***************************************************************************)
EXTENDS Recorder, FiniteSetTheorems, SequenceTheorems, TLAPS

-----------------------------------------------------------------------------
\* What a connection carries.
Commands == [op : {"pub"}, arg : Nat] \cup [op : {"sub", "unsub"}, arg : Subs]

\* The shape of the bus's state.
BusShape ==
    /\ sub \in [Subs -> {"none", "flushing", "flushed", "ok", "failed"}]
    /\ out \in [Buses -> Seq(Commands)]
    /\ registered \subseteq Subs
    /\ inbox \in [Subs -> Seq(Nat)]
    /\ heard \in [Subs -> Seq(Nat)]
    /\ due \in Seq(SUBSET Subs)
    /\ DOMAIN given \subseteq 1 .. Len(due)

\* A command on its way is there once, a message is not given yet, and a SUB
\* is that of a Subscribe the server has not answered.
PubFresh ==
    \A b \in Buses : \A i \in DOMAIN out[b] :
        out[b][i].op = "pub" => out[b][i].arg \in (1 .. Len(due)) \ DOMAIN given

SubUnanswered ==
    \A b \in Buses : \A i \in DOMAIN out[b] :
        out[b][i].op = "sub" => /\ BusOf[out[b][i].arg] = b
                                /\ sub[out[b][i].arg] \in {"flushing", "failed"}

OnceUnderWay ==
    \A b, c \in Buses : \A i \in DOMAIN out[b], j \in DOMAIN out[c] :
        out[b][i].op # "unsub" /\ out[b][i] = out[c][j] => b = c /\ i = j

UnderWay == PubFresh /\ SubUnanswered /\ OnceUnderWay

\* Whoever a message is due to has subscribed, and who has not begun to is
\* given nothing.
DueSubscribed ==
    /\ \A n \in DOMAIN due : \A s \in due[n] : sub[s] = "ok"
    /\ \A s \in registered : sub[s] # "none"
    /\ \A n \in DOMAIN given : \A s \in given[n] : sub[s] # "none"

\* A message is given to one of each group that it is due to.
GivenFairly ==
    \A n \in DOMAIN given :
        /\ given[n] \subseteq Subs
        /\ \A s \in due[n] \cap registered : \E t \in given[n] : SameGroup(s, t)
        /\ \A s, t \in given[n] : SameGroup(s, t) => s = t

\* A handler is called, and will be, only with what it was given, and once.
BoxFaithful(s) ==
    /\ \A i \in DOMAIN inbox[s] : inbox[s][i] \in DOMAIN given /\ s \in given[inbox[s][i]]
    /\ \A i \in DOMAIN heard[s] : heard[s][i] \in DOMAIN given /\ s \in given[heard[s][i]]
    /\ \A i, j \in DOMAIN inbox[s] : inbox[s][i] = inbox[s][j] => i = j
    /\ \A i, j \in DOMAIN heard[s] : heard[s][i] = heard[s][j] => i = j
    /\ \A i \in DOMAIN inbox[s], j \in DOMAIN heard[s] : inbox[s][i] # heard[s][j]
    /\ sub[s] = "failed" => inbox[s] = <<>>

\* The inductive invariant of the bus.
BusInv ==
    /\ BusShape /\ UnderWay /\ DueSubscribed /\ GivenFairly
    /\ \A s \in Subs : BoxFaithful(s)

-----------------------------------------------------------------------------
\* What happens to the connections.

\* Two commands that say the same are the same.
LEMMA CommandsEqual ==
    ASSUME NEW c \in Commands, NEW d \in Commands, c.op = d.op, c.arg = d.arg
    PROVE  c = d
BY DEF Commands

LEMMA NonEmpty ==
    ASSUME NEW S, NEW seq \in Seq(S), seq # <<>>
    PROVE  1 \in DOMAIN seq /\ Head(seq) = seq[1]
BY HeadTailProperties

LEMMA CommandType ==
    /\ \A n \in Nat : <<Command("pub", n)>> \in Seq(Commands)
    /\ \A s \in Subs : \A op \in {"sub", "unsub"} : <<Command(op, s)>> \in Seq(Commands)
BY DEF Command, Commands

\* What is sent comes after what was there.
LEMMA SendsAppends ==
    ASSUME BusShape, NEW b \in Buses, NEW commands \in Seq(Commands), Sends(b, commands)
    PROVE  /\ out' \in [Buses -> Seq(Commands)]
           /\ \A c \in Buses \ {b} : out'[c] = out[c]
           /\ \A i \in DOMAIN out'[b] :
                \/ i \in DOMAIN out[b] /\ out'[b][i] = out[b][i]
                \/ /\ i - Len(out[b]) \in DOMAIN commands /\ i \in Int
                   /\ out'[b][i] = commands[i - Len(out[b])]
<1>1. out \in [Buses -> Seq(Commands)] /\ out[b] \in Seq(Commands)
    BY DEF BusShape
<1>2. out' = [out EXCEPT ![b] = out[b] \o commands]
    BY DEF Sends
<1>3. /\ out[b] \o commands \in Seq(Commands)
      /\ Len(out[b] \o commands) = Len(out[b]) + Len(commands)
      /\ \A i \in 1 .. Len(out[b]) + Len(commands) :
            (out[b] \o commands)[i] =
                IF i <= Len(out[b]) THEN out[b][i] ELSE commands[i - Len(out[b])]
    BY <1>1, ConcatProperties
<1>4. out'[b] = out[b] \o commands
    BY <1>1, <1>2
<1>5. ASSUME NEW i \in DOMAIN out'[b]
      PROVE  \/ i \in DOMAIN out[b] /\ out'[b][i] = out[b][i]
             \/ /\ i - Len(out[b]) \in DOMAIN commands /\ i \in Int
                /\ out'[b][i] = commands[i - Len(out[b])]
    <2>1. i \in 1 .. Len(out[b]) + Len(commands)
        BY <1>3, <1>4
    <2>2. /\ Len(out[b]) \in Nat /\ DOMAIN out[b] = 1 .. Len(out[b])
          /\ Len(commands) \in Nat /\ DOMAIN commands = 1 .. Len(commands)
        BY <1>1
    <2> QED
        BY <1>3, <1>4, <2>1, <2>2
<1> QED
    BY <1>1, <1>2, <1>3, <1>5

\* The server reads what comes first.
LEMMA ReadsTail ==
    ASSUME BusShape, NEW b \in Buses, NEW op, Reads(b, op)
    PROVE  /\ out' \in [Buses -> Seq(Commands)]
           /\ 1 \in DOMAIN out[b] /\ out[b][1] = Head(out[b]) /\ out[b][1].op = op
           /\ out[b][1] \in Commands
           /\ \A c \in Buses \ {b} : out'[c] = out[c]
           /\ \A i \in DOMAIN out'[b] :
                /\ i + 1 \in DOMAIN out[b] /\ i \in Nat \ {0}
                /\ out'[b][i] = out[b][i + 1]
<1>1. out \in [Buses -> Seq(Commands)] /\ out[b] \in Seq(Commands)
    BY DEF BusShape
<1>2. out[b] # <<>> /\ Head(out[b]).op = op /\ out' = [out EXCEPT ![b] = Tail(out[b])]
    BY DEF Reads
<1>3. out'[b] = Tail(out[b])
    BY <1>1, <1>2
<1>4. /\ Tail(out[b]) \in Seq(Commands) /\ Len(Tail(out[b])) = Len(out[b]) - 1
      /\ \A i \in 1 .. Len(Tail(out[b])) : Tail(out[b])[i] = out[b][i + 1]
      /\ Len(out[b]) \in Nat \ {0} /\ Head(out[b]) = out[b][1]
    BY <1>1, <1>2, HeadTailProperties
<1>5. DOMAIN out[b] = 1 .. Len(out[b])
    BY <1>1
<1>6. DOMAIN Tail(out[b]) = 1 .. Len(Tail(out[b]))
    BY <1>4
<1>7. ASSUME NEW i \in DOMAIN out'[b]
      PROVE  i + 1 \in DOMAIN out[b] /\ i \in Nat \ {0} /\ out'[b][i] = out[b][i + 1]
    BY <1>3, <1>4, <1>5, <1>6
<1> QED
    BY <1>1, <1>2, <1>4, <1>5, <1>7



\* Sending keeps what is under way in order, if what is sent is new, and so
\* does the server's reading.
LEMMA SendsUnderWay ==
    ASSUME BusShape, UnderWay, NEW b \in Buses, NEW commands \in Seq(Commands),
           Sends(b, commands), given' = given,
           DOMAIN due \subseteq DOMAIN due', due' \in Seq(SUBSET Subs),
           \A s \in Subs : sub[s] \in {"flushing", "failed"} => sub'[s] \in {"flushing", "failed"},
           \A k \in DOMAIN commands :
             /\ commands[k].op = "pub" => /\ commands[k].arg \in DOMAIN due' \ DOMAIN due
                                          /\ commands[k].arg \notin DOMAIN given
             /\ commands[k].op = "sub" => /\ BusOf[commands[k].arg] = b
                                          /\ sub'[commands[k].arg] \in {"flushing", "failed"}
                                          /\ sub[commands[k].arg] = "none",
           \A k, l \in DOMAIN commands : commands[k].op # "unsub" => k = l
    PROVE  UnderWay'
<1>1. /\ out' \in [Buses -> Seq(Commands)]
      /\ \A c \in Buses \ {b} : out'[c] = out[c]
      /\ \A i \in DOMAIN out'[b] :
            \/ i \in DOMAIN out[b] /\ out'[b][i] = out[b][i]
            \/ /\ i - Len(out[b]) \in DOMAIN commands /\ i \in Int
               /\ out'[b][i] = commands[i - Len(out[b])]
    BY SendsAppends
<1>2. /\ DOMAIN due = 1 .. Len(due) /\ DOMAIN due' = 1 .. Len(due')
      /\ out \in [Buses -> Seq(Commands)]
    BY DEF BusShape
<1>3. ASSUME NEW c \in Buses, NEW i \in DOMAIN out[c]
      PROVE  out[c][i] \in Commands
    BY <1>2, ElementOfSeq
<1>4. PubFresh'
    <2> SUFFICES ASSUME NEW c \in Buses, NEW i \in DOMAIN out'[c], out'[c][i].op = "pub"
                 PROVE  out'[c][i].arg \in DOMAIN due' \ DOMAIN given
        BY <1>2 DEF PubFresh
    <2>1. CASE i \in DOMAIN out[c] /\ out'[c][i] = out[c][i]
        BY <2>1, <1>2 DEF UnderWay, PubFresh
    <2>2. CASE c = b /\ i - Len(out[b]) \in DOMAIN commands /\ out'[c][i] = commands[i - Len(out[b])]
        BY <2>2
    <2> QED
        BY <1>1, <2>1, <2>2
<1>5. SubUnanswered'
    <2> SUFFICES ASSUME NEW c \in Buses, NEW i \in DOMAIN out'[c], out'[c][i].op = "sub"
                 PROVE  /\ BusOf[out'[c][i].arg] = c
                        /\ sub'[out'[c][i].arg] \in {"flushing", "failed"}
        BY DEF SubUnanswered
    <2>1. CASE i \in DOMAIN out[c] /\ out'[c][i] = out[c][i]
        <3>1. out[c][i].arg \in Subs
            BY <1>3, <2>1 DEF Commands
        <3> QED
            BY <2>1, <3>1 DEF UnderWay, SubUnanswered
    <2>2. CASE c = b /\ i - Len(out[b]) \in DOMAIN commands /\ out'[c][i] = commands[i - Len(out[b])]
        BY <2>2
    <2> QED
        BY <1>1, <2>1, <2>2
<1>6. OnceUnderWay'
    <2> SUFFICES ASSUME NEW c \in Buses, NEW d \in Buses,
                        NEW i \in DOMAIN out'[c], NEW j \in DOMAIN out'[d],
                        out'[c][i].op # "unsub", out'[c][i] = out'[d][j]
                 PROVE  c = d /\ i = j
        BY DEF OnceUnderWay
    <2>1. ASSUME NEW e \in Buses, NEW k \in DOMAIN out[e],
                 NEW l \in DOMAIN commands,
                 out[e][k].op # "unsub"
          PROVE  out[e][k] # commands[l]
        <3> SUFFICES ASSUME out[e][k] = commands[l] PROVE FALSE
            OBVIOUS
        <3>1. out[e][k] \in Commands
            BY <1>3
        <3>2. CASE out[e][k].op = "pub"
            BY <3>2, <1>2 DEF UnderWay, PubFresh
        <3>3. CASE out[e][k].op = "sub"
            BY <3>3 DEF UnderWay, SubUnanswered
        <3> QED
            BY <3>1, <3>2, <3>3, <2>1 DEF Commands
    <2>2. ASSUME i \in DOMAIN out[c], out'[c][i] = out[c][i],
                 j \in DOMAIN out[d], out'[d][j] = out[d][j]
          PROVE  c = d /\ i = j
        <3>1. out[c][i].op # "unsub" /\ out[c][i] = out[d][j]
            BY <2>2
        <3> QED
            BY <3>1, <2>2 DEF UnderWay, OnceUnderWay
    <2>3. ASSUME i \in DOMAIN out[c], out'[c][i] = out[c][i],
                 j - Len(out[b]) \in DOMAIN commands, out'[d][j] = commands[j - Len(out[b])]
          PROVE  FALSE
        <3>1. out[c][i].op # "unsub" /\ out[c][i] = commands[j - Len(out[b])]
            BY <2>3
        <3> QED
            BY <3>1, <2>1, <2>3
    <2>4. ASSUME i - Len(out[b]) \in DOMAIN commands, out'[c][i] = commands[i - Len(out[b])],
                 j \in DOMAIN out[d], out'[d][j] = out[d][j]
          PROVE  FALSE
        <3>1. out[d][j].op # "unsub" /\ out[d][j] = commands[i - Len(out[b])]
            BY <2>4
        <3> QED
            BY <3>1, <2>1, <2>4
    <2>5. ASSUME i - Len(out[b]) \in DOMAIN commands, out'[c][i] = commands[i - Len(out[b])],
                 j - Len(out[b]) \in DOMAIN commands, i \in Int, j \in Int
          PROVE  i = j
        <3>1. i - Len(out[b]) = j - Len(out[b])
            BY <2>5
        <3>2. Len(out[b]) \in Int
            BY <1>2
        <3> QED
            BY <2>5, <3>1, <3>2
    <2>6. CASE c # b
        <3>1. i \in DOMAIN out[c] /\ out'[c][i] = out[c][i]
            BY <2>6, <1>1
        <3> QED
            BY <3>1, <1>1, <2>2, <2>3
    <2>7. CASE d # b
        <3>1. j \in DOMAIN out[d] /\ out'[d][j] = out[d][j]
            BY <2>7, <1>1
        <3> QED
            BY <3>1, <1>1, <2>2, <2>4
    <2>8. CASE c = b /\ d = b
        BY <2>8, <1>1, <2>2, <2>3, <2>4, <2>5
    <2> QED
        BY <2>6, <2>7, <2>8
<1> QED
    BY <1>4, <1>5, <1>6 DEF UnderWay

LEMMA ReadsUnderWay ==
    ASSUME BusShape, UnderWay, NEW b \in Buses, NEW op, Reads(b, op), due' = due,
           \/ given' = given
           \/ op = "pub" /\ DOMAIN given' = DOMAIN given \cup {Argument(b)},
           \A s \in Subs :
             sub[s] \in {"flushing", "failed"} =>
                sub'[s] \in {"flushing", "failed"} \/ (op = "sub" /\ s = Argument(b))
    PROVE  UnderWay'
<1>1. /\ out' \in [Buses -> Seq(Commands)]
      /\ 1 \in DOMAIN out[b] /\ out[b][1] = Head(out[b]) /\ out[b][1].op = op
      /\ out[b][1] \in Commands
      /\ \A c \in Buses \ {b} : out'[c] = out[c]
      /\ \A i \in DOMAIN out'[b] :
            /\ i + 1 \in DOMAIN out[b] /\ i \in Nat \ {0}
            /\ out'[b][i] = out[b][i + 1]
    BY ReadsTail
<1>2. out \in [Buses -> Seq(Commands)]
    BY DEF BusShape
\* Where a command was.
<1> DEFINE Was(c, i) == IF c = b THEN i + 1 ELSE i
<1>3. ASSUME NEW c \in Buses, NEW i \in DOMAIN out'[c]
      PROVE  /\ Was(c, i) \in DOMAIN out[c] /\ out'[c][i] = out[c][Was(c, i)]
             /\ out'[c][i] \in Commands
             /\ c = b => i \in Nat \ {0}
    <2>1. Was(c, i) \in DOMAIN out[c] /\ out'[c][i] = out[c][Was(c, i)]
        BY <1>1
    <2> QED
        BY <1>1, <1>2, <2>1, ElementOfSeq
<1>4. ASSUME NEW c \in Buses, NEW i \in DOMAIN out'[c], out'[c][i].op # "unsub"
      PROVE  out'[c][i].op # op \/ out'[c][i].arg # Argument(b)
    <2> SUFFICES ASSUME out'[c][i].op = op, out'[c][i].arg = Argument(b) PROVE FALSE
        OBVIOUS
    <2>1. out[c][Was(c, i)] = out[b][1]
        BY <1>1, <1>3, CommandsEqual DEF Argument
    <2>2. c = b /\ Was(c, i) = 1
        BY <2>1, <1>1, <1>3, <1>4 DEF UnderWay, OnceUnderWay
    <2> QED
        BY <2>2, <1>3
<1>5. PubFresh'
    <2> SUFFICES ASSUME NEW c \in Buses, NEW i \in DOMAIN out'[c], out'[c][i].op = "pub"
                 PROVE  out'[c][i].arg \in (1 .. Len(due)) \ DOMAIN given'
        BY DEF PubFresh
    <2>1. out'[c][i].arg \in (1 .. Len(due)) \ DOMAIN given
        BY <1>3 DEF UnderWay, PubFresh
    <2> QED
        BY <2>1, <1>4
<1>6. SubUnanswered'
    <2> SUFFICES ASSUME NEW c \in Buses, NEW i \in DOMAIN out'[c], out'[c][i].op = "sub"
                 PROVE  /\ BusOf[out'[c][i].arg] = c
                        /\ sub'[out'[c][i].arg] \in {"flushing", "failed"}
        BY DEF SubUnanswered
    <2>1. BusOf[out'[c][i].arg] = c /\ sub[out'[c][i].arg] \in {"flushing", "failed"}
        BY <1>3 DEF UnderWay, SubUnanswered
    <2>2. out'[c][i].arg \in Subs
        BY <1>3 DEF Commands
    <2>3. op # "sub" \/ out'[c][i].arg # Argument(b)
        BY <1>4
    <2> QED
        BY <2>1, <2>2, <2>3
<1>7. OnceUnderWay'
    <2> SUFFICES ASSUME NEW c \in Buses, NEW d \in Buses,
                        NEW i \in DOMAIN out'[c], NEW j \in DOMAIN out'[d],
                        out'[c][i].op # "unsub", out'[c][i] = out'[d][j]
                 PROVE  c = d /\ i = j
        BY DEF OnceUnderWay
    <2>1. c = d /\ Was(c, i) = Was(d, j)
        BY <1>3 DEF UnderWay, OnceUnderWay
    <2> QED
        BY <2>1, <1>3
<1> QED
    BY <1>5, <1>6, <1>7 DEF UnderWay

\* What is in a box stays faithful when the box is left alone or emptied.
LEMMA BoxKept ==
    ASSUME NEW s \in Subs, BoxFaithful(s), given' = given, heard'[s] = heard[s],
           inbox'[s] = inbox[s] \/ inbox'[s] = <<>>,
           sub'[s] = "failed" => sub[s] = "failed" \/ inbox'[s] = <<>>
    PROVE  BoxFaithful(s)'
<1>1. CASE inbox'[s] = inbox[s]
    BY <1>1 DEF BoxFaithful
<1>2. CASE inbox'[s] = <<>>
    <2>1. DOMAIN inbox'[s] = {}
        BY <1>2
    <2> QED
        BY <2>1, <1>2 DEF BoxFaithful
<1> QED
    BY <1>1, <1>2

\* The server's dealing, and who has not begun to subscribe, are not disturbed
\* by what leaves both alone.
LEMMA DealingKept ==
    ASSUME BusShape, DueSubscribed, GivenFairly, given' = given,
           due' \in Seq(SUBSET Subs), DOMAIN due \subseteq DOMAIN due',
           \A n \in DOMAIN due : due'[n] = due[n],
           \A n \in DOMAIN due' \ DOMAIN due : \A s \in due'[n] : sub'[s] = "ok",
           \A s \in Subs : sub[s] = "ok" => sub'[s] = "ok",
           \A s \in Subs : sub[s] # "none" => sub'[s] # "none",
           registered' \subseteq Subs,
           \A s \in registered' \ registered : sub[s] \notin {"none", "ok"}
    PROVE  DueSubscribed' /\ GivenFairly'
<1>1. DOMAIN due = 1 .. Len(due) /\ DOMAIN given \subseteq DOMAIN due
    BY DEF BusShape
<1>2. \A n \in DOMAIN due : due[n] \subseteq Subs
    BY DEF BusShape
<1>3. registered \subseteq Subs
    BY DEF BusShape
<1>4. DueSubscribed'
    <2>1. ASSUME NEW n \in DOMAIN due', NEW s \in due'[n] PROVE sub'[s] = "ok"
        BY <2>1, <1>2 DEF DueSubscribed
    <2>2. ASSUME NEW s \in registered' PROVE sub'[s] # "none"
        BY <2>2, <1>3 DEF DueSubscribed
    <2>3. ASSUME NEW n \in DOMAIN given, NEW s \in given[n] PROVE sub'[s] # "none"
        BY <2>3 DEF DueSubscribed, GivenFairly
    <2> QED
        BY <2>1, <2>2, <2>3 DEF DueSubscribed
<1>5. GivenFairly'
    <2>1. ASSUME NEW n \in DOMAIN given, NEW s \in due'[n] \cap registered'
          PROVE  \E t \in given[n] : SameGroup(s, t)
        <3>1. s \in due[n] /\ sub[s] = "ok" /\ s \in registered
            BY <1>1 DEF DueSubscribed
        <3> QED
            BY <3>1 DEF GivenFairly
    <2> QED
        BY <2>1 DEF GivenFairly, SameGroup
<1> QED
    BY <1>4, <1>5

-----------------------------------------------------------------------------
LEMMA InitBus == BusInit => BusInv
<1> SUFFICES ASSUME BusInit PROVE BusInv
    OBVIOUS
<1>1. BusShape
    BY DEF BusInit, BusShape
<1>2. UnderWay
    BY DEF BusInit, UnderWay, PubFresh, SubUnanswered, OnceUnderWay
<1>3. DueSubscribed /\ GivenFairly
    BY DEF BusInit, DueSubscribed, GivenFairly
<1>4. \A s \in Subs : BoxFaithful(s)
    BY DEF BusInit, BoxFaithful
<1> QED
    BY <1>1, <1>2, <1>3, <1>4 DEF BusInv

LEMMA PublishKeeps ==
    ASSUME BusInv, NEW b \in Buses, Publish(b)
    PROVE  BusInv'
<1> USE DEF BusInv
<1>1. /\ Sends(b, <<Command("pub", Len(due) + 1)>>)
      /\ due' = Append(due, {s \in Subs : sub[s] = "ok"})
      /\ sub' = sub /\ registered' = registered /\ inbox' = inbox
      /\ given' = given /\ heard' = heard
    BY DEF Publish
<1>2. due \in Seq(SUBSET Subs) /\ Len(due) \in Nat /\ DOMAIN due = 1 .. Len(due)
    BY DEF BusShape
<1>3. /\ due' \in Seq(SUBSET Subs) /\ Len(due') = Len(due) + 1
      /\ DOMAIN due' = 1 .. Len(due) + 1
      /\ \A n \in 1 .. Len(due) : due'[n] = due[n]
      /\ due'[Len(due) + 1] = {s \in Subs : sub[s] = "ok"}
    BY <1>1, <1>2
<1>4. <<Command("pub", Len(due) + 1)>> \in Seq(Commands)
    BY <1>2, CommandType
<1>5. BusShape'
    <2>1. out' \in [Buses -> Seq(Commands)]
        BY <1>1, <1>4, SendsAppends
    <2> QED
        BY <2>1, <1>1, <1>2, <1>3 DEF BusShape
<1>6. UnderWay'
    <2>1. DOMAIN due \subseteq DOMAIN due' /\ Len(due) + 1 \in DOMAIN due' \ DOMAIN due
        BY <1>2, <1>3
    <2>2. Len(due) + 1 \notin DOMAIN given
        BY <1>2 DEF BusShape
    <2> HIDE DEF BusInv
    <2> DEFINE commands == <<Command("pub", Len(due) + 1)>>
    <2>3. /\ DOMAIN commands = {1}
          /\ commands[1].op = "pub" /\ commands[1].arg = Len(due) + 1
        BY DEF Command
    <2>4. commands \in Seq(Commands) /\ Sends(b, commands)
        BY <1>1, <1>4
    <2>5. BusShape /\ UnderWay
        BY DEF BusInv
    <2> HIDE DEF commands
    <2> QED
        BY <1>1, <1>3, <2>1, <2>2, <2>3, <2>4, <2>5, SendsUnderWay
<1>7. DueSubscribed' /\ GivenFairly'
    <2>1. BusShape /\ DueSubscribed /\ GivenFairly
        OBVIOUS
    <2>2. registered' \subseteq Subs /\ registered' \ registered = {}
        BY <1>1 DEF BusShape
    <2>3. \A n \in DOMAIN due' \ DOMAIN due : \A s \in due'[n] : sub'[s] = "ok"
        BY <1>1, <1>2, <1>3
    <2> HIDE DEF BusInv
    <2> QED
        BY <1>1, <1>2, <1>3, <2>1, <2>2, <2>3, DealingKept
<1>8. ASSUME NEW s \in Subs PROVE BoxFaithful(s)'
    BY <1>1, BoxKept
<1> QED
    BY <1>5, <1>6, <1>7, <1>8

LEMMA SubscribeKeeps ==
    ASSUME BusInv, NEW s \in Subs, Subscribe(s)
    PROVE  BusInv'
<1> DEFINE b == BusOf[s]
           commands == <<Command("sub", s)>>
<1>1. /\ Sends(b, commands)
      /\ sub[s] = "none" /\ sub' = [sub EXCEPT ![s] = "flushing"]
      /\ due' = due /\ registered' = registered /\ inbox' = inbox
      /\ given' = given /\ heard' = heard
    BY DEF Subscribe, Goes
<1>2. BusShape /\ UnderWay /\ DueSubscribed /\ GivenFairly /\ \A t \in Subs : BoxFaithful(t)
    BY DEF BusInv
<1>3. b \in Buses /\ commands \in Seq(Commands)
    BY CommandType, BusAssumption
<1>4. /\ sub' \in [Subs -> {"none", "flushing", "flushed", "ok", "failed"}]
      /\ sub'[s] = "flushing" /\ \A t \in Subs \ {s} : sub'[t] = sub[t]
    BY <1>1, <1>2 DEF BusShape
<1>5. DOMAIN commands = {1} /\ commands[1].op = "sub" /\ commands[1].arg = s
    BY DEF Command
<1>6. due \in Seq(SUBSET Subs) /\ registered \subseteq Subs
    BY <1>2 DEF BusShape
<1>7. BusOf[commands[1].arg] = b
    BY <1>5
<1> HIDE DEF b, commands
<1>8. BusShape'
    <2>1. out' \in [Buses -> Seq(Commands)]
        BY <1>1, <1>2, <1>3, SendsAppends
    <2> QED
        BY <2>1, <1>1, <1>2, <1>4 DEF BusShape
<1>9. UnderWay'
    BY <1>1, <1>2, <1>3, <1>4, <1>5, <1>6, <1>7, SendsUnderWay
<1>10. DueSubscribed' /\ GivenFairly'
    BY <1>1, <1>2, <1>4, <1>6, DealingKept
<1>11. ASSUME NEW t \in Subs PROVE BoxFaithful(t)'
    BY <1>1, <1>2, <1>4, BoxKept
<1> QED
    BY <1>8, <1>9, <1>10, <1>11 DEF BusInv

\* A Subscribe that goes on without a word to the server.
LEMMA QuietKeeps ==
    ASSUME BusInv, NEW s \in Subs, SubscribeRefused(s) \/ Subscribed(s)
    PROVE  BusInv'
<1>1. /\ \/ sub[s] = "none" /\ sub' = [sub EXCEPT ![s] = "failed"]
         \/ sub[s] = "flushed" /\ sub' = [sub EXCEPT ![s] = "ok"]
      /\ out' = out /\ due' = due /\ registered' = registered /\ inbox' = inbox
      /\ given' = given /\ heard' = heard
    BY DEF SubscribeRefused, Subscribed, Flushed, Goes
<1>2. BusShape /\ UnderWay /\ DueSubscribed /\ GivenFairly /\ \A t \in Subs : BoxFaithful(t)
    BY DEF BusInv
<1>3. /\ sub' \in [Subs -> {"none", "flushing", "flushed", "ok", "failed"}]
      /\ \/ sub'[s] = "failed" /\ sub[s] = "none"
         \/ sub'[s] = "ok" /\ sub[s] = "flushed"
      /\ \A t \in Subs \ {s} : sub'[t] = sub[t]
    BY <1>1, <1>2 DEF BusShape
<1>4. BusShape'
    BY <1>1, <1>2, <1>3 DEF BusShape
<1>5. UnderWay'
    <2>1. SubUnanswered'
        <3> SUFFICES ASSUME NEW c \in Buses, NEW i \in DOMAIN out[c], out[c][i].op = "sub"
                     PROVE  /\ BusOf[out[c][i].arg] = c
                            /\ sub'[out[c][i].arg] \in {"flushing", "failed"}
            BY <1>1 DEF SubUnanswered
        <3>1. BusOf[out[c][i].arg] = c /\ sub[out[c][i].arg] \in {"flushing", "failed"}
            BY <1>2 DEF UnderWay, SubUnanswered
        <3>2. out[c][i].arg \in Subs
            <4>1. out[c] \in Seq(Commands)
                BY <1>2 DEF BusShape
            <4>2. out[c][i] \in Commands
                BY <4>1, ElementOfSeq
            <4> QED
                BY <4>2 DEF Commands
        <3> QED
            BY <3>1, <3>2, <1>3
    <2>2. PubFresh' /\ OnceUnderWay'
        BY <1>1, <1>2 DEF UnderWay, PubFresh, OnceUnderWay
    <2> QED
        BY <2>1, <2>2 DEF UnderWay
<1>6. DueSubscribed' /\ GivenFairly'
    <2>1. due \in Seq(SUBSET Subs) /\ registered \subseteq Subs
        BY <1>2 DEF BusShape
    <2>2. CASE sub'[s] = "ok" /\ sub[s] = "flushed"
        BY <2>1, <2>2, <1>1, <1>2, <1>3, DealingKept
    <2>3. CASE sub'[s] = "failed" /\ sub[s] = "none"
        BY <2>1, <2>3, <1>1, <1>2, <1>3, DealingKept
    <2> QED
        BY <2>2, <2>3, <1>3
<1>7. ASSUME NEW t \in Subs PROVE BoxFaithful(t)'
    <2>1. CASE sub'[t] = "failed" => sub[t] = "failed"
        BY <2>1, <1>1, <1>2, BoxKept
    <2>2. CASE t = s /\ sub[s] = "none"
        <3>1. inbox[s] \in Seq(Nat)
            BY <1>2 DEF BusShape
        <3>2. \A i \in DOMAIN inbox[s] : FALSE
            BY <2>2, <1>2 DEF BoxFaithful, DueSubscribed
        <3>3. inbox[s] = <<>>
            BY <3>1, <3>2, NonEmpty
        <3> QED
            BY <2>2, <3>3, <1>1, <1>2, BoxKept
    <2> QED
        BY <2>1, <2>2, <1>3
<1> QED
    BY <1>4, <1>5, <1>6, <1>7 DEF BusInv

LEMMA FlushFailsKeeps ==
    ASSUME BusInv, NEW s \in Subs, FlushFails(s)
    PROVE  BusInv'
<1> DEFINE b == BusOf[s]
           commands == <<Command("unsub", s)>>
<1>1. /\ Sends(b, commands)
      /\ sub[s] = "flushed" \/ sub[s] = "flushing"
      /\ sub' = [sub EXCEPT ![s] = "failed"]
      /\ inbox' = [inbox EXCEPT ![s] = <<>>]
      /\ due' = due /\ registered' = registered /\ given' = given /\ heard' = heard
    BY DEF FlushFails, Goes, Unsubscribe
<1>2. BusShape /\ UnderWay /\ DueSubscribed /\ GivenFairly /\ \A t \in Subs : BoxFaithful(t)
    BY DEF BusInv
<1>3. b \in Buses /\ commands \in Seq(Commands)
    BY CommandType, BusAssumption
<1>4. /\ sub' \in [Subs -> {"none", "flushing", "flushed", "ok", "failed"}]
      /\ sub'[s] = "failed" /\ \A t \in Subs \ {s} : sub'[t] = sub[t]
      /\ inbox' \in [Subs -> Seq(Nat)]
      /\ inbox'[s] = <<>> /\ \A t \in Subs \ {s} : inbox'[t] = inbox[t]
    BY <1>1, <1>2 DEF BusShape
<1>5. DOMAIN commands = {1} /\ commands[1].op = "unsub"
    BY DEF Command
<1>6. due \in Seq(SUBSET Subs) /\ registered \subseteq Subs
    BY <1>2 DEF BusShape
<1> HIDE DEF b, commands
<1>7. BusShape'
    <2>1. out' \in [Buses -> Seq(Commands)]
        BY <1>1, <1>2, <1>3, SendsAppends
    <2> QED
        BY <2>1, <1>1, <1>2, <1>4 DEF BusShape
<1>8. UnderWay'
    BY <1>1, <1>2, <1>3, <1>4, <1>5, <1>6, SendsUnderWay
<1>9. DueSubscribed' /\ GivenFairly'
    BY <1>1, <1>2, <1>4, <1>6, DealingKept
<1>10. ASSUME NEW t \in Subs PROVE BoxFaithful(t)'
    BY <1>1, <1>2, <1>4, BoxKept
<1> QED
    BY <1>7, <1>8, <1>9, <1>10 DEF BusInv

\* What Close sends is a sequence.
LEMMA ListedUnsubs ==
    ASSUME NEW T \in SUBSET Subs
    PROVE  /\ SetToSeq({Command("unsub", t) : t \in T}) \in Seq(Commands)
           /\ \A k \in DOMAIN SetToSeq({Command("unsub", t) : t \in T}) :
                SetToSeq({Command("unsub", t) : t \in T})[k].op = "unsub"
<1> DEFINE C == {Command("unsub", t) : t \in T}
<1>1. IsFiniteSet(C)
    <2>1. IsFiniteSet(T)
        BY FS_Subset, BusAssumption
    <2>2. [t \in T |-> Command("unsub", t)] \in Surjection(T, C)
        BY DEF Surjection
    <2> QED
        BY <2>1, <2>2, FS_Surjection DEF ExistsSurjection
<1>2. C \subseteq Commands /\ \A c \in C : c.op = "unsub"
    BY DEF Command, Commands
<1> HIDE DEF C
<1>3. Cardinality(C) \in Nat /\ ExistsBijection(1 .. Cardinality(C), C)
    BY <1>1, FS_CardinalityType
<1>4. PICK f \in [1 .. Cardinality(C) -> C] : \A k, l \in 1 .. Cardinality(C) : f[k] = f[l] => k = l
    BY <1>3 DEF ExistsBijection, Bijection, Injection, IsInjective
<1>5. IsInjective(f)
    BY <1>4 DEF IsInjective
<1>6. SetToSeq(C) \in [1 .. Cardinality(C) -> C]
    BY <1>5 DEF SetToSeq
<1>7. SetToSeq(C) \in Seq(Commands) /\ \A k \in DOMAIN SetToSeq(C) : SetToSeq(C)[k].op = "unsub"
    BY <1>2, <1>3, <1>6
<1> QED
    BY <1>7 DEF C

LEMMA CloseKeeps ==
    ASSUME BusInv, NEW b \in Buses, Close(b)
    PROVE  BusInv'
<1> DEFINE T == {t \in Subs : BusOf[t] = b /\ sub[t] = "ok"}
           commands == SetToSeq({Command("unsub", s) : s \in T})
<1>1. /\ Sends(b, commands)
      /\ sub' = sub /\ inbox' = inbox /\ due' = due /\ registered' = registered
      /\ given' = given /\ heard' = heard
    BY DEF Close
<1>2. BusShape /\ UnderWay /\ DueSubscribed /\ GivenFairly /\ \A t \in Subs : BoxFaithful(t)
    BY DEF BusInv
<1>3. commands \in Seq(Commands) /\ \A k \in DOMAIN commands : commands[k].op = "unsub"
    BY ListedUnsubs
<1>4. due \in Seq(SUBSET Subs) /\ registered \subseteq Subs
    BY <1>2 DEF BusShape
<1> HIDE DEF T, commands
<1>5. BusShape'
    <2>1. out' \in [Buses -> Seq(Commands)]
        BY <1>1, <1>2, <1>3, SendsAppends
    <2> QED
        BY <2>1, <1>1, <1>2 DEF BusShape
<1>6. UnderWay'
    BY <1>1, <1>2, <1>3, <1>4, SendsUnderWay
<1>7. DueSubscribed' /\ GivenFairly'
    BY <1>1, <1>2, <1>4, DealingKept
<1>8. ASSUME NEW t \in Subs PROVE BoxFaithful(t)'
    BY <1>1, <1>2, BoxKept
<1> QED
    BY <1>5, <1>6, <1>7, <1>8 DEF BusInv

LEMMA ExitKeeps ==
    ASSUME BusInv, NEW b \in Buses, Exit(b)
    PROVE  BusInv'
<1>1. /\ out' = [out EXCEPT ![b] = <<>>]
      /\ registered' = {s \in registered : BusOf[s] # b}
      /\ inbox' = [s \in Subs |-> IF BusOf[s] = b THEN <<>> ELSE inbox[s]]
      /\ sub' = sub /\ due' = due /\ given' = given /\ heard' = heard
    BY DEF Exit
<1>2. BusShape /\ UnderWay /\ DueSubscribed /\ GivenFairly /\ \A t \in Subs : BoxFaithful(t)
    BY DEF BusInv
<1>3. /\ out' \in [Buses -> Seq(Commands)]
      /\ \A c \in Buses : \A i \in DOMAIN out'[c] : i \in DOMAIN out[c] /\ out'[c][i] = out[c][i]
    BY <1>1, <1>2 DEF BusShape
<1>4. due \in Seq(SUBSET Subs) /\ registered' \subseteq Subs /\ registered' \ registered = {}
    BY <1>1, <1>2 DEF BusShape
<1>5. /\ inbox' \in [Subs -> Seq(Nat)]
      /\ \A t \in Subs : inbox'[t] = inbox[t] \/ inbox'[t] = <<>>
    BY <1>1, <1>2 DEF BusShape
<1>6. BusShape'
    BY <1>1, <1>2, <1>3, <1>4, <1>5 DEF BusShape
<1>7. UnderWay'
    <2>1. PubFresh'
        BY <1>1, <1>2, <1>3 DEF UnderWay, PubFresh
    <2>2. SubUnanswered'
        BY <1>1, <1>2, <1>3 DEF UnderWay, SubUnanswered
    <2>3. OnceUnderWay'
        <3> SUFFICES ASSUME NEW c \in Buses, NEW d \in Buses,
                            NEW i \in DOMAIN out'[c], NEW j \in DOMAIN out'[d],
                            out'[c][i].op # "unsub", out'[c][i] = out'[d][j]
                     PROVE  c = d /\ i = j
            BY DEF OnceUnderWay
        <3> QED
            BY <1>2, <1>3 DEF UnderWay, OnceUnderWay
    <2> QED
        BY <2>1, <2>2, <2>3 DEF UnderWay
<1>8. DueSubscribed' /\ GivenFairly'
    BY <1>1, <1>2, <1>4, DealingKept
<1>9. ASSUME NEW t \in Subs PROVE BoxFaithful(t)'
    BY <1>1, <1>2, <1>5, BoxKept
<1> QED
    BY <1>6, <1>7, <1>8, <1>9 DEF BusInv

LEMMA ServerSubKeeps ==
    ASSUME BusInv, NEW b \in Buses, ServerSub(b)
    PROVE  BusInv'
<1> DEFINE s == Argument(b)
<1>1. /\ Reads(b, "sub")
      /\ registered' = registered \cup {s}
      /\ sub' = [sub EXCEPT ![s] = IF sub[s] = "flushing" THEN "flushed" ELSE sub[s]]
      /\ inbox' = inbox /\ due' = due /\ given' = given /\ heard' = heard
    BY DEF ServerSub
<1>2. BusShape /\ UnderWay /\ DueSubscribed /\ GivenFairly /\ \A t \in Subs : BoxFaithful(t)
    BY DEF BusInv
<1>3. /\ out' \in [Buses -> Seq(Commands)]
      /\ 1 \in DOMAIN out[b] /\ out[b][1] = Head(out[b]) /\ out[b][1].op = "sub"
      /\ out[b][1] \in Commands
    BY <1>1, <1>2, ReadsTail
<1>4. s \in Subs /\ sub[s] \in {"flushing", "failed"}
    <2>1. s = out[b][1].arg
        BY <1>3 DEF Argument
    <2>2. s \in Subs
        BY <2>1, <1>3 DEF Commands
    <2> QED
        BY <2>1, <2>2, <1>2, <1>3 DEF UnderWay, SubUnanswered
<1>5. /\ sub' \in [Subs -> {"none", "flushing", "flushed", "ok", "failed"}]
      /\ sub'[s] \in {"flushed", "failed"} /\ (sub'[s] = "failed" => sub[s] = "failed")
      /\ \A t \in Subs \ {s} : sub'[t] = sub[t]
    BY <1>1, <1>2, <1>4 DEF BusShape
<1>6. due \in Seq(SUBSET Subs) /\ registered' \subseteq Subs /\ registered' \ registered \subseteq {s}
    BY <1>1, <1>2, <1>4 DEF BusShape
<1>7. BusShape'
    BY <1>1, <1>2, <1>3, <1>5, <1>6 DEF BusShape
<1>8. UnderWay'
    BY <1>1, <1>2, <1>5, ReadsUnderWay
<1> HIDE DEF s
<1>9. DueSubscribed' /\ GivenFairly'
    BY <1>1, <1>2, <1>4, <1>5, <1>6, DealingKept
<1>10. ASSUME NEW t \in Subs PROVE BoxFaithful(t)'
    BY <1>1, <1>2, <1>5, BoxKept
<1> QED
    BY <1>7, <1>8, <1>9, <1>10 DEF BusInv

LEMMA ServerUnsubKeeps ==
    ASSUME BusInv, NEW b \in Buses, ServerUnsub(b)
    PROVE  BusInv'
<1>1. /\ Reads(b, "unsub")
      /\ registered' \subseteq registered
      /\ sub' = sub /\ inbox' = inbox /\ due' = due /\ given' = given /\ heard' = heard
    BY DEF ServerUnsub
<1>2. BusShape /\ UnderWay /\ DueSubscribed /\ GivenFairly /\ \A t \in Subs : BoxFaithful(t)
    BY DEF BusInv
<1>3. out' \in [Buses -> Seq(Commands)]
    BY <1>1, <1>2, ReadsTail
<1>4. due \in Seq(SUBSET Subs) /\ registered' \subseteq Subs /\ registered' \ registered = {}
    BY <1>1, <1>2 DEF BusShape
<1>5. BusShape'
    BY <1>1, <1>2, <1>3, <1>4 DEF BusShape
<1>6. UnderWay'
    BY <1>1, <1>2, ReadsUnderWay
<1>7. DueSubscribed' /\ GivenFairly'
    BY <1>1, <1>2, <1>4, DealingKept
<1>8. ASSUME NEW t \in Subs PROVE BoxFaithful(t)'
    BY <1>1, <1>2, BoxKept
<1> QED
    BY <1>5, <1>6, <1>7, <1>8 DEF BusInv

\* Queues are groups.
LEMMA QueueIsGroup ==
    ASSUME NEW s \in Subs, NEW t \in Subs
    PROVE  QueueOf(s) = QueueOf(t) <=> SameGroup(s, t)
<1>1. GroupOf[s] # t /\ GroupOf[t] # s
    BY BusAssumption
<1> QED
    BY <1>1 DEF QueueOf, SameGroup

\* What is dealt goes to one of each group.
LEMMA DealsFairly ==
    ASSUME registered \subseteq Subs, NEW D \in Deals
    PROVE  /\ D \subseteq registered
           /\ \A s \in registered : \E t \in D : SameGroup(s, t)
           /\ \A s, t \in D : SameGroup(s, t) => s = t
<1>1. D \subseteq registered
    BY DEF Deals
<1>2. ASSUME NEW s \in registered
      PROVE  \E x : D \cap MembersOf(QueueOf(s)) = {x}
    <2>1. QueueOf(s) \in Queues /\ s \in MembersOf(QueueOf(s))
        BY DEF Queues, MembersOf
    <2>2. Cardinality(D \cap MembersOf(QueueOf(s))) = 1
        BY <2>1 DEF Deals
    <2>3. IsFiniteSet(D \cap MembersOf(QueueOf(s)))
        BY <1>1, FS_Subset, BusAssumption
    <2> QED
        BY <2>2, <2>3, FS_Singleton
<1>3. ASSUME NEW s \in registered PROVE \E t \in D : SameGroup(s, t)
    <2>1. PICK t : D \cap MembersOf(QueueOf(s)) = {t}
        BY <1>2
    <2>2. t \in D /\ t \in Subs /\ QueueOf(t) = QueueOf(s)
        BY <2>1 DEF MembersOf
    <2> QED
        BY <2>2, QueueIsGroup
<1>4. ASSUME NEW s \in D, NEW t \in D, SameGroup(s, t) PROVE s = t
    <2>1. s \in registered /\ t \in registered
        BY <1>1
    <2>2. QueueOf(t) = QueueOf(s)
        BY <2>1, <1>4, QueueIsGroup
    <2>3. s \in D \cap MembersOf(QueueOf(s)) /\ t \in D \cap MembersOf(QueueOf(s))
        BY <2>1, <2>2 DEF MembersOf
    <2> QED
        BY <2>1, <2>3, <1>2
<1> QED
    BY <1>1, <1>3, <1>4

LEMMA RouteKeeps ==
    ASSUME BusInv, NEW b \in Buses, NEW D \in Deals, Route(b, D)
    PROVE  BusInv'
<1> DEFINE n == Argument(b)
<1>1. /\ Reads(b, "pub")
      /\ given' = [m \in DOMAIN given \cup {n} |-> IF m = n THEN D ELSE given[m]]
      /\ inbox' = [s \in Subs |-> IF s \in D /\ sub[s] # "failed"
                                  THEN Append(inbox[s], n) ELSE inbox[s]]
      /\ sub' = sub /\ registered' = registered /\ due' = due /\ heard' = heard
    BY DEF Route
<1>2. BusShape /\ UnderWay /\ DueSubscribed /\ GivenFairly /\ \A t \in Subs : BoxFaithful(t)
    BY DEF BusInv
<1>3. /\ out' \in [Buses -> Seq(Commands)]
      /\ 1 \in DOMAIN out[b] /\ out[b][1] = Head(out[b]) /\ out[b][1].op = "pub"
      /\ out[b][1] \in Commands
    BY <1>1, <1>2, ReadsTail
<1>4. n \in (1 .. Len(due)) \ DOMAIN given
    BY <1>2, <1>3 DEF UnderWay, PubFresh, Argument
<1>5. /\ DOMAIN given' = DOMAIN given \cup {n}
      /\ given'[n] = D
      /\ \A m \in DOMAIN given : given'[m] = given[m]
    <2> HIDE DEF n
    <2> QED
        BY <1>1, <1>4
<1>6. /\ registered \subseteq Subs /\ inbox \in [Subs -> Seq(Nat)] /\ heard \in [Subs -> Seq(Nat)]
      /\ due \in Seq(SUBSET Subs) /\ DOMAIN given \subseteq 1 .. Len(due)
    BY <1>2 DEF BusShape
<1>7. /\ D \subseteq registered
      /\ \A s \in registered : \E t \in D : SameGroup(s, t)
      /\ \A s, t \in D : SameGroup(s, t) => s = t
    BY <1>6, DealsFairly
<1>8. UnderWay'
    BY <1>1, <1>2, <1>5, ReadsUnderWay
<1> HIDE DEF n
<1>9. inbox' \in [Subs -> Seq(Nat)]
    BY <1>1, <1>4, <1>6
<1>10. BusShape'
    BY <1>1, <1>2, <1>3, <1>4, <1>5, <1>9 DEF BusShape
<1>11. DueSubscribed'
    BY <1>1, <1>2, <1>5, <1>7 DEF DueSubscribed
<1>12. GivenFairly'
    <2> SUFFICES ASSUME NEW m \in DOMAIN given'
                 PROVE  /\ given'[m] \subseteq Subs
                        /\ \A s \in due[m] \cap registered : \E t \in given'[m] : SameGroup(s, t)
                        /\ \A s, t \in given'[m] : SameGroup(s, t) => s = t
        BY <1>1 DEF GivenFairly, SameGroup
    <2>1. CASE m = n
        BY <2>1, <1>5, <1>6, <1>7
    <2>2. CASE m \in DOMAIN given
        BY <2>2, <1>2, <1>5 DEF GivenFairly
    <2> QED
        BY <2>1, <2>2, <1>5
<1>13. ASSUME NEW s \in Subs PROVE BoxFaithful(s)'
    <2>1. CASE inbox'[s] = inbox[s]
        BY <2>1, <1>1, <1>2, <1>5 DEF BoxFaithful
    <2>2. CASE s \in D /\ sub[s] # "failed" /\ inbox'[s] = Append(inbox[s], n)
        <3>1. inbox[s] \in Seq(Nat) /\ n \in Nat /\ heard[s] \in Seq(Nat)
            BY <1>4, <1>6
        <3>2. /\ DOMAIN inbox'[s] = 1 .. Len(inbox[s]) + 1 /\ DOMAIN inbox[s] = 1 .. Len(inbox[s])
              /\ inbox'[s][Len(inbox[s]) + 1] = n /\ Len(inbox[s]) \in Nat
              /\ \A i \in DOMAIN inbox[s] : inbox'[s][i] = inbox[s][i]
            BY <3>1, <2>2
        <3>3. \A i \in DOMAIN inbox'[s] : i \in DOMAIN inbox[s] \/ i = Len(inbox[s]) + 1
            BY <3>2
        <3>4. \A i \in DOMAIN inbox[s] : inbox[s][i] # n
            BY <1>2, <1>4 DEF BoxFaithful
        <3>5. \A i \in DOMAIN heard[s] : heard[s][i] # n
            BY <1>2, <1>4 DEF BoxFaithful
        <3>6. \A i \in DOMAIN inbox'[s] : inbox'[s][i] \in DOMAIN given' /\ s \in given'[inbox'[s][i]]
            BY <3>2, <3>3, <2>2, <1>2, <1>5 DEF BoxFaithful
        <3>7. \A i \in DOMAIN heard[s] : heard[s][i] \in DOMAIN given' /\ s \in given'[heard[s][i]]
            BY <1>2, <1>5 DEF BoxFaithful
        <3>8. \A i, j \in DOMAIN inbox'[s] : inbox'[s][i] = inbox'[s][j] => i = j
            BY <3>2, <3>3, <3>4, <1>2 DEF BoxFaithful
        <3>9. \A i \in DOMAIN inbox'[s], j \in DOMAIN heard[s] : inbox'[s][i] # heard[s][j]
            BY <3>2, <3>3, <3>5, <1>2 DEF BoxFaithful
        <3>10. \A i, j \in DOMAIN heard[s] : heard[s][i] = heard[s][j] => i = j
            BY <1>2 DEF BoxFaithful
        <3> QED
            BY <3>6, <3>7, <3>8, <3>9, <3>10, <2>2, <1>1 DEF BoxFaithful
    <2> QED
        BY <2>1, <2>2, <1>1
<1> QED
    BY <1>8, <1>10, <1>11, <1>12, <1>13 DEF BusInv

LEMMA CalledKeeps ==
    ASSUME BusInv, NEW s \in Subs, Called(s)
    PROVE  BusInv'
<1>1. /\ inbox[s] # <<>>
      /\ inbox' = [inbox EXCEPT ![s] = Tail(inbox[s])]
      /\ heard' = [heard EXCEPT ![s] = Append(heard[s], Head(inbox[s]))]
      /\ sub' = sub /\ out' = out /\ registered' = registered /\ due' = due /\ given' = given
    BY DEF Called
<1>2. BusShape /\ UnderWay /\ DueSubscribed /\ GivenFairly /\ \A t \in Subs : BoxFaithful(t)
    BY DEF BusInv
<1>3. /\ inbox[s] \in Seq(Nat) /\ heard[s] \in Seq(Nat)
      /\ inbox \in [Subs -> Seq(Nat)] /\ heard \in [Subs -> Seq(Nat)]
    BY <1>2 DEF BusShape
<1> DEFINE n == Head(inbox[s])
<1>4. /\ n \in Nat /\ n = inbox[s][1] /\ 1 \in DOMAIN inbox[s]
      /\ Tail(inbox[s]) \in Seq(Nat) /\ Append(heard[s], n) \in Seq(Nat)
    BY <1>1, <1>3, NonEmpty, HeadTailProperties
<1>5. /\ inbox' \in [Subs -> Seq(Nat)] /\ heard' \in [Subs -> Seq(Nat)]
      /\ inbox'[s] = Tail(inbox[s]) /\ heard'[s] = Append(heard[s], n)
      /\ \A t \in Subs \ {s} : inbox'[t] = inbox[t] /\ heard'[t] = heard[t]
    BY <1>1, <1>3, <1>4
<1>6. BusShape'
    BY <1>1, <1>2, <1>5 DEF BusShape
<1>7. UnderWay'
    BY <1>1, <1>2 DEF UnderWay, PubFresh, SubUnanswered, OnceUnderWay
<1>8. DueSubscribed' /\ GivenFairly'
    BY <1>1, <1>2 DEF DueSubscribed, GivenFairly, SameGroup
<1>9. BoxFaithful(s)'
    <2>1. \A i \in DOMAIN inbox'[s] :
            i \in Nat \ {0} /\ i + 1 \in DOMAIN inbox[s] /\ inbox'[s][i] = inbox[s][i + 1]
        <3>1. /\ Len(Tail(inbox[s])) = Len(inbox[s]) - 1 /\ Len(inbox[s]) \in Nat \ {0}
              /\ \A i \in 1 .. Len(Tail(inbox[s])) : Tail(inbox[s])[i] = inbox[s][i + 1]
            BY <1>1, <1>3, HeadTailProperties
        <3>2. /\ DOMAIN inbox[s] = 1 .. Len(inbox[s])
              /\ DOMAIN Tail(inbox[s]) = 1 .. Len(Tail(inbox[s]))
            BY <1>3, <1>4
        <3>3. inbox'[s] = Tail(inbox[s])
            BY <1>5
        <3> HIDE DEF n
        <3> QED
            BY <3>1, <3>2, <3>3
    <2>2. /\ \A i \in DOMAIN heard[s] : heard'[s][i] = heard[s][i]
          /\ heard'[s][Len(heard[s]) + 1] = n
          /\ \A i \in DOMAIN heard'[s] : i \in DOMAIN heard[s] \/ i = Len(heard[s]) + 1
        <3> HIDE DEF n
        <3> QED
            BY <1>3, <1>4, <1>5
    <2>3. /\ \A i \in DOMAIN inbox[s] : inbox[s][i] \in DOMAIN given /\ s \in given[inbox[s][i]]
          /\ \A i \in DOMAIN heard[s] : heard[s][i] \in DOMAIN given /\ s \in given[heard[s][i]]
          /\ \A i, j \in DOMAIN inbox[s] : inbox[s][i] = inbox[s][j] => i = j
          /\ \A i, j \in DOMAIN heard[s] : heard[s][i] = heard[s][j] => i = j
          /\ \A i \in DOMAIN inbox[s], j \in DOMAIN heard[s] : inbox[s][i] # heard[s][j]
          /\ sub[s] # "failed"
        BY <1>1, <1>2 DEF BoxFaithful
    <2> HIDE DEF n
    <2>4. \A i \in DOMAIN inbox'[s] : inbox'[s][i] # n
        BY <2>1, <2>3, <1>4
    <2>5. \A i \in DOMAIN heard[s] : heard[s][i] # n
        BY <2>3, <1>4
    <2>6. \A i \in DOMAIN inbox'[s] : inbox'[s][i] \in DOMAIN given /\ s \in given[inbox'[s][i]]
        BY <2>1, <2>3
    <2>7. \A i \in DOMAIN heard'[s] : heard'[s][i] \in DOMAIN given /\ s \in given[heard'[s][i]]
        BY <2>2, <2>3, <1>4
    <2>8. \A i, j \in DOMAIN inbox'[s] : inbox'[s][i] = inbox'[s][j] => i = j
        BY <2>1, <2>3
    <2>9. \A i, j \in DOMAIN heard'[s] : heard'[s][i] = heard'[s][j] => i = j
        BY <2>2, <2>3, <2>5
    <2>10. \A i \in DOMAIN inbox'[s], j \in DOMAIN heard'[s] : inbox'[s][i] # heard'[s][j]
        BY <2>1, <2>2, <2>3, <2>4
    <2> QED
        BY <2>3, <2>6, <2>7, <2>8, <2>9, <2>10, <1>1 DEF BoxFaithful
<1>10. ASSUME NEW t \in Subs, t # s PROVE BoxFaithful(t)'
    BY <1>10, <1>1, <1>2, <1>5, BoxKept
<1> QED
    BY <1>6, <1>7, <1>8, <1>9, <1>10 DEF BusInv

-----------------------------------------------------------------------------
\* The steps of the recorders, as far as the bus is concerned.
BusStep == BusNext \/ (\E s \in Subs : Called(s)) \/ (\E b \in Buses : Close(b))

LEMMA NextIsBusStep == [Next]_vars => BusStep \/ UNCHANGED busVars
<1> SUFFICES ASSUME [Next]_vars PROVE BusStep \/ UNCHANGED busVars
    OBVIOUS
<1>1. Recorders \subseteq Subs
    BY RecorderAssumption
<1>2. CASE BusNext
    BY <1>2 DEF BusStep
<1>3. CASE \E s \in Subs : Called(s)
    BY <1>3 DEF BusStep
<1>4. CASE \E b \in Buses : Close(b)
    BY <1>4 DEF BusStep
<1>5. ASSUME NEW s \in Subs, Count(s) PROVE Called(s)
    BY <1>5 DEF Count
<1>6. ASSUME NEW r \in Recorders, Decode(r) \/ DecodeFails(r) PROVE Called(r)
    BY <1>6 DEF Decode, DecodeFails
<1>7. ASSUME NEW r \in Recorders, WriteAudio(r) \/ Header(r) \/ CloseFile(r)
      PROVE  UNCHANGED busVars
    BY <1>7 DEF WriteAudio, Header, Stat, Seek, WriteSize, CloseFile
<1>8. ASSUME NEW b \in Buses, CloseBus(b) PROVE Close(b)
    BY <1>8 DEF CloseBus
<1>9. CASE UNCHANGED vars
    BY <1>9 DEF vars
<1> QED
    BY <1>1, <1>2, <1>3, <1>4, <1>5, <1>6, <1>7, <1>8, <1>9 DEF Next

LEMMA StepBus == BusInv /\ [Next]_vars => BusInv'
<1> SUFFICES ASSUME BusInv, [Next]_vars PROVE BusInv'
    OBVIOUS
<1>1. CASE UNCHANGED busVars
    BY <1>1 DEF busVars, BusInv, BusShape, UnderWay, PubFresh, SubUnanswered, OnceUnderWay,
                DueSubscribed, GivenFairly, SameGroup, BoxFaithful
<1>2. CASE BusNext
    <2>1. ASSUME NEW b \in Buses, Publish(b) \/ Exit(b) PROVE BusInv'
        BY <2>1, PublishKeeps, ExitKeeps
    <2>2. ASSUME NEW b \in Buses, Server(b) PROVE BusInv'
        BY <2>2, ServerSubKeeps, ServerUnsubKeeps, RouteKeeps DEF Server
    <2>3. ASSUME NEW s \in Subs,
                 Subscribe(s) \/ SubscribeRefused(s) \/ Subscribed(s) \/ FlushFails(s)
          PROVE  BusInv'
        BY <2>3, SubscribeKeeps, QuietKeeps, FlushFailsKeeps
    <2> QED
        BY <1>2, <2>1, <2>2, <2>3 DEF BusNext
<1>3. ASSUME NEW s \in Subs, Called(s) PROVE BusInv'
    BY <1>3, CalledKeeps
<1>4. ASSUME NEW b \in Buses, Close(b) PROVE BusInv'
    BY <1>4, CloseKeeps
<1> QED
    BY <1>1, <1>2, <1>3, <1>4, NextIsBusStep DEF BusStep

LEMMA InvGivesOnce == BusInv => OncePerGroup
<1> SUFFICES ASSUME BusInv PROVE OncePerGroup
    OBVIOUS
<1>1. GivenFairly /\ \A s \in Subs : BoxFaithful(s)
    BY DEF BusInv
<1>2. \A n \in DOMAIN given : \A s \in due[n] \cap registered :
            \E t \in given[n] : SameGroup(s, t)
    BY <1>1 DEF GivenFairly
<1>3. ASSUME NEW s \in Subs, NEW t \in Subs,
             NEW i \in DOMAIN heard[s], NEW j \in DOMAIN heard[t],
             heard[s][i] = heard[t][j], SameGroup(s, t)
      PROVE  s = t /\ i = j
    <2>1. /\ heard[s][i] \in DOMAIN given
          /\ s \in given[heard[s][i]] /\ t \in given[heard[s][i]]
        BY <1>1, <1>3 DEF BoxFaithful
    <2>2. s = t
        BY <2>1, <1>1, <1>3 DEF GivenFairly
    <2> QED
        BY <2>2, <1>1, <1>3 DEF BoxFaithful
<1> QED
    BY <1>2, <1>3 DEF OncePerGroup

LEMMA InvGivesSilence ==
    BusInv /\ [Next]_vars =>
        [\A s \in Subs : sub[s] = "failed" => heard'[s] = heard[s]]_busVars
<1> SUFFICES ASSUME BusInv, BusStep, NEW s \in Subs, sub[s] = "failed"
             PROVE  heard'[s] = heard[s]
    BY NextIsBusStep
<1>1. inbox[s] = <<>> /\ heard \in [Subs -> Seq(Nat)]
    BY DEF BusInv, BoxFaithful, BusShape
<1>2. ASSUME NEW t \in Subs, Called(t) PROVE heard'[s] = heard[s]
    <2>1. t # s /\ heard' = [heard EXCEPT ![t] = Append(heard[t], Head(inbox[t]))]
        BY <1>1, <1>2 DEF Called
    <2> QED
        BY <2>1, <1>1
<1>3. ASSUME NEW b \in Buses, Close(b) \/ Publish(b) \/ Exit(b) \/ Server(b)
      PROVE  heard' = heard
    BY <1>3 DEF Close, Publish, Exit, Server, ServerSub, ServerUnsub, Route
<1>4. ASSUME NEW t \in Subs,
             Subscribe(t) \/ SubscribeRefused(t) \/ Subscribed(t) \/ FlushFails(t)
      PROVE  heard' = heard
    BY <1>4 DEF Subscribe, SubscribeRefused, Subscribed, FlushFails
<1> QED
    BY <1>2, <1>3, <1>4 DEF BusStep, BusNext

\* Whatever the processes, their subscriptions, the order in which the server
\* reads and whoever ends: a group that has a subscriber is given each message
\* published since his Subscribe returned, and hears none twice
\* (bus/nats.go, Publish, Subscribe and Close).
THEOREM BusSafe == Spec => []OncePerGroup
<1>1. RecorderInit => BusInv
    BY InitBus DEF RecorderInit
<1>2. BusInv /\ [Next]_vars => BusInv'
    BY StepBus
<1>3. BusInv => OncePerGroup
    BY InvGivesOnce
<1> QED
    BY <1>1, <1>2, <1>3, PTL DEF Spec

\* A handler whose Subscribe returned an error is never called again: what the
\* server still sends for it finds no subscription (bus/nats.go, Subscribe).
THEOREM FailedStaysSilent == Spec => FailedIsSilent
<1>1. RecorderInit => BusInv
    BY InitBus DEF RecorderInit
<1>2. BusInv /\ [Next]_vars => BusInv'
    BY StepBus
<1>3. BusInv /\ [Next]_vars =>
        [\A s \in Subs : sub[s] = "failed" => heard'[s] = heard[s]]_busVars
    BY InvGivesSilence
<1> QED
    BY <1>1, <1>2, <1>3, PTL DEF Spec, FailedIsSilent

-----------------------------------------------------------------------------
(***************************************************************************)
(* The recorders' files, if each has a mutex.                              *)
(***************************************************************************)
Cells == {"size", "audio", "format"} \X Nat

Files == [cells : Seq(Cells), pos : Nat \ {0}, open : BOOLEAN]

FileShape(r) ==
    /\ wav[r] \in Files
    /\ decoded[r] \in Seq(Nat)
    /\ callback[r] \in Nat
    /\ stat[r] \in Nat
    /\ main[r] \in {"running", "stat", "riff", "riffed", "data", "saved", "closed"}

\* A file with n pieces of audio: the first n that were decoded.
HasAudio(r, n) ==
    /\ Len(wav[r].cells) = n + 3
    /\ n <= Len(decoded[r])
    /\ \A i \in 1 .. n : wav[r].cells[i + 3] = AudioCell(decoded[r][i])

\* The callback has the one that is not written.
HeldOnly(r, n) ==
    IF callback[r] = 0 THEN Len(decoded[r]) = n
    ELSE Len(decoded[r]) = n + 1 /\ decoded[r][n + 1] = callback[r]

\* How far the header is, where main does not let the callback write.
HeaderSoFar(r, n) ==
    /\ main[r] = "running" => wav[r].pos = n + 4
    /\ main[r] # "running" => stat[r] = n
    /\ main[r] = "riff" => wav[r].pos = RiffAt
    /\ main[r] = "data" => wav[r].pos = DataAt
    /\ main[r] \in {"riffed", "data", "saved", "closed"} => wav[r].cells[RiffAt] = SizeCell(n)
    /\ main[r] \in {"saved", "closed"} => wav[r].cells[DataAt] = SizeCell(n)

FileInv(r) ==
    /\ FileShape(r)
    /\ wav[r].open = (main[r] # "closed")
    /\ \E n \in Nat :
        /\ HasAudio(r, n) /\ HeaderSoFar(r, n)
        /\ main[r] # "closed" => HeldOnly(r, n)

\* The functions the recorders' state is kept in.
RecordersShape ==
    /\ wav = [r \in Recorders |-> wav[r]]
    /\ callback = [r \in Recorders |-> callback[r]]
    /\ main = [r \in Recorders |-> main[r]]
    /\ stat = [r \in Recorders |-> stat[r]]
    /\ decoded = [r \in Recorders |-> decoded[r]]

FilesInv == RecordersShape /\ \A r \in Recorders : FileInv(r)

LEMMA InitFiles == RecorderInit => FilesInv
<1> SUFFICES ASSUME RecorderInit PROVE FilesInv
    OBVIOUS
<1>1. RecordersShape
    BY DEF RecorderInit, RecordersShape
<1>2. ASSUME NEW r \in Recorders PROVE FileInv(r)
    <2>1. /\ wav[r] = NewFile /\ callback[r] = 0 /\ main[r] = "running" /\ stat[r] = 0
          /\ decoded[r] = <<>>
        BY DEF RecorderInit
    <2>2. /\ NewFile.cells \in Seq(Cells) /\ Len(NewFile.cells) = 3
          /\ NewFile.pos = 4 /\ NewFile.open = TRUE
          /\ NewFile \in Files
        BY DEF NewFile, SizeCell, Cells, Files, AudioAt
    <2>3. FileShape(r)
        BY <2>1, <2>2 DEF FileShape
    <2>4. HasAudio(r, 0) /\ HeaderSoFar(r, 0) /\ HeldOnly(r, 0)
        BY <2>1, <2>2 DEF HasAudio, HeaderSoFar, HeldOnly
    <2> QED
        BY <2>1, <2>2, <2>3, <2>4 DEF FileInv
<1> QED
    BY <1>1, <1>2 DEF FilesInv

\* Writing to an open file, over a cell or at the end.
LEMMA WriteOpen ==
    ASSUME NEW f \in Files, f.open = TRUE,
           NEW cell \in Cells, f.pos <= Len(f.cells) + 1
    PROVE  /\ Write(f, cell) \in Files
           /\ Write(f, cell).open = TRUE /\ Write(f, cell).pos = f.pos + 1
           /\ Len(Write(f, cell).cells) =
                IF f.pos <= Len(f.cells) THEN Len(f.cells) ELSE Len(f.cells) + 1
           /\ Write(f, cell).cells[f.pos] = cell
           /\ \A i \in 1 .. Len(f.cells) :
                i # f.pos => Write(f, cell).cells[i] = f.cells[i]
<1> DEFINE new == IF f.pos <= Len(f.cells) THEN [f.cells EXCEPT ![f.pos] = cell]
                  ELSE Append(f.cells, cell)
<1>1. f.cells \in Seq(Cells) /\ f.pos \in Nat \ {0} /\ Len(f.cells) \in Nat
    BY DEF Files
<1>2. CASE f.pos <= Len(f.cells)
    <2>1. f.pos \in 1 .. Len(f.cells)
        BY <1>1, <1>2
    <2>2. /\ new \in Seq(Cells) /\ Len(new) = Len(f.cells)
          /\ new[f.pos] = cell
          /\ \A i \in 1 .. Len(f.cells) : i # f.pos => new[i] = f.cells[i]
        BY <1>1, <1>2, <2>1, ExceptSeq
    <2>3. Write(f, cell) = [cells |-> new, pos |-> f.pos + 1, open |-> TRUE]
        BY <1>2 DEF Write, Files
    <2> HIDE DEF new
    <2> QED
        BY <2>2, <2>3, <1>1, <1>2 DEF Files
<1>3. CASE f.pos = Len(f.cells) + 1
    <2>1. /\ new \in Seq(Cells) /\ Len(new) = Len(f.cells) + 1
          /\ new[f.pos] = cell
          /\ \A i \in 1 .. Len(f.cells) : new[i] = f.cells[i]
        BY <1>1, <1>3, AppendProperties
    <2>2. Write(f, cell) = [cells |-> new, pos |-> f.pos + 1, open |-> TRUE]
        BY <1>1, <1>3 DEF Write, Files
    <2> HIDE DEF new
    <2> QED
        BY <2>1, <2>2, <1>1, <1>3 DEF Files
<1>4. f.pos <= Len(f.cells) \/ f.pos = Len(f.cells) + 1
    BY <1>1
<1> QED
    BY <1>2, <1>3, <1>4, Zenon

\* A file is as it was when only the bus moves, or another recorder.
LEMMA FileKept ==
    ASSUME NEW r \in Recorders, FileInv(r),
           wav'[r] = wav[r], callback'[r] = callback[r], main'[r] = main[r],
           stat'[r] = stat[r], decoded'[r] = decoded[r]
    PROVE  FileInv(r)'
BY DEF FileInv, FileShape, HasAudio, HeaderSoFar, HeldOnly

\* Main goes on with the file, the callback keeping what it has.
LEMMA MainKeeps ==
    ASSUME NEW r \in Recorders, FileInv(r), RecordersShape, Header(r) \/ CloseFile(r)
    PROVE  FileInv(r)'
<1>1. PICK n \in Nat : /\ HasAudio(r, n) /\ HeaderSoFar(r, n)
                       /\ main[r] # "closed" => HeldOnly(r, n)
    BY DEF FileInv
<1>2. FileShape(r) /\ wav[r].open = (main[r] # "closed")
    BY DEF FileInv
<1> DEFINE f == wav[r]
<1>3. /\ f \in Files
      /\ f.cells \in Seq(Cells) /\ DOMAIN f.cells = 1 .. n + 3 /\ Len(f.cells) = n + 3
    BY <1>1, <1>2 DEF FileShape, HasAudio, Files
<1>4. callback' = callback /\ decoded' = decoded
    BY DEF Header, Stat, Seek, WriteSize, CloseFile
<1>5. CASE Stat(r)
    <2>1. main[r] = "running" /\ main'[r] = "stat" /\ stat'[r] = n /\ wav' = wav
        BY <1>3, <1>5 DEF Stat, Main, Pieces, AudioAt, RecordersShape
    <2>2. FileShape(r)' /\ wav'[r].open = (main'[r] # "closed")
        BY <1>2, <1>4, <2>1 DEF FileShape
    <2>3. HasAudio(r, n)' /\ HeaderSoFar(r, n)' /\ HeldOnly(r, n)'
        BY <1>1, <1>4, <2>1 DEF HasAudio, HeaderSoFar, HeldOnly
    <2> QED
        BY <2>2, <2>3 DEF FileInv
<1>6. ASSUME NEW from, NEW to, NEW pos \in {RiffAt, DataAt}, Seek(r, from, to, pos),
             \/ from = "stat" /\ to = "riff" /\ pos = RiffAt
             \/ from = "riffed" /\ to = "data" /\ pos = DataAt
      PROVE  FileInv(r)'
    <2>1. /\ main[r] = from /\ main'[r] = to /\ stat' = stat
          /\ wav'[r] = SeekTo(f, pos)
        BY <1>6 DEF Seek, Main, RecordersShape
    <2>2. f.open = TRUE
        BY <1>2, <1>6, <2>1
    <2>3. wav'[r] = [f EXCEPT !.pos = pos]
        BY <2>1, <2>2 DEF SeekTo
    <2>4. /\ wav'[r] \in Files
          /\ wav'[r].cells = f.cells /\ wav'[r].pos = pos /\ wav'[r].open = TRUE
        BY <1>3, <2>2, <2>3 DEF RiffAt, DataAt, Files
    <2> HIDE DEF f
    <2>5. FileShape(r)' /\ wav'[r].open = (main'[r] # "closed")
        BY <1>2, <1>4, <1>6, <2>1, <2>4 DEF FileShape
    <2>6. HasAudio(r, n)' /\ HeldOnly(r, n)'
        BY <1>1, <1>4, <1>6, <2>1, <2>4 DEF HasAudio, HeldOnly, f
    <2>7. HeaderSoFar(r, n)'
        BY <1>1, <1>6, <2>1, <2>4 DEF HeaderSoFar, f
    <2> QED
        BY <2>5, <2>6, <2>7 DEF FileInv
<1>7. ASSUME NEW from, NEW to, WriteSize(r, from, to),
             \/ from = "riff" /\ to = "riffed"
             \/ from = "data" /\ to = "saved"
      PROVE  FileInv(r)'
    <2> DEFINE cell == SizeCell(stat[r])
    <2>1. /\ main[r] = from /\ main'[r] = to /\ stat' = stat
          /\ wav'[r] = Write(f, cell)
        BY <1>7 DEF WriteSize, Main, RecordersShape
    <2>2. /\ f.open = TRUE /\ cell = SizeCell(n) /\ cell \in Cells /\ stat[r] = n
          /\ f.pos = IF from = "riff" THEN 1 ELSE 3
        BY <1>1, <1>2, <1>7, <2>1 DEF HeaderSoFar, SizeCell, Cells, RiffAt, DataAt
    <2> HIDE DEF cell
    <2> HIDE DEF f
    <2>3. f.pos <= n + 3 /\ f.pos <= Len(f.cells) + 1
        BY <1>3, <2>2
    <2>4. /\ Write(f, cell) \in Files
          /\ Write(f, cell).open = TRUE
          /\ Len(Write(f, cell).cells) =
                IF f.pos <= Len(f.cells) THEN Len(f.cells) ELSE Len(f.cells) + 1
          /\ Write(f, cell).cells[f.pos] = cell
          /\ \A i \in 1 .. Len(f.cells) :
                i # f.pos => Write(f, cell).cells[i] = f.cells[i]
        BY <1>3, <2>2, <2>3, WriteOpen, Zenon
    <2>5. /\ wav'[r] \in Files
          /\ wav'[r].open = TRUE /\ Len(wav'[r].cells) = n + 3
        BY <1>3, <2>1, <2>3, <2>4
    <2>6. /\ wav'[r].cells[f.pos] = cell
          /\ \A i \in 1 .. n + 3 : i # f.pos => wav'[r].cells[i] = f.cells[i]
        BY <1>3, <2>1, <2>4
    <2>7. FileShape(r)' /\ wav'[r].open = (main'[r] # "closed")
        BY <1>2, <1>4, <1>7, <2>1, <2>5 DEF FileShape
    <2>8. HasAudio(r, n)'
        <3>1. \A i \in 1 .. n : wav'[r].cells[i + 3] = f.cells[i + 3]
            BY <2>2, <2>6
        <3>2. Len(wav'[r].cells) = n + 3
            BY <2>5
        <3> QED
            BY <3>1, <3>2, <1>1, <1>4 DEF HasAudio, f
    <2>9. HeldOnly(r, n)'
        BY <1>1, <1>4, <1>7, <2>1 DEF HeldOnly
    <2>10. HeaderSoFar(r, n)'
        <3>1. 1 \in 1 .. n + 3 /\ 3 \in 1 .. n + 3
            OBVIOUS
        <3>2. CASE from = "riff" /\ to = "riffed"
            BY <3>1, <3>2, <2>1, <2>2, <2>6 DEF HeaderSoFar, RiffAt, DataAt
        <3>3. CASE from = "data" /\ to = "saved"
            <4>1. f.cells[1] = SizeCell(n)
                BY <1>1, <2>1, <3>3 DEF HeaderSoFar, RiffAt, f
            <4> QED
                BY <3>1, <3>3, <4>1, <2>1, <2>2, <2>6 DEF HeaderSoFar, RiffAt, DataAt
        <3> QED
            BY <1>7, <3>2, <3>3
    <2> QED
        BY <2>7, <2>8, <2>9, <2>10 DEF FileInv
<1>8. CASE CloseFile(r)
    <2>1. /\ main[r] = "saved" /\ main'[r] = "closed" /\ stat' = stat
          /\ wav'[r] = [f EXCEPT !.open = FALSE]
        BY <1>8 DEF CloseFile, Main, Closed, RecordersShape
    <2>2. /\ wav'[r] \in Files
          /\ wav'[r].cells = f.cells /\ wav'[r].open = FALSE
        BY <1>3, <2>1 DEF Files
    <2> HIDE DEF f
    <2>3. FileShape(r)' /\ wav'[r].open = (main'[r] # "closed")
        BY <1>2, <1>4, <2>1, <2>2 DEF FileShape
    <2>4. HasAudio(r, n)'
        BY <1>1, <1>4, <2>2 DEF HasAudio, f
    <2>5. HeaderSoFar(r, n)'
        BY <1>1, <2>1, <2>2 DEF HeaderSoFar, f
    <2> QED
        BY <2>1, <2>3, <2>4, <2>5 DEF FileInv
<1>9. CASE Header(r)
    <2>1. CASE Seek(r, "stat", "riff", RiffAt)
        BY <2>1, <1>6
    <2>2. CASE Seek(r, "riffed", "data", DataAt)
        BY <2>2, <1>6
    <2>3. CASE WriteSize(r, "riff", "riffed")
        BY <2>3, <1>7
    <2>4. CASE WriteSize(r, "data", "saved")
        BY <2>4, <1>7
    <2> QED
        BY <1>5, <1>9, <2>1, <2>2, <2>3, <2>4 DEF Header, DataSizeAt
<1> QED
    BY <1>8, <1>9

\* The callback writes what it has, or what it has is lost on a closed file.
LEMMA WriteAudioKeeps ==
    ASSUME NEW r \in Guarded, FileInv(r), RecordersShape, WriteAudio(r)
    PROVE  FileInv(r)'
<1>1. PICK n \in Nat : /\ HasAudio(r, n) /\ HeaderSoFar(r, n)
                       /\ main[r] # "closed" => HeldOnly(r, n)
    BY DEF FileInv
<1>2. FileShape(r) /\ wav[r].open = (main[r] # "closed")
    BY DEF FileInv
<1> DEFINE f == wav[r]
           cell == AudioCell(callback[r])
<1>3. r \in Recorders
    BY RecorderAssumption
<1>4. /\ wav'[r] = Write(f, cell) /\ callback'[r] = 0
      /\ callback[r] # 0 /\ main[r] \in {"running", "closed"}
      /\ main' = main /\ stat' = stat /\ decoded' = decoded
    BY <1>3 DEF WriteAudio, WavFree, RecordersShape
<1>5. f \in Files /\ cell \in Cells /\ Len(f.cells) = n + 3 /\ decoded[r] \in Seq(Nat)
    BY <1>1, <1>2 DEF FileShape, HasAudio, AudioCell, Cells
<1>6. CASE main[r] = "closed"
    <2>1. f.open = FALSE
        BY <1>2, <1>6
    <2>2. wav'[r] = f
        BY <1>4, <2>1 DEF Write
    <2> HIDE DEF cell
    <2>3. FileShape(r)' /\ wav'[r].open = (main'[r] # "closed")
        BY <1>2, <1>4, <2>2 DEF FileShape
    <2>4. HasAudio(r, n)' /\ HeaderSoFar(r, n)'
        BY <1>1, <1>4, <2>2 DEF HasAudio, HeaderSoFar
    <2> QED
        BY <1>4, <1>6, <2>3, <2>4 DEF FileInv
<1>7. CASE main[r] = "running"
    <2>1. f.open = TRUE /\ f.pos = n + 4
        BY <1>1, <1>2, <1>7 DEF HeaderSoFar
    <2>2. Len(decoded[r]) = n + 1 /\ decoded[r][n + 1] = callback[r]
        BY <1>1, <1>4, <1>7 DEF HeldOnly
    <2>3. \A i \in 1 .. n : f.cells[i + 3] = AudioCell(decoded[r][i])
        BY <1>1 DEF HasAudio
    <2>4. cell = AudioCell(decoded[r][n + 1])
        BY <2>2
    <2> HIDE DEF f, cell
    <2>5. f.pos <= Len(f.cells) + 1 /\ ~ (f.pos <= Len(f.cells))
        BY <1>5, <2>1
    <2>6. /\ Write(f, cell) \in Files
          /\ Write(f, cell).open = TRUE /\ Write(f, cell).pos = f.pos + 1
          /\ Len(Write(f, cell).cells) =
                IF f.pos <= Len(f.cells) THEN Len(f.cells) ELSE Len(f.cells) + 1
          /\ Write(f, cell).cells[f.pos] = cell
          /\ \A i \in 1 .. Len(f.cells) :
                i # f.pos => Write(f, cell).cells[i] = f.cells[i]
        BY <1>5, <2>1, <2>5, WriteOpen
    <2>7. /\ wav'[r] \in Files /\ wav'[r].open = TRUE /\ wav'[r].pos = n + 5
          /\ Len(wav'[r].cells) = n + 4 /\ wav'[r].cells[n + 4] = cell
          /\ \A i \in 1 .. n + 3 : wav'[r].cells[i] = f.cells[i]
        BY <1>4, <1>5, <2>1, <2>5, <2>6
    <2>8. FileShape(r)' /\ wav'[r].open = (main'[r] # "closed")
        <3>1. FileShape(r)'
            BY <1>2, <1>4, <2>7 DEF FileShape
        <3>2. wav'[r].open = TRUE /\ main'[r] # "closed"
            BY <1>4, <1>7, <2>7
        <3> QED
            BY <3>1, <3>2
    <2>9. HasAudio(r, n + 1)'
        <3>1. ASSUME NEW i \in 1 .. n + 1
              PROVE  wav'[r].cells[i + 3] = AudioCell(decoded[r][i])
            <4>1. CASE i \in 1 .. n
                BY <4>1, <2>3, <2>7
            <4>2. CASE i = n + 1
                BY <4>2, <2>4, <2>7
            <4> QED
                BY <4>1, <4>2
        <3> QED
            BY <3>1, <1>4, <2>2, <2>7 DEF HasAudio
    <2>10. HeaderSoFar(r, n + 1)' /\ HeldOnly(r, n + 1)'
        BY <1>4, <1>7, <2>2, <2>7 DEF HeaderSoFar, HeldOnly
    <2> QED
        BY <2>8, <2>9, <2>10 DEF FileInv
<1> QED
    BY <1>4, <1>6, <1>7

\* The callback is called, and decodes what it is called with.
LEMMA DecodeKeeps ==
    ASSUME BusInv, NEW r \in Recorders, FileInv(r), RecordersShape, Decode(r)
    PROVE  FileInv(r)'
<1>1. PICK n \in Nat : /\ HasAudio(r, n) /\ HeaderSoFar(r, n)
                       /\ main[r] # "closed" => HeldOnly(r, n)
    BY DEF FileInv
<1>2. FileShape(r) /\ wav[r].open = (main[r] # "closed")
    BY DEF FileInv
<1> DEFINE m == Head(inbox[r])
<1>3. m \in Nat \ {0}
    <2>1. r \in Subs
        BY RecorderAssumption
    <2>2. inbox[r] \in Seq(Nat) /\ inbox[r] # <<>> /\ DOMAIN given \subseteq 1 .. Len(due)
          /\ Len(due) \in Nat
        BY <2>1 DEF BusInv, BusShape, Decode, Called
    <2>3. 1 \in DOMAIN inbox[r] /\ m = inbox[r][1]
        BY <2>2, NonEmpty
    <2>4. inbox[r][1] \in DOMAIN given
        BY <2>1, <2>3 DEF BusInv, BoxFaithful
    <2> QED
        BY <2>2, <2>3, <2>4
<1>4. /\ callback[r] = 0 /\ callback'[r] = m
      /\ decoded'[r] = Append(decoded[r], m)
      /\ wav' = wav /\ main' = main /\ stat' = stat
    BY DEF Decode, RecordersShape
<1> HIDE DEF m
<1>5. /\ decoded[r] \in Seq(Nat) /\ decoded'[r] \in Seq(Nat)
      /\ Len(decoded'[r]) = Len(decoded[r]) + 1
      /\ decoded'[r][Len(decoded[r]) + 1] = m
      /\ \A i \in 1 .. Len(decoded[r]) : decoded'[r][i] = decoded[r][i]
    BY <1>2, <1>3, <1>4, AppendProperties DEF FileShape
<1>6. FileShape(r)' /\ wav'[r].open = (main'[r] # "closed")
    BY <1>2, <1>3, <1>4, <1>5 DEF FileShape
<1>7. HasAudio(r, n)'
    BY <1>1, <1>4, <1>5 DEF HasAudio
<1>8. HeaderSoFar(r, n)'
    BY <1>1, <1>4 DEF HeaderSoFar
<1>9. main'[r] # "closed" => HeldOnly(r, n)'
    BY <1>1, <1>3, <1>4, <1>5 DEF HeldOnly
<1> QED
    BY <1>6, <1>7, <1>8, <1>9 DEF FileInv

\* A step of recorder r leaves the others' files alone.
OthersKept(r) ==
    \A q \in Recorders \ {r} :
        /\ wav'[q] = wav[q] /\ callback'[q] = callback[q] /\ main'[q] = main[q]
        /\ stat'[q] = stat[q] /\ decoded'[q] = decoded[q]

LEMMA RecorderMoves ==
    ASSUME RecordersShape, NEW r \in Recorders,
           Decode(r) \/ WriteAudio(r) \/ Header(r) \/ CloseFile(r)
    PROVE  RecordersShape' /\ OthersKept(r)
<1>1. CASE Decode(r)
    BY <1>1 DEF Decode, RecordersShape, OthersKept
<1>2. CASE WriteAudio(r)
    BY <1>2 DEF WriteAudio, RecordersShape, OthersKept
<1>3. CASE Stat(r)
    BY <1>3 DEF Stat, Main, RecordersShape, OthersKept
<1>4. ASSUME NEW from, NEW to, NEW pos, Seek(r, from, to, pos)
      PROVE  RecordersShape' /\ OthersKept(r)
    BY <1>4 DEF Seek, Main, RecordersShape, OthersKept
<1>5. ASSUME NEW from, NEW to, WriteSize(r, from, to)
      PROVE  RecordersShape' /\ OthersKept(r)
    BY <1>5 DEF WriteSize, Main, RecordersShape, OthersKept
<1>6. CASE CloseFile(r)
    BY <1>6 DEF CloseFile, Main, RecordersShape, OthersKept
<1> QED
    BY <1>1, <1>2, <1>3, <1>4, <1>5, <1>6 DEF Header

LEMMA StepFiles ==
    ASSUME Recorders = Guarded, BusInv, FilesInv, [Next]_vars
    PROVE  FilesInv'
<1>1. RecordersShape /\ \A r \in Recorders : FileInv(r)
    BY DEF FilesInv
<1>2. ASSUME NEW r \in Recorders,
             Decode(r) \/ WriteAudio(r) \/ Header(r) \/ CloseFile(r)
      PROVE  RecordersShape' /\ OthersKept(r)
    BY <1>1, <1>2, RecorderMoves
<1>3. ASSUME NEW r \in Recorders,
             Decode(r) \/ WriteAudio(r) \/ Header(r) \/ CloseFile(r)
      PROVE  FilesInv'
    <2>1. FileInv(r)'
        BY <1>1, <1>3, DecodeKeeps, WriteAudioKeeps, MainKeeps
    <2>2. ASSUME NEW q \in Recorders, q # r PROVE FileInv(q)'
        BY <1>1, <1>2, <1>3, <2>2, FileKept DEF OthersKept
    <2>3. RecordersShape'
        BY <1>2, <1>3
    <2> QED
        BY <2>1, <2>2, <2>3 DEF FilesInv
<1>4. ASSUME UNCHANGED recorderVars PROVE FilesInv'
    <2>1. wav' = wav /\ callback' = callback /\ main' = main /\ stat' = stat /\ decoded' = decoded
        BY <1>4 DEF recorderVars
    <2>2. RecordersShape'
        BY <1>1, <2>1 DEF RecordersShape
    <2>3. ASSUME NEW q \in Recorders PROVE FileInv(q)'
        BY <1>1, <2>1, FileKept
    <2> QED
        BY <2>2, <2>3 DEF FilesInv
<1>5. CASE Next
    <2>1. CASE BusNext /\ UNCHANGED recorderVars
        BY <2>1, <1>4
    <2>2. ASSUME NEW s \in Subs, Count(s) PROVE FilesInv'
        BY <2>2, <1>4 DEF Count
    <2>3. ASSUME NEW r \in Recorders, DecodeFails(r) PROVE FilesInv'
        BY <2>3, <1>4 DEF DecodeFails
    <2>4. ASSUME NEW b \in Buses, CloseBus(b) PROVE FilesInv'
        BY <2>4, <1>4 DEF CloseBus
    <2> QED
        BY <1>3, <1>5, <2>1, <2>2, <2>3, <2>4 DEF Next
<1>6. CASE UNCHANGED vars
    BY <1>4, <1>6 DEF vars
<1> QED
    BY <1>5, <1>6

\* What the file says of itself is what RecordingWhole asks.
LEMMA FileIsWhole ==
    ASSUME NEW r \in Recorders, FileInv(r)
    PROVE  LET audio == [i \in DOMAIN decoded[r] |-> AudioCell(decoded[r][i])]
               f == wav[r]
           IN  /\ main[r] = "closed" => SizesRight(f) /\ IsPrefix(Audio(f), audio)
               /\ main[r] = "running" =>
                   Audio(f) = IF callback[r] = 0 THEN audio ELSE Front(audio)
<1> DEFINE audio == [i \in DOMAIN decoded[r] |-> AudioCell(decoded[r][i])]
           f == wav[r]
<1>1. PICK n \in Nat : /\ HasAudio(r, n) /\ HeaderSoFar(r, n)
                       /\ main[r] # "closed" => HeldOnly(r, n)
    BY DEF FileInv
<1>2. f \in Files /\ decoded[r] \in Seq(Nat)
    BY DEF FileInv, FileShape
<1>3. /\ f.cells \in Seq(Cells) /\ Len(f.cells) = n + 3
      /\ n <= Len(decoded[r]) /\ \A i \in 1 .. n : f.cells[i + 3] = AudioCell(decoded[r][i])
    BY <1>1, <1>2 DEF HasAudio, Files
<1>4. /\ audio \in Seq(Cells) /\ Len(audio) = Len(decoded[r]) /\ Len(audio) \in Nat
      /\ \A i \in 1 .. Len(audio) : audio[i] = AudioCell(decoded[r][i])
    BY <1>2 DEF AudioCell, Cells
<1>5. /\ Audio(f) \in Seq(Cells) /\ Len(Audio(f)) = n
      /\ \A i \in 1 .. n : Audio(f)[i] = f.cells[i + 3]
    <2>1. Audio(f) = SubSeq(f.cells, 4, n + 3)
        BY <1>3 DEF Audio, AudioAt
    <2>2. \A i \in 4 .. n + 3 : f.cells[i] \in Cells
        BY <1>3, ElementOfSeq
    <2> HIDE DEF f
    <2>3. /\ SubSeq(f.cells, 4, n + 3) \in Seq(Cells)
          /\ Len(SubSeq(f.cells, 4, n + 3)) = IF 4 <= n + 3 THEN (n + 3) - 4 + 1 ELSE 0
          /\ \A i \in 1 .. (n + 3) - 4 + 1 :
                SubSeq(f.cells, 4, n + 3)[i] = f.cells[4 + i - 1]
        BY <2>2, SubSeqProperties
    <2> QED
        BY <2>1, <2>3
<1> HIDE DEF audio, f
<1>6. /\ SubSeq(audio, 1, n) \in Seq(Cells) /\ Len(SubSeq(audio, 1, n)) = n
      /\ \A i \in 1 .. n : SubSeq(audio, 1, n)[i] = audio[i]
    <2>1. \A i \in 1 .. n : audio[i] \in Cells
        BY <1>3, <1>4, ElementOfSeq
    <2>2. /\ SubSeq(audio, 1, n) \in Seq(Cells)
          /\ Len(SubSeq(audio, 1, n)) = IF 1 <= n THEN n - 1 + 1 ELSE 0
          /\ \A i \in 1 .. n - 1 + 1 : SubSeq(audio, 1, n)[i] = audio[1 + i - 1]
        BY <2>1, SubSeqProperties
    <2> QED
        BY <2>2
<1>7. Audio(f) = SubSeq(audio, 1, n)
    <2>1. ASSUME NEW i \in 1 .. n PROVE Audio(f)[i] = SubSeq(audio, 1, n)[i]
        <3>1. i \in 1 .. Len(audio)
            BY <1>3, <1>4
        <3>2. audio[i] = AudioCell(decoded[r][i])
            BY <3>1, <1>4
        <3>3. Audio(f)[i] = AudioCell(decoded[r][i])
            BY <2>1, <1>3, <1>5
        <3> QED
            BY <3>2, <3>3, <1>6
    <2> QED
        BY <2>1, <1>5, <1>6, SeqEqual
<1>8. ASSUME main[r] = "closed" PROVE SizesRight(f) /\ IsPrefix(Audio(f), audio)
    <2>1. f.cells[RiffAt] = SizeCell(n) /\ f.cells[DataAt] = SizeCell(n)
        BY <1>1, <1>8 DEF HeaderSoFar, f
    <2>2. Pieces(f) = n
        BY <1>3 DEF Pieces, AudioAt
    <2>3. SubSeq(Audio(f), 1, n) = Audio(f)
        BY <1>5, SubSeqFull
    <2> QED
        BY <2>1, <2>2, <2>3, <1>3, <1>4, <1>5, <1>7 DEF SizesRight, IsPrefix
<1>9. ASSUME main[r] = "running"
      PROVE  Audio(f) = IF callback[r] = 0 THEN audio ELSE Front(audio)
    <2>1. HeldOnly(r, n)
        BY <1>1, <1>9
    <2>2. CASE callback[r] = 0
        <3>1. SubSeq(audio, 1, n) = audio
            BY <2>1, <2>2, <1>4, SubSeqFull DEF HeldOnly
        <3> QED
            BY <3>1, <2>2, <1>7
    <2>3. CASE callback[r] # 0
        <3>1. Len(audio) - 1 = n
            BY <2>1, <2>3, <1>4 DEF HeldOnly
        <3> QED
            BY <3>1, <2>3, <1>7 DEF Front
    <2> QED
        BY <2>2, <2>3
<1> QED
    BY <1>8, <1>9 DEF audio, f

\* When every recorder guards its file, as the worker's own does, a recording
\* is never short of more than what its callback holds, and main leaves it
\* playable, however the callbacks and main take turns and whatever the bus
\* does (cmd/worker/main.go, startLocalRecorder and closeLocalRecorder).
THEOREM RecordingStaysWhole ==
    ASSUME Recorders = Guarded
    PROVE  Spec => []RecordingWhole
<1>1. RecorderInit => BusInv /\ FilesInv
    BY InitBus, InitFiles DEF RecorderInit
<1>2. BusInv /\ FilesInv /\ [Next]_vars => (BusInv /\ FilesInv)'
    BY StepBus, StepFiles
<1>3. FilesInv => RecordingWhole
    BY FileIsWhole DEF FilesInv, RecordingWhole
<1> QED
    BY <1>1, <1>2, <1>3, PTL DEF Spec

-----------------------------------------------------------------------------
(***************************************************************************)
(* The shape of the whole state.                                           *)
(***************************************************************************)
\* What the type of the bus needs besides BusInv.
BusRest ==
    /\ mu \in [Buses -> Subs \cup {Free}]
    /\ closed \subseteq Buses /\ exited \subseteq Buses
    /\ Len(due) <= MaxPublished

\* A handler is called no more often than there are messages.
LEMMA HeardBounded ==
    ASSUME BusInv, NEW s \in Subs
    PROVE  Len(heard[s]) \in Nat /\ Len(heard[s]) <= Len(due)
<1>1. /\ heard[s] \in Seq(Nat) /\ DOMAIN given \subseteq 1 .. Len(due)
      /\ Len(due) \in Nat
      /\ \A i \in DOMAIN heard[s] : heard[s][i] \in DOMAIN given
      /\ \A i, j \in DOMAIN heard[s] : heard[s][i] = heard[s][j] => i = j
    BY DEF BusInv, BusShape, BoxFaithful
<1> DEFINE h == heard[s]
           k == Len(due)
<1>2. /\ Len(h) \in Nat /\ DOMAIN h = 1 .. Len(h)
      /\ h \in [1 .. Len(h) -> 1 .. k]
    BY <1>1
<1> HIDE DEF h, k
<1>3. h \in Injection(1 .. Len(h), 1 .. k)
    BY <1>1, <1>2 DEF Injection, IsInjective, h
<1>4. /\ IsFiniteSet(1 .. k) /\ Cardinality(1 .. k) = k
      /\ Cardinality(1 .. Len(h)) = Len(h)
    <2>1. \A n \in Nat : IsFiniteSet(1 .. n) /\ Cardinality(1 .. n) = n
        <3> TAKE n \in Nat
        <3>1. /\ IsFiniteSet(1 .. n)
              /\ Cardinality(1 .. n) = IF 1 > n THEN 0 ELSE n - 1 + 1
            BY FS_Interval
        <3> QED
            BY <3>1
    <2>2. k \in Nat
        BY <1>1 DEF k
    <2> QED
        BY <1>2, <2>1, <2>2
<1>5. Cardinality(1 .. Len(h)) <= Cardinality(1 .. k)
    BY <1>3, <1>4, FS_Injection
<1> QED
    BY <1>2, <1>4, <1>5 DEF h, k

LEMMA BusTyped == BusInv /\ BusRest => BusTypeOK
<1> SUFFICES ASSUME BusInv, BusRest PROVE BusTypeOK
    OBVIOUS
<1>1. /\ sub \in [Subs -> {"none", "flushing", "flushed", "ok", "failed"}]
      /\ out \in [Buses -> Seq(Commands)] /\ registered \subseteq Subs
      /\ inbox \in [Subs -> Seq(Nat)] /\ heard \in [Subs -> Seq(Nat)]
      /\ due \in Seq(SUBSET Subs) /\ DOMAIN given \subseteq 1 .. Len(due)
      /\ \A s \in Subs : BoxFaithful(s)
    BY DEF BusInv, BusShape
<1>2. \A b \in Buses : \A i \in DOMAIN out[b] : out[b][i].op \in {"pub", "sub", "unsub"}
    <2> SUFFICES ASSUME NEW b \in Buses, NEW i \in DOMAIN out[b]
                 PROVE  out[b][i].op \in {"pub", "sub", "unsub"}
        OBVIOUS
    <2>1. out[b] \in Seq(Commands)
        BY <1>1
    <2>2. out[b][i] \in Commands
        BY <2>1
    <2> QED
        BY <2>2 DEF Commands
<1>3. DOMAIN given \subseteq 1 .. MaxPublished /\ Len(due) \in Nat
    <2>1. Len(due) \in Nat /\ MaxPublished \in Nat /\ Len(due) <= MaxPublished
        BY <1>1, BusAssumption DEF BusRest
    <2> QED
        BY <1>1, <2>1
<1>4. ASSUME NEW s \in Subs
      PROVE  inbox[s] \in Seq(1 .. MaxPublished) /\ heard[s] \in Seq(1 .. MaxPublished)
    <2>1. /\ \A i \in DOMAIN inbox[s] : inbox[s][i] \in 1 .. MaxPublished
          /\ \A i \in DOMAIN heard[s] : heard[s][i] \in 1 .. MaxPublished
        BY <1>1, <1>3 DEF BoxFaithful
    <2>2. inbox[s] \in Seq(Nat) /\ heard[s] \in Seq(Nat)
        BY <1>1
    <2> DEFINE M == 1 .. MaxPublished
    <2> HIDE DEF M
    <2>3. \A q \in Seq(Nat) : (\A i \in DOMAIN q : q[i] \in M) => q \in Seq(M)
        OBVIOUS
    <2> QED
        BY <2>1, <2>2, <2>3 DEF M
<1>5. inbox \in [Subs -> Seq(1 .. MaxPublished)] /\ heard \in [Subs -> Seq(1 .. MaxPublished)]
    BY <1>1, <1>4
<1>6. DOMAIN given \subseteq DOMAIN due
    BY <1>1
<1> QED
    BY <1>1, <1>2, <1>5, <1>6 DEF BusRest, BusTypeOK

LEMMA BusRestKept ==
    ASSUME BusInv, BusRest, [Next]_vars
    PROVE  BusRest' /\ Len(due') >= Len(due)
<1>0. due \in Seq(SUBSET Subs) /\ Len(due) \in Nat
    BY DEF BusInv, BusShape
<1>1. CASE UNCHANGED busVars
    BY <1>0, <1>1 DEF BusRest, busVars
<1>2. ASSUME NEW b \in Buses, Publish(b) PROVE BusRest' /\ Len(due') >= Len(due)
    <2>1. due' = Append(due, {s \in Subs : sub[s] = "ok"}) /\ Len(due) < MaxPublished
        BY <1>2 DEF Publish
    <2>2. Len(due') = Len(due) + 1
        BY <1>0, <2>1
    <2> QED
        BY <1>0, <1>2, <2>1, <2>2, BusAssumption DEF BusRest, Publish
<1>3. ASSUME NEW b \in Buses, Exit(b) \/ Server(b) \/ Close(b)
      PROVE  BusRest' /\ Len(due') >= Len(due)
    BY <1>0, <1>3 DEF BusRest, Exit, Server, ServerSub, ServerUnsub, Route, Close
<1>4. ASSUME NEW s \in Subs,
             \/ Subscribe(s) \/ SubscribeRefused(s) \/ Subscribed(s)
             \/ FlushFails(s) \/ Called(s)
      PROVE  BusRest' /\ Len(due') >= Len(due)
    <2>1. BusOf[s] \in Buses
        BY BusAssumption
    <2> QED
        BY <1>0, <1>4, <2>1 DEF BusRest, Subscribe, SubscribeRefused, Subscribed, FlushFails,
                                Unlocked, Called
<1> QED
    BY <1>1, <1>2, <1>3, <1>4, NextIsBusStep DEF BusStep, BusNext

\* The messages that recorder r's callback has tried to write.
Written(r) == IF callback[r] = 0 THEN Len(decoded[r]) ELSE Len(decoded[r]) - 1

\* What a file may hold when nothing guards it: no more pieces than were
\* written.  When audio was written over the header, and main's next size may
\* come at the end, there is one piece less.
Tally(r) ==
    /\ FileShape(r)
    /\ wav[r].open = (main[r] # "closed")
    /\ Len(wav[r].cells) >= 3
    /\ wav[r].pos <= Len(wav[r].cells) + 1
    /\ Len(wav[r].cells) - 3 <= Written(r)
    /\ main[r] \in {"riff", "data"} =>
            wav[r].pos <= 3 \/ Len(wav[r].cells) - 3 < Written(r)
    /\ stat[r] <= Len(decoded[r])
    /\ Len(decoded[r]) <= Len(heard[r])
    /\ callback[r] <= Len(due)

TallyInv == RecordersShape /\ \A r \in Recorders : Tally(r)

LEMMA InitTally == RecorderInit => TallyInv
<1> SUFFICES ASSUME RecorderInit PROVE TallyInv
    OBVIOUS
<1>1. RecordersShape
    BY DEF RecorderInit, RecordersShape
<1>2. ASSUME NEW r \in Recorders PROVE Tally(r)
    <2>1. /\ wav[r] = NewFile /\ callback[r] = 0 /\ main[r] = "running" /\ stat[r] = 0
          /\ decoded[r] = <<>> /\ heard[r] = <<>> /\ due = <<>>
        BY RecorderAssumption DEF RecorderInit, BusInit
    <2>2. /\ NewFile.cells \in Seq(Cells) /\ Len(NewFile.cells) = 3
          /\ NewFile.pos = 4 /\ NewFile.open = TRUE
          /\ NewFile \in Files
        BY DEF NewFile, SizeCell, Cells, Files, AudioAt
    <2>3. FileShape(r)
        BY <2>1, <2>2 DEF FileShape
    <2>4. Len(decoded[r]) = 0 /\ Len(heard[r]) = 0 /\ Len(due) = 0 /\ Written(r) = 0
        BY <2>1 DEF Written
    <2>5. /\ wav[r].open = TRUE /\ Len(wav[r].cells) = 3 /\ wav[r].pos = 4
          /\ main[r] = "running" /\ stat[r] = 0 /\ callback[r] = 0
        BY <2>1, <2>2
    <2>6. /\ wav[r].open = (main[r] # "closed")
          /\ main[r] \notin {"riff", "data"}
        BY <2>5
    <2>7. /\ Len(wav[r].cells) >= 3
          /\ wav[r].pos <= Len(wav[r].cells) + 1
          /\ Len(wav[r].cells) - 3 <= Written(r)
          /\ stat[r] <= Len(decoded[r]) /\ Len(decoded[r]) <= Len(heard[r])
          /\ callback[r] <= Len(due)
        BY <2>4, <2>5
    <2> QED
        BY <2>3, <2>6, <2>7 DEF Tally
<1> QED
    BY <1>1, <1>2 DEF TallyInv

\* It stands when the file is as it was, whatever else was heard or published.
LEMMA TallyKept ==
    ASSUME NEW r \in Recorders, Tally(r),
           wav'[r] = wav[r], callback'[r] = callback[r], main'[r] = main[r],
           stat'[r] = stat[r], decoded'[r] = decoded[r],
           Len(heard[r]) \in Nat, Len(heard'[r]) \in Nat, Len(heard'[r]) >= Len(heard[r]),
           Len(due) \in Nat, Len(due') \in Nat, Len(due') >= Len(due)
    PROVE  Tally(r)'
<1>1. FileShape(r)'
    BY DEF Tally, FileShape
<1>2. Len(decoded[r]) \in Nat /\ callback[r] \in Nat
    BY DEF Tally, FileShape
<1>3. Len(decoded'[r]) <= Len(heard'[r]) /\ callback'[r] <= Len(due')
    BY <1>2 DEF Tally
<1> QED
    BY <1>1, <1>3 DEF Tally, Written

\* Main: a size it writes at the end is one the audio written over made up for.
LEMMA MainTallies ==
    ASSUME NEW r \in Recorders, Tally(r), RecordersShape, Header(r) \/ CloseFile(r)
    PROVE  Tally(r)'
<1> DEFINE f == wav[r]
           n == Len(f.cells)
           w == Written(r)
<1>1. /\ f \in Files /\ f.cells \in Seq(Cells) /\ f.pos \in Nat \ {0}
      /\ n \in Nat /\ n >= 3 /\ f.pos <= n + 1 /\ n - 3 <= w
      /\ main[r] \in {"riff", "data"} => f.pos <= 3 \/ n - 3 < w
      /\ stat[r] \in Nat /\ decoded[r] \in Seq(Nat) /\ callback[r] \in Nat
      /\ f.open = (main[r] # "closed")
    BY DEF Tally, FileShape, Files
<1>2. w \in Int /\ w <= Len(decoded[r]) /\ Len(decoded[r]) \in Nat
    BY <1>1 DEF Written
<1>3. callback' = callback /\ decoded' = decoded /\ heard' = heard /\ due' = due
    BY DEF Header, Stat, Seek, WriteSize, CloseFile, busVars
<1>4. Written(r)' = w
    BY <1>3 DEF Written
<1>5. CASE Stat(r)
    <2>1. main[r] = "running" /\ main'[r] = "stat" /\ stat'[r] = n - 3 /\ wav' = wav
        BY <1>1, <1>5 DEF Stat, Main, Pieces, AudioAt, RecordersShape
    <2>2. n - 3 \in Nat /\ n - 3 <= Len(decoded[r])
        BY <1>1, <1>2
    <2>3. FileShape(r)'
        BY <1>3, <2>1, <2>2 DEF Tally, FileShape
    <2> QED
        BY <1>1, <1>3, <1>4, <2>1, <2>2, <2>3 DEF Tally
<1>6. ASSUME NEW from, NEW to, NEW pos \in {1, 3}, Seek(r, from, to, pos),
             to \in {"riff", "data"}, from # "closed"
      PROVE  Tally(r)'
    <2>1. /\ main[r] = from /\ main'[r] = to /\ stat' = stat
          /\ wav'[r] = SeekTo(f, pos)
        BY <1>6 DEF Seek, Main, RecordersShape
    <2>2. f.open = TRUE
        BY <1>1, <1>6, <2>1
    <2>3. wav'[r] = [f EXCEPT !.pos = pos]
        BY <2>1, <2>2 DEF SeekTo
    <2>4. wav'[r] \in Files /\ wav'[r].cells = f.cells /\ wav'[r].pos = pos /\ wav'[r].open = TRUE
        BY <1>1, <2>2, <2>3 DEF Files
    <2>5. FileShape(r)'
        BY <1>1, <1>3, <1>6, <2>1, <2>4 DEF FileShape
    <2>6. pos <= 3 /\ pos <= n + 1 /\ main'[r] # "closed"
        BY <1>1, <1>6, <2>1
    <2> HIDE DEF f
    <2> QED
        BY <1>1, <1>3, <1>4, <2>1, <2>4, <2>5, <2>6 DEF Tally, f
<1>7. ASSUME NEW from \in {"riff", "data"}, NEW to \in {"riffed", "saved"},
             WriteSize(r, from, to)
      PROVE  Tally(r)'
    <2>1. /\ main[r] = from /\ main'[r] = to /\ stat' = stat
          /\ wav'[r] = Write(f, SizeCell(stat[r]))
        BY <1>7 DEF WriteSize, Main, RecordersShape
    <2>2. f.open = TRUE /\ SizeCell(stat[r]) \in Cells
        BY <1>1, <1>7, <2>1 DEF SizeCell, Cells
    <2> DEFINE g == Write(f, SizeCell(stat[r]))
    <2>3. /\ g \in Files /\ g.open = TRUE /\ g.pos = f.pos + 1
          /\ Len(g.cells) = IF f.pos <= n THEN n ELSE n + 1
        BY <1>1, <2>2, WriteOpen
    <2> HIDE DEF g
    <2>4. FileShape(r)'
        BY <1>1, <1>3, <1>7, <2>1, <2>3 DEF FileShape, g
    <2>5. f.pos <= 3 \/ n - 3 < w
        BY <1>1, <1>7, <2>1
    <2> HIDE DEF f, n, w
    <2>6. Len(g.cells) >= 3 /\ Len(g.cells) - 3 <= w /\ g.pos <= Len(g.cells) + 1
        BY <1>1, <1>2, <2>3, <2>5
    <2>7. main'[r] \notin {"riff", "data", "closed"}
        BY <1>7, <2>1
    <2> QED
        BY <1>3, <1>4, <2>1, <2>3, <2>4, <2>6, <2>7 DEF Tally, g
<1>8. CASE CloseFile(r)
    <2>1. /\ main'[r] = "closed" /\ stat' = stat /\ wav'[r] = Closed(f)
        BY <1>8 DEF CloseFile, Main, RecordersShape
    <2>2. wav'[r] \in Files /\ wav'[r].cells = f.cells /\ wav'[r].pos = f.pos /\ wav'[r].open = FALSE
        BY <1>1, <2>1 DEF Closed, Files
    <2>3. FileShape(r)'
        BY <1>1, <1>3, <2>1, <2>2 DEF FileShape
    <2> HIDE DEF f
    <2> QED
        BY <1>1, <1>3, <1>4, <2>1, <2>2, <2>3 DEF Tally, f
<1> HIDE DEF f, n, w
<1> QED
    BY <1>5, <1>6, <1>7, <1>8 DEF Header, RiffAt, DataSizeAt, DataAt

\* The callback writes, at the position that main may have moved.
LEMMA WriteAudioTallies ==
    ASSUME NEW r \in Recorders, Tally(r), RecordersShape, WriteAudio(r)
    PROVE  Tally(r)'
<1> DEFINE f == wav[r]
           n == Len(f.cells)
           w == Written(r)
           g == Write(f, AudioCell(callback[r]))
<1>1. /\ f \in Files /\ f.cells \in Seq(Cells) /\ f.pos \in Nat \ {0}
      /\ n \in Nat /\ n >= 3 /\ f.pos <= n + 1 /\ n - 3 <= w
      /\ main[r] \in {"riff", "data"} => f.pos <= 3 \/ n - 3 < w
      /\ decoded[r] \in Seq(Nat) /\ callback[r] \in Nat
      /\ f.open = (main[r] # "closed")
    BY DEF Tally, FileShape, Files
<1>2. /\ main' = main /\ stat' = stat /\ decoded' = decoded /\ heard' = heard /\ due' = due
      /\ callback[r] # 0 /\ callback'[r] = 0 /\ wav'[r] = g
    BY DEF WriteAudio, RecordersShape, busVars
<1>3. w \in Int /\ Written(r)' = w + 1
    BY <1>1, <1>2 DEF Written
<1>4. CASE f.open = FALSE
    <2>1. g = f
        BY <1>4 DEF Write
    <2>2. FileShape(r)'
        BY <1>2, <2>1 DEF Tally, FileShape
    <2>3. n - 3 <= w + 1 /\ (main[r] \in {"riff", "data"} => f.pos <= 3 \/ n - 3 < w + 1)
        BY <1>1, <1>3
    <2> QED
        BY <1>1, <1>2, <1>3, <2>1, <2>2, <2>3 DEF Tally
<1>5. CASE f.open = TRUE
    <2> DEFINE c == AudioCell(callback[r])
    <2>1. c \in Cells
        BY <1>1 DEF AudioCell, Cells
    <2>2. /\ g \in Files /\ g.open = TRUE /\ g.pos = f.pos + 1
          /\ Len(g.cells) = IF f.pos <= n THEN n ELSE n + 1
        <3>1. f \in Files /\ f.open = TRUE /\ f.pos <= Len(f.cells) + 1
            BY <1>1, <1>5
        <3> HIDE DEF c
        <3>2. /\ Write(f, c) \in Files
              /\ Write(f, c).open = TRUE /\ Write(f, c).pos = f.pos + 1
              /\ Len(Write(f, c).cells) =
                    IF f.pos <= Len(f.cells) THEN Len(f.cells) ELSE Len(f.cells) + 1
            BY <2>1, <3>1, WriteOpen
        <3> QED
            BY <3>2 DEF c
    <2> HIDE DEF g
    <2>3. FileShape(r)'
        BY <1>1, <1>2, <2>2 DEF Tally, FileShape
    <2> HIDE DEF f, n, w
    <2>4. /\ Len(g.cells) >= 3 /\ g.pos <= Len(g.cells) + 1 /\ Len(g.cells) - 3 <= w + 1
          /\ main[r] \in {"riff", "data"} => g.pos <= 3 \/ Len(g.cells) - 3 < w + 1
        BY <1>1, <1>3, <2>2
    <2>5. main[r] # "closed"
        BY <1>1, <1>5
    <2>6. stat'[r] <= Len(decoded'[r]) /\ Len(decoded'[r]) <= Len(heard'[r])
        BY <1>2 DEF Tally
    <2>7. callback'[r] <= Len(due')
        <3>1. callback[r] <= Len(due)
            BY DEF Tally
        <3>2. Len(due) >= 0
            OBVIOUS
        <3> QED
            BY <1>2, <3>2
    <2> QED
        BY <1>2, <1>3, <2>2, <2>3, <2>4, <2>5, <2>6, <2>7 DEF Tally
<1> QED
    BY <1>1, <1>4, <1>5

\* The callback is called.
LEMMA DecodeTallies ==
    ASSUME BusInv, NEW r \in Recorders, Tally(r), RecordersShape, Decode(r)
    PROVE  Tally(r)'
<1> DEFINE m == Head(inbox[r])
<1>1. r \in Subs
    BY RecorderAssumption
<1>2. /\ inbox[r] \in Seq(Nat) /\ heard[r] \in Seq(Nat) /\ DOMAIN heard = Subs
      /\ DOMAIN given \subseteq 1 .. Len(due) /\ Len(due) \in Nat
      /\ inbox[r] # <<>> /\ heard' = [heard EXCEPT ![r] = Append(@, m)] /\ due' = due
    BY <1>1 DEF BusInv, BusShape, Decode, Called
<1>3. m \in Nat /\ m # 0 /\ m <= Len(due)
    <2>1. 1 \in DOMAIN inbox[r] /\ m = inbox[r][1]
        BY <1>2, NonEmpty
    <2>2. inbox[r][1] \in DOMAIN given
        BY <1>1, <2>1 DEF BusInv, BoxFaithful
    <2> QED
        BY <1>2, <2>1, <2>2
<1>4. /\ callback[r] = 0 /\ callback'[r] = m
      /\ decoded'[r] = Append(decoded[r], m)
      /\ wav' = wav /\ main' = main /\ stat' = stat
    BY DEF Decode, RecordersShape
<1>5. heard'[r] = Append(heard[r], m)
    BY <1>1, <1>2
<1> HIDE DEF m
<1>6. /\ decoded[r] \in Seq(Nat) /\ Len(decoded[r]) \in Nat /\ Len(heard[r]) \in Nat
      /\ decoded'[r] \in Seq(Nat) /\ Len(decoded'[r]) = Len(decoded[r]) + 1
      /\ Len(heard'[r]) = Len(heard[r]) + 1
    BY <1>2, <1>3, <1>4, <1>5 DEF Tally, FileShape
<1>7. FileShape(r)'
    BY <1>3, <1>4, <1>6 DEF Tally, FileShape
<1>8. Written(r)' = Written(r)
    BY <1>3, <1>4, <1>6 DEF Written
<1>9. /\ stat'[r] <= Len(decoded'[r]) /\ Len(decoded'[r]) <= Len(heard'[r])
      /\ callback'[r] <= Len(due')
    BY <1>2, <1>3, <1>4, <1>6 DEF Tally, FileShape
<1> QED
    BY <1>4, <1>7, <1>8, <1>9 DEF Tally

LEMMA HeardGrows ==
    ASSUME BusInv, [Next]_vars, NEW s \in Subs
    PROVE  Len(heard[s]) \in Nat /\ Len(heard'[s]) \in Nat /\ Len(heard'[s]) >= Len(heard[s])
<1>1. heard \in [Subs -> Seq(Nat)] /\ inbox \in [Subs -> Seq(Nat)]
    BY DEF BusInv, BusShape
<1>2. ASSUME NEW t \in Subs, Called(t)
      PROVE  Len(heard'[s]) >= Len(heard[s])
    <2>1. inbox[t] \in Seq(Nat) /\ inbox[t] # <<>> /\ Head(inbox[t]) \in Nat
        BY <1>1, <1>2 DEF Called
    <2> DEFINE m == Head(inbox[t])
    <2>2. m \in Nat /\ heard' = [heard EXCEPT ![t] = Append(heard[t], m)]
        BY <1>2, <2>1 DEF Called
    <2> HIDE DEF m
    <2>3. heard'[t] = Append(heard[t], m) /\ heard[t] \in Seq(Nat)
        BY <1>1, <2>2
    <2>4. Len(heard'[t]) = Len(heard[t]) + 1 /\ Len(heard[t]) \in Nat
        BY <2>2, <2>3
    <2>5. s # t => heard'[s] = heard[s]
        BY <1>1, <2>2
    <2>6. Len(heard[s]) \in Nat
        BY <1>1
    <2> QED
        BY <2>4, <2>5, <2>6
<1>3. ASSUME heard' = heard PROVE Len(heard'[s]) >= Len(heard[s])
    BY <1>1, <1>3
<1>4. heard' = heard \/ \E t \in Subs : Called(t)
    BY NextIsBusStep DEF BusStep, BusNext, busVars, Publish, Exit, Server, ServerSub,
       ServerUnsub, Route, Subscribe, SubscribeRefused, Subscribed, FlushFails, Close
<1>5. heard'[s] \in Seq(Nat)
    BY StepBus DEF BusInv, BusShape
<1> QED
    BY <1>1, <1>2, <1>3, <1>4, <1>5

LEMMA StepTallies ==
    ASSUME BusInv, BusRest, TallyInv, [Next]_vars
    PROVE  TallyInv'
<1>1. RecordersShape /\ \A r \in Recorders : Tally(r)
    BY DEF TallyInv
<1>2. /\ \A r \in Recorders : /\ Len(heard[r]) \in Nat /\ Len(heard'[r]) \in Nat
                              /\ Len(heard'[r]) >= Len(heard[r])
      /\ Len(due) \in Nat /\ Len(due') \in Nat /\ Len(due') >= Len(due)
    <2>1. \A r \in Recorders : r \in Subs
        BY RecorderAssumption
    <2>2. Len(due) \in Nat /\ Len(due') \in Nat
        BY StepBus DEF BusInv, BusShape
    <2> QED
        BY <2>1, <2>2, HeardGrows, BusRestKept
<1>3. ASSUME NEW r \in Recorders,
             Decode(r) \/ WriteAudio(r) \/ Header(r) \/ CloseFile(r)
      PROVE  TallyInv'
    <2>1. Tally(r)'
        BY <1>1, <1>3, DecodeTallies, WriteAudioTallies, MainTallies
    <2>2. OthersKept(r) /\ RecordersShape'
        BY <1>1, <1>3, RecorderMoves
    <2>3. ASSUME NEW q \in Recorders, q # r PROVE Tally(q)'
        BY <1>1, <1>2, <2>2, <2>3, TallyKept DEF OthersKept
    <2> QED
        BY <2>1, <2>2, <2>3 DEF TallyInv
<1>4. ASSUME UNCHANGED recorderVars PROVE TallyInv'
    <2>1. wav' = wav /\ callback' = callback /\ main' = main /\ stat' = stat /\ decoded' = decoded
        BY <1>4 DEF recorderVars
    <2>2. RecordersShape'
        BY <1>1, <2>1 DEF RecordersShape
    <2>3. ASSUME NEW q \in Recorders PROVE Tally(q)'
        BY <1>1, <1>2, <2>1, TallyKept
    <2> QED
        BY <2>2, <2>3 DEF TallyInv
<1>5. CASE Next
    <2>1. CASE BusNext /\ UNCHANGED recorderVars
        BY <2>1, <1>4
    <2>2. ASSUME NEW s \in Subs, Count(s) PROVE TallyInv'
        BY <2>2, <1>4 DEF Count
    <2>3. ASSUME NEW r \in Recorders, DecodeFails(r) PROVE TallyInv'
        BY <2>3, <1>4 DEF DecodeFails
    <2>4. ASSUME NEW b \in Buses, CloseBus(b) PROVE TallyInv'
        BY <2>4, <1>4 DEF CloseBus
    <2> QED
        BY <1>3, <1>5, <2>1, <2>2, <2>3, <2>4 DEF Next
<1>6. CASE UNCHANGED vars
    BY <1>4, <1>6 DEF vars
<1> QED
    BY <1>5, <1>6

\* The state keeps its shape, with a mutex or without one: no file holds more
\* pieces than were published, and its position is never beyond its end.
THEOREM RecorderTyped == Spec => []RecorderTypeOK
<1> DEFINE Inv == BusInv /\ BusRest /\ TallyInv
<1>1. RecorderInit => Inv
    <2> SUFFICES ASSUME RecorderInit PROVE BusRest
        BY InitBus, InitTally DEF RecorderInit
    <2> QED
        BY BusAssumption DEF RecorderInit, BusInit, BusRest
<1>2. Inv /\ [Next]_vars => Inv'
    BY StepBus, BusRestKept, StepTallies
<1>3. Inv => RecorderTypeOK
    <2> SUFFICES ASSUME Inv PROVE RecorderTypeOK
        OBVIOUS
    <2>1. ASSUME NEW r \in Recorders
          PROVE  /\ callback[r] \in 0 .. MaxPublished /\ stat[r] \in 0 .. MaxPublished
                 /\ main[r] \in {"running", "stat", "riff", "riffed", "data", "saved", "closed"}
                 /\ Pieces(wav[r]) \in 0 .. MaxPublished
                 /\ wav[r].pos \in 1 .. Len(wav[r].cells) + 1
        <3>1. r \in Subs
            BY RecorderAssumption
        <3>2. /\ Len(heard[r]) <= Len(due) /\ Len(heard[r]) \in Nat
              /\ Len(due) <= MaxPublished /\ Len(due) \in Nat /\ MaxPublished \in Nat
            BY <3>1, HeardBounded, BusAssumption DEF BusRest, BusInv, BusShape
        <3>3. /\ wav[r] \in Files /\ decoded[r] \in Seq(Nat) /\ callback[r] \in Nat
              /\ stat[r] \in Nat
              /\ main[r] \in {"running", "stat", "riff", "riffed", "data", "saved", "closed"}
              /\ Len(wav[r].cells) >= 3 /\ wav[r].pos <= Len(wav[r].cells) + 1
              /\ Len(wav[r].cells) - 3 <= Written(r)
              /\ stat[r] <= Len(decoded[r]) /\ Len(decoded[r]) <= Len(heard[r])
              /\ callback[r] <= Len(due)
            BY DEF TallyInv, Tally, FileShape
        <3> DEFINE n == Len(wav[r].cells)
        <3>4. n \in Nat /\ wav[r].pos \in Nat \ {0}
            BY <3>3 DEF Files
        <3>5. Written(r) <= Len(decoded[r]) /\ Len(decoded[r]) \in Nat /\ Written(r) \in Int
            BY <3>3 DEF Written
        <3>6. Pieces(wav[r]) = n - 3
            BY DEF Pieces, AudioAt
        <3> DEFINE d == Len(decoded[r])
                   w == Written(r)
                   h == Len(heard[r])
                   l == Len(due)
        <3>7. /\ n - 3 <= w /\ w <= d /\ d <= h /\ h <= l /\ l <= MaxPublished
              /\ stat[r] <= d /\ callback[r] <= l /\ n >= 3 /\ wav[r].pos <= n + 1
              /\ n \in Nat /\ w \in Int /\ d \in Nat /\ h \in Nat /\ l \in Nat
              /\ MaxPublished \in Nat
            BY <3>2, <3>3, <3>4, <3>5
        <3> HIDE DEF n, w, d, h, l
        <3>8. /\ n - 3 \in 0 .. MaxPublished
              /\ stat[r] \in 0 .. MaxPublished /\ callback[r] \in 0 .. MaxPublished
            BY <3>3, <3>7
        <3>9. wav[r].pos \in 1 .. n + 1
            BY <3>4, <3>7
        <3> QED
            BY <3>3, <3>6, <3>8, <3>9 DEF n
    <2>2. /\ callback \in [Recorders -> 0 .. MaxPublished]
          /\ main \in [Recorders ->
                {"running", "stat", "riff", "riffed", "data", "saved", "closed"}]
          /\ stat \in [Recorders -> 0 .. MaxPublished]
        BY <2>1 DEF TallyInv, RecordersShape
    <2> QED
        BY <2>1, <2>2, BusTyped DEF RecorderTypeOK
<1> QED
    BY <1>1, <1>2, <1>3, PTL DEF Spec
=============================================================================
