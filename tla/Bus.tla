--------------------------------- MODULE Bus ----------------------------------
(***************************************************************************)
(* The event bus (internal/bus/nats.go): one NATSBus per process, each a   *)
(* connection to the NATS server.  Publish, Subscribe and Close run under  *)
(* the bus's mutex, and Subscribe keeps it while it flushes.               *)
(*                                                                         *)
(* The client library and the server are external: a connection is a       *)
(* stream that the server reads in order; it gives a message to one member *)
(* of each queue group, and calls back one message at a time.  Messages    *)
(* are numbered as they are published.  What their topics are is           *)
(* abstracted: everyone subscribes to media.session.*.                     *)
(***************************************************************************)
EXTENDS Naturals, FiniteSets, SequencesExt

CONSTANTS
    Buses,         \* the processes' NATSBuses
    Subs,          \* the calls of Subscribe that are made
    BusOf,         \* the bus of each
    GroupOf,       \* its group, or NoGroup for ""
    NoGroup,
    Publishers,    \* the buses that media is published on
    Free,          \* nobody has the mutex
    MaxPublished   \* bound: messages published

ASSUME BusAssumption ==
    /\ BusOf \in [Subs -> Buses]
    /\ IsFiniteSet(Subs)
    /\ \A s \in Subs : GroupOf[s] \notin Subs
    /\ Free \notin Subs
    /\ MaxPublished \in Nat

VARIABLES
    mu,          \* which Subscribe has each bus's mutex
    closed,      \* the buses that are closed
    sub,         \* how far each Subscribe is, and its subscription
    out,         \* what each connection has sent and the server not read
    registered,  \* the subscriptions the server knows
    inbox,       \* what each subscription was sent and has not handled
    exited,      \* the processes that have ended
    due,         \* the subscriptions there were when each was published
    given,       \* whom the server gave each message it has read to
    heard        \* the messages each handler was called with

busVars == <<mu, closed, sub, out, registered, inbox, exited, due, given, heard>>

BusInit ==
    /\ mu = [b \in Buses |-> Free]
    /\ closed = {}
    /\ sub = [s \in Subs |-> "none"]
    /\ out = [b \in Buses |-> <<>>]
    /\ registered = {}
    /\ inbox = [s \in Subs |-> <<>>]
    /\ exited = {}
    /\ due = <<>>
    /\ given = [n \in {} |-> {}]
    /\ heard = [s \in Subs |-> <<>>]

Command(op, arg) == [op |-> op, arg |-> arg]

Sends(b, commands) == out' = [out EXCEPT ![b] = @ \o commands]

\* A step of Subscribe s: from one place to another.
Goes(s, from, to) == sub[s] \in from /\ sub' = [sub EXCEPT ![s] = to]

-----------------------------------------------------------------------------
\* Publish hands the message to the client; a closed bus refuses it.
Publish(b) ==
    /\ b \in Publishers
    /\ mu[b] = Free /\ b \notin closed /\ b \notin exited
    /\ Len(due) < MaxPublished
    /\ Sends(b, <<Command("pub", Len(due) + 1)>>)
    /\ due' = Append(due, {s \in Subs : sub[s] = "ok"})
    /\ UNCHANGED <<mu, closed, sub, registered, inbox, exited, given, heard>>

\* Subscribe has the mutex, the client sends SUB, and PING for the flush.
Subscribe(s) ==
    LET b == BusOf[s] IN
    /\ mu[b] = Free /\ b \notin closed /\ b \notin exited
    /\ Goes(s, {"none"}, "flushing")
    /\ mu' = [mu EXCEPT ![b] = s]
    /\ Sends(b, <<Command("sub", s)>>)
    /\ UNCHANGED <<closed, registered, inbox, exited, due, given, heard>>

SubscribeRefused(s) ==
    /\ mu[BusOf[s]] = Free /\ BusOf[s] \in closed
    /\ Goes(s, {"none"}, "failed")
    /\ UNCHANGED <<mu, closed, out, registered, inbox, exited, due, given, heard>>

\* The flush succeeds once the server has answered.
\* Mutant: Subscribe does not flush.
Flushed_AtOnce(s) == sub[s] \in {"flushing", "flushed"}

Flushed(s) == sub[s] = "flushed"

Subscribed(s) ==
    /\ Flushed(s) /\ BusOf[s] \notin exited
    /\ Goes(s, {"flushing", "flushed"}, "ok")
    /\ mu' = [mu EXCEPT ![BusOf[s]] = Free]
    /\ UNCHANGED <<closed, out, registered, inbox, exited, due, given, heard>>

\* After five seconds it fails: the subscription is taken back, and what was
\* received for it is discarded by the client.
\* Mutant: it is left as it is.
Unsubscribe_Not(s) == UNCHANGED <<out, inbox>>

Unsubscribe(s) ==
    /\ Sends(BusOf[s], <<Command("unsub", s)>>)
    /\ inbox' = [inbox EXCEPT ![s] = <<>>]

\* The mutex is released on every return.
\* Mutant: not on that of the error.
Unlocked_Not(s) == mu

Unlocked(s) == [mu EXCEPT ![BusOf[s]] = Free]

FlushFails(s) ==
    /\ BusOf[s] \notin exited
    /\ Goes(s, {"flushing", "flushed"}, "failed")
    /\ Unsubscribe(s)
    /\ mu' = Unlocked(s)
    /\ UNCHANGED <<closed, registered, exited, due, given, heard>>

\* Close, and the Drain it begins: the client takes all subscriptions back
\* but goes on handling what it has received.
Close(b) ==
    /\ mu[b] = Free /\ b \notin closed /\ b \notin exited
    /\ closed' = closed \cup {b}
    /\ Sends(b, SetToSeq({Command("unsub", s) : s \in
                             {t \in Subs : BusOf[t] = b /\ sub[t] = "ok"}}))
    /\ UNCHANGED <<mu, sub, registered, inbox, exited, due, given, heard>>

\* The process ends, at the end of main or earlier, and its connection breaks.
Exit(b) ==
    /\ b \notin exited
    /\ exited' = exited \cup {b}
    /\ out' = [out EXCEPT ![b] = <<>>]
    /\ registered' = {s \in registered : BusOf[s] # b}
    /\ inbox' = [s \in Subs |-> IF BusOf[s] = b THEN <<>> ELSE inbox[s]]
    /\ UNCHANGED <<mu, closed, sub, due, given, heard>>

-----------------------------------------------------------------------------
\* The server reads the connection of b.

Reads(b, op) == out[b] # <<>> /\ Head(out[b]).op = op /\ out' = [out EXCEPT ![b] = Tail(@)]

Argument(b) == Head(out[b]).arg

\* A subscription without a group shares with nobody.
\* Mutant: no subscription does.
QueueOf_Own(s) == <<s>>

QueueOf(s) == IF GroupOf[s] = NoGroup THEN <<s>> ELSE <<GroupOf[s]>>

Queues == {QueueOf(s) : s \in Subs}

MembersOf(q) == {s \in registered : QueueOf(s) = q}

\* One member of every group that has any.
Deals == {D \in SUBSET registered :
            \A q \in Queues : MembersOf(q) # {} => Cardinality(D \cap MembersOf(q)) = 1}

\* The client drops what comes for a subscription it took back.
Route(b, D) ==
    /\ Reads(b, "pub")
    /\ given' = [n \in DOMAIN given \cup {Argument(b)} |->
                    IF n = Argument(b) THEN D ELSE given[n]]
    /\ inbox' = [s \in Subs |-> IF s \in D /\ sub[s] # "failed"
                                THEN Append(inbox[s], Argument(b)) ELSE inbox[s]]
    /\ UNCHANGED <<mu, closed, sub, registered, exited, due, heard>>

\* SUB and PING: the flush succeeds, unless Subscribe has given up.
ServerSub(b) ==
    /\ Reads(b, "sub")
    /\ registered' = registered \cup {Argument(b)}
    /\ sub' = [sub EXCEPT ![Argument(b)] = IF @ = "flushing" THEN "flushed" ELSE @]
    /\ UNCHANGED <<mu, closed, inbox, exited, due, given, heard>>

ServerUnsub(b) ==
    /\ Reads(b, "unsub")
    /\ registered' = registered \ {Argument(b)}
    /\ UNCHANGED <<mu, closed, sub, inbox, exited, due, given, heard>>

Server(b) ==
    \/ ServerSub(b) \/ ServerUnsub(b)
    \/ \E D \in Deals : Route(b, D)

\* The callback of s is called with the next message.
Called(s) ==
    /\ inbox[s] # <<>>
    /\ inbox' = [inbox EXCEPT ![s] = Tail(@)]
    /\ heard' = [heard EXCEPT ![s] = Append(@, Head(inbox[s]))]
    /\ UNCHANGED <<mu, closed, sub, out, registered, exited, due, given>>

BusNext ==
    \/ \E b \in Buses : Publish(b) \/ Exit(b) \/ Server(b)
    \/ \E s \in Subs : Subscribe(s) \/ SubscribeRefused(s) \/ Subscribed(s) \/ FlushFails(s)

-----------------------------------------------------------------------------
\* The state has its shape.
BusTypeOK ==
    /\ mu \in [Buses -> Subs \cup {Free}]
    /\ closed \subseteq Buses /\ exited \subseteq Buses
    /\ sub \in [Subs -> {"none", "flushing", "flushed", "ok", "failed"}]
    /\ \A b \in Buses : \A i \in DOMAIN out[b] :
            out[b][i].op \in {"pub", "sub", "unsub"}
    /\ registered \subseteq Subs
    /\ inbox \in [Subs -> Seq(1 .. MaxPublished)]
    /\ heard \in [Subs -> Seq(1 .. MaxPublished)]
    /\ due \in Seq(SUBSET Subs)
    /\ DOMAIN given \subseteq DOMAIN due

SameGroup(s, t) == s = t \/ (GroupOf[s] = GroupOf[t] /\ GroupOf[s] # NoGroup)

\* Once somebody's Subscribe has returned, in whatever process, his group is
\* given every message published from then on, until he leaves: this is what
\* Subscribe flushes for.  And the group hears no message twice.
OncePerGroup ==
    /\ \A n \in DOMAIN given : \A s \in due[n] \cap registered :
            \E t \in given[n] : SameGroup(s, t)
    /\ \A s, t \in Subs : \A i \in DOMAIN heard[s], j \in DOMAIN heard[t] :
            heard[s][i] = heard[t][j] /\ SameGroup(s, t) => s = t /\ i = j

\* A handler whose Subscribe reported an error is not called any more.
FailedIsSilent ==
    [][\A s \in Subs : sub[s] = "failed" => heard'[s] = heard[s]]_busVars

\* Whatever the server does, nobody waits for a bus for ever.
BusComesFree == \A b \in Buses : []<>(mu[b] = Free \/ b \in exited)
=============================================================================
