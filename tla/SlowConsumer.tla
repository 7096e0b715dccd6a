----------------------------- MODULE SlowConsumer -----------------------------
(***************************************************************************)
(* The dashboard's slow consumer (cmd/worker/main.go): handleSlowStart,    *)
(* handleSlowStop, the reader goroutine that takes 100 ms a message, and   *)
(* the NATS handler that drops the oldest message of a full queue in three *)
(* steps.  Each start is a generation, with a queue, a context, a reader   *)
(* and a subscription of its own; all read the variable slowQueue anew,    *)
(* which is that of the active generation, or nil.                         *)
(*                                                                         *)
(* Stop does not unsubscribe: a stopped generation remains a member of     *)
(* "slow-group" and is sent its share of the messages.                     *)
(***************************************************************************)
EXTENDS Naturals, SequencesExt

CONSTANTS
    QueueLimit,   \* slowQueueLimit, 100 in the code
    MaxStarts,    \* bound: generations
    MaxMessages   \* bound: messages published

ASSUME SlowAssumption ==
    QueueLimit \in Nat \ {0} /\ MaxStarts \in Nat /\ MaxMessages \in Nat

Gens == 1 .. MaxStarts
None == 0

VARIABLES
    started,    \* how many generations there have been
    active,     \* the one slowCancel and slowQueue are of, or None
    starting,   \* handleSlowStart is in Subscribe, with slowMutex
    members,    \* the generations subscribed
    inbox,      \* what each subscription was sent and has not handled
    handler,    \* where each generation's handler is
    held,       \* the message it has
    queue,      \* each generation's queue
    slowDropped,
    cancelled,  \* the generations whose context is cancelled
    reader,     \* where each generation's reader is
    source,     \* the generation whose queue its select waits on
    published,  \* how many messages there have been
    handled,    \* the messages that handlers have finished with, in order
    taken       \* the messages that readers have taken, in order

startVars == <<started, active, starting, members, cancelled>>
handlerVars == <<inbox, handler, held, handled>>
readerVars == <<reader, source, taken>>
vars == <<startVars, handlerVars, readerVars, queue, slowDropped, published>>

Each(x) == [g \in Gens |-> x]

Init ==
    /\ started = 0 /\ active = None /\ starting = FALSE
    /\ members = {} /\ cancelled = {}
    /\ inbox = Each(<<>>) /\ handler = Each("idle") /\ held = Each(0)
    /\ queue = Each(<<>>) /\ slowDropped = 0
    /\ reader = Each("none") /\ source = Each(None)
    /\ published = 0 /\ handled = <<>> /\ taken = <<>>

-----------------------------------------------------------------------------
\* A message is published: the server gives it to one member of the group.
Publish ==
    /\ published < MaxMessages
    /\ published' = published + 1
    /\ IF members = {} THEN UNCHANGED inbox
       ELSE \E g \in members : inbox' = [inbox EXCEPT ![g] = Append(@, published')]
    /\ UNCHANGED <<startVars, handler, held, handled, readerVars, queue, slowDropped>>

\* slowMutex is free.
MutexFree == ~starting

\* handleSlowStart, when no generation is active, up to its Subscribe.
Start ==
    /\ MutexFree /\ active = None
    /\ started < MaxStarts
    /\ started' = started + 1
    /\ active' = started'
    /\ starting' = TRUE
    /\ slowDropped' = 0
    /\ reader' = [reader EXCEPT ![started'] = "loop"]
    /\ UNCHANGED <<members, cancelled, handlerVars, source, taken, queue, published>>

\* The server has the subscription before Subscribe returns.
Register ==
    /\ starting
    /\ members' = members \cup {active}
    /\ UNCHANGED <<started, active, starting, cancelled, handlerVars, readerVars,
                   queue, slowDropped, published>>

Started ==
    /\ starting /\ active \in members
    /\ starting' = FALSE
    /\ UNCHANGED <<started, active, members, cancelled, handlerVars, readerVars,
                   queue, slowDropped, published>>

\* What ends the goroutines of the active generation.
Cancel == cancelled' = cancelled \cup {active}

\* Subscribe fails and has taken the subscription back; what was sent to it
\* is discarded.
\* Mutant: without the call of cancel.
StartFails_Uncancelled ==
    /\ starting
    /\ starting' = FALSE
    /\ members' = members \ {active}
    /\ inbox' = [inbox EXCEPT ![active] = <<>>]
    /\ active' = None
    /\ UNCHANGED <<started, cancelled, handler, held, handled, readerVars,
                   queue, slowDropped, published>>

StartFails ==
    /\ starting
    /\ starting' = FALSE
    /\ Cancel
    /\ members' = members \ {active}
    /\ inbox' = [inbox EXCEPT ![active] = <<>>]
    /\ active' = None
    /\ UNCHANGED <<started, handler, held, handled, readerVars,
                   queue, slowDropped, published>>

\* handleSlowStop: the subscription stays.
\* Mutant: it does not wait for a start that is still in Subscribe.
Stop_Unlocked ==
    /\ active # None
    /\ Cancel
    /\ active' = None
    /\ UNCHANGED <<started, starting, members, handlerVars, readerVars,
                   queue, slowDropped, published>>

Stop ==
    /\ MutexFree /\ active # None
    /\ Cancel
    /\ active' = None
    /\ UNCHANGED <<started, starting, members, handlerVars, readerVars,
                   queue, slowDropped, published>>

-----------------------------------------------------------------------------
\* The handler.

\* A send on slowQueue that does not wait succeeds; on nil it never does.
HasRoom == active # None /\ Len(queue[active]) < QueueLimit

HasMessage == active # None /\ queue[active] # <<>>

Finished(g) ==
    /\ handler' = [handler EXCEPT ![g] = "idle"]
    /\ handled' = Append(handled, held[g])

Continues(g, from, to) ==
    handler[g] = from /\ handler' = [handler EXCEPT ![g] = to]

\* It is called with the next message, which it ignores once cancelled.
Call(g) ==
    /\ handler[g] = "idle"
    /\ inbox[g] # <<>>
    /\ inbox' = [inbox EXCEPT ![g] = Tail(@)]
    /\ IF g \in cancelled THEN UNCHANGED <<handler, held>>
       ELSE /\ handler' = [handler EXCEPT ![g] = "offer"]
            /\ held' = [held EXCEPT ![g] = Head(inbox[g])]
    /\ UNCHANGED <<startVars, handled, readerVars, queue, slowDropped, published>>

Push(g, from) ==
    /\ handler[g] = from
    /\ HasRoom
    /\ queue' = [queue EXCEPT ![active] = Append(@, held[g])]
    /\ Finished(g)
    /\ UNCHANGED <<startVars, inbox, held, readerVars, slowDropped, published>>

\* The queue is full.
\* Mutant: a full queue drops the new message.
Full_DropNewest(g) ==
    /\ handler[g] = "offer" /\ ~HasRoom
    /\ Finished(g)
    /\ UNCHANGED <<startVars, inbox, held, readerVars, queue, slowDropped, published>>

Full(g) ==
    /\ Continues(g, "offer", "evict")
    /\ ~HasRoom
    /\ UNCHANGED <<startVars, inbox, held, handled, readerVars, queue, slowDropped, published>>

\* The oldest message is received, and counted in a step of its own; or the
\* reader has emptied the queue.
Evict(g) ==
    /\ Continues(g, "evict", "count")
    /\ HasMessage
    /\ queue' = [queue EXCEPT ![active] = Tail(@)]
    /\ UNCHANGED <<startVars, inbox, held, handled, readerVars, slowDropped, published>>

CountDrop(g) ==
    /\ Continues(g, "count", "retry")
    /\ slowDropped' = slowDropped + 1
    /\ UNCHANGED <<startVars, inbox, held, handled, readerVars, queue, published>>

EvictNothing(g) ==
    /\ Continues(g, "evict", "retry")
    /\ ~HasMessage
    /\ UNCHANGED <<startVars, inbox, held, handled, readerVars, queue, slowDropped, published>>

\* The second send fails too: the message is lost, uncounted.
\* Mutant: the second send waits.
GiveUp_Never(g) == FALSE /\ UNCHANGED vars

GiveUp(g) ==
    /\ handler[g] = "retry" /\ ~HasRoom
    /\ Finished(g)
    /\ UNCHANGED <<startVars, inbox, held, readerVars, queue, slowDropped, published>>

Handle(g) ==
    \/ Push(g, "offer") \/ Full(g) \/ Evict(g) \/ CountDrop(g) \/ EvictNothing(g)
    \/ Push(g, "retry") \/ GiveUp(g)

-----------------------------------------------------------------------------
\* The reader.

\* It enters its select, with what slowQueue is then.
Select(g) ==
    /\ reader[g] = "loop"
    /\ reader' = [reader EXCEPT ![g] = "select"]
    /\ source' = [source EXCEPT ![g] = active]
    /\ UNCHANGED <<startVars, handlerVars, taken, queue, slowDropped, published>>

\* It receives a message and sleeps; a cancelled one may do so too, because
\* the select takes either case that is ready.
Take(g) ==
    /\ reader[g] = "select"
    /\ source[g] # None
    /\ queue[source[g]] # <<>>
    /\ queue' = [queue EXCEPT ![source[g]] = Tail(@)]
    /\ taken' = Append(taken, Head(queue[source[g]]))
    /\ reader' = [reader EXCEPT ![g] = "asleep"]
    /\ UNCHANGED <<startVars, handlerVars, source, slowDropped, published>>

Wake(g) ==
    /\ reader[g] = "asleep"
    /\ reader' = [reader EXCEPT ![g] = "loop"]
    /\ UNCHANGED <<startVars, handlerVars, source, taken, queue, slowDropped, published>>

Leave(g) ==
    /\ reader[g] = "select"
    /\ g \in cancelled
    /\ reader' = [reader EXCEPT ![g] = "exited"]
    /\ UNCHANGED <<startVars, handlerVars, source, taken, queue, slowDropped, published>>

-----------------------------------------------------------------------------
Next ==
    \/ Publish \/ Start \/ Register \/ Started \/ StartFails \/ Stop
    \/ \E g \in Gens :
        Call(g) \/ Handle(g) \/ Select(g) \/ Take(g) \/ Wake(g) \/ Leave(g)

\* A handler's steps, and a reader's between its selects, take place; Go's
\* select does not pass over a cancelled context for ever.  Nobody need take
\* a message from the queue.
Spec ==
    /\ Init /\ [][Next]_vars
    /\ \A g \in Gens : WF_vars(Handle(g)) /\ WF_vars(Select(g) \/ Wake(g)) /\ SF_vars(Leave(g))

-----------------------------------------------------------------------------
\* The state has its shape.
SlowTypeOK ==
    /\ started \in 0 .. MaxStarts
    /\ active \in {None, started}
    /\ starting => active # None
    /\ members \subseteq 1 .. started /\ cancelled \subseteq 1 .. started
    /\ handler \in [Gens -> {"idle", "offer", "evict", "count", "retry"}]
    /\ held \in [Gens -> 0 .. MaxMessages]
    /\ slowDropped \in 0 .. MaxMessages
    /\ reader \in [Gens -> {"none", "loop", "select", "asleep", "exited"}]
    /\ source \in [Gens -> 0 .. started]
    /\ \A g \in Gens : queue[g] \in Seq(1 .. MaxMessages) /\ Len(queue[g]) <= QueueLimit

\* Until it is stopped the consumer loses the oldest message only, and counts
\* it: what its handler has finished with has been taken, in order, or is
\* still queued, behind that and without a gap up to the newest; slowDropped
\* is how many are missing in between.  So no reader, however it interleaves
\* with the handler's three steps, makes the handler lose the newest.
OnlyOldestDropped ==
    active = 1 /\ cancelled = {} =>
        LET kept == taken \o queue[1]
        IN  /\ IsSuffix(queue[1], handled)
            /\ \A i, j \in DOMAIN kept : i < j => kept[i] < kept[j]
            /\ handler[1] # "count" => Len(handled) = Len(kept) + slowDropped

\* A handler always returns, whatever the reader does and even if it finds
\* slowQueue nil: a slow or stopped consumer holds up nobody else.
HandlerReturns == \A g \in Gens : handler[g] # "idle" ~> handler[g] = "idle"

\* A reader whose generation is no longer active ends, also when Subscribe
\* failed, and even if it has come upon the next generation's queue.
ReaderEnds ==
    \A g \in Gens : g <= started /\ g # active ~> reader[g] = "exited"
=============================================================================
