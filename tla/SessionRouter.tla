--------------------------- MODULE SessionRouter ----------------------------
(***************************************************************************)
(* The WebSocket handlers (internal/ingestion/websocket.go), the session   *)
(* router (internal/router/router.go) and its pipelines, up to the end of  *)
(* the worker's shutdown.  A source of Pipeline is a connection here.      *)
(*                                                                         *)
(* Each connection has a handler goroutine: "new", in its "loop", blocked  *)
(* in ReadMessage ("read"), waiting for r.mu ("route"), about to "push",   *)
(* or "gone".  Stop and Shutdown do not wait for handlers, since upgraded  *)
(* connections are no longer the HTTP server's.                            *)
(***************************************************************************)
EXTENDS Pipeline

CONSTANTS
    URLs,        \* the session_ids that the connections may come with
    NoId,        \* a URL without one
    DefaultId,   \* "websocket"
    NoPipe

ASSUME RouterAssumption == NoPipe \notin Pipes /\ DefaultId # NoId

VARIABLES
    sessionId,   \* the session_id in each connection's URL, or NoId
    conn,        \* where each connection's handler is
    chunk,       \* the chunk it has read
    target,      \* the pipeline RouteChunk found for that chunk
    workers,     \* the router's map from sessions to pipelines
    adapter,     \* "running" or "stopped"
    close        \* how far the router's Close is: "no", "stopping", "done"

handlerVars == <<produced, sessionId, conn, chunk, target>>
routerVars == <<handlerVars, workers, adapter, close, pipeVars>>

\* The key that a connection's chunks are routed by.
\* Mutant: the adapter's ID, always.
Key_Adapter(c) == DefaultId

Key(c) == IF sessionId[c] = NoId THEN DefaultId ELSE sessionId[c]

Keys == ({DefaultId} \cup {url[c] : url \in URLs, c \in Sources}) \ {NoId}

RouterInit ==
    /\ PipelineInit
    /\ loop = Each("unmade")
    /\ sessionId \in URLs
    /\ conn = [c \in Sources |-> "new"]
    /\ chunk = [c \in Sources |-> <<>>]
    /\ target = [c \in Sources |-> NoPipe]
    /\ workers = [k \in Keys |-> NoPipe]
    /\ adapter = "running"
    /\ close = "no"

-----------------------------------------------------------------------------
\* Connection c's handler moves on; every connection keeps its session_id.
Handler(c, label) ==
    conn' = [conn EXCEPT ![c] = label] /\ UNCHANGED sessionId

\* A request comes in; a stopped adapter refuses it.
Connect(c) ==
    /\ conn[c] = "new"
    /\ Handler(c, IF adapter = "running" THEN "loop" ELSE "gone")
    /\ UNCHANGED <<produced, chunk, target, workers, adapter, close, pipeVars>>

\* The handler looks at the context, and returns or calls ReadMessage.
CheckContext(c) ==
    /\ conn[c] = "loop"
    /\ Handler(c, IF adapter = "stopped" THEN "gone" ELSE "read")
    /\ UNCHANGED <<produced, chunk, target, workers, adapter, close, pipeVars>>

\* The client has closed the connection.
ReadFails(c) ==
    /\ conn[c] = "read"
    /\ Handler(c, "gone")
    /\ UNCHANGED <<produced, chunk, target, workers, adapter, close, pipeVars>>

\* A text message, or an odd number of bytes.
ReadOther(c) ==
    /\ conn[c] = "read"
    /\ Handler(c, "loop")
    /\ UNCHANGED <<produced, chunk, target, workers, adapter, close, pipeVars>>

\* A message with n samples.
Read(c, n) ==
    /\ conn[c] = "read"
    /\ Produce(c, n)
    /\ chunk' = [chunk EXCEPT ![c] = Chunk(c, n)]
    /\ Handler(c, "route")
    /\ UNCHANGED << target, workers, adapter, close, pipeVars>>

\* r.mu: Close has it until all workers have stopped.
RouterFree == close # "stopping"

\* RouteChunk, under r.mu, finds the session's worker.
RouteFound(c) ==
    /\ conn[c] = "route"
    /\ RouterFree
    /\ workers[Key(c)] # NoPipe
    /\ target' = [target EXCEPT ![c] = workers[Key(c)]]
    /\ Handler(c, "push")
    /\ UNCHANGED <<produced, chunk, workers, adapter, close, pipeVars>>

\* Mutant: the new worker is not put in the map.
Registered_Not(k, i) == workers

Registered(k, i) == [workers EXCEPT ![k] = i]

Unmade == {i \in Pipes : loop[i] = "unmade"}

\* ... or makes one and starts it.  Bound: Pipes are made, then no more.
RouteMade(c) ==
    /\ conn[c] = "route"
    /\ RouterFree
    /\ workers[Key(c)] = NoPipe
    /\ Unmade # {}
    /\ LET i == CHOOSE j \in Unmade : TRUE
       IN  /\ Start(i)
           /\ workers' = Registered(Key(c), i)
           /\ target' = [target EXCEPT ![c] = i]
    /\ Handler(c, "push")
    /\ UNCHANGED <<produced, chunk, adapter, close, queue, taken,
                   pcmBuf, frames, stop, accepted>>

\* Mutant: RouteChunk goes on when NewPipeline has failed.
AfterFailure_Push == "push"

AfterFailure == "loop"

\* ... or fails to make one: the handler ignores the error.
RouteFails(c) ==
    /\ conn[c] = "route"
    /\ RouterFree
    /\ workers[Key(c)] = NoPipe
    /\ chunk' = [chunk EXCEPT ![c] = <<>>]
    /\ Handler(c, AfterFailure)
    /\ UNCHANGED <<produced, target, workers, adapter, close, pipeVars>>

\* Having let go of r.mu, RouteChunk pushes to the pipeline it found.
Push(c) ==
    /\ conn[c] = "push"
    /\ PushPCM(target[c], chunk[c])
    /\ chunk' = [chunk EXCEPT ![c] = <<>>]
    /\ target' = [target EXCEPT ![c] = NoPipe]
    /\ Handler(c, "loop")
    /\ UNCHANGED <<produced, workers, adapter, close>>

\* The steps of a handler that depend on no client.
Handle(c) ==
    \/ CheckContext(c)
    \/ RouteFound(c) \/ RouteMade(c) \/ RouteFails(c)
    \/ Push(c)

-----------------------------------------------------------------------------
\* The worker is told to end: the adapter's Stop cancels the context ...
AdapterStop ==
    /\ adapter = "running"
    /\ adapter' = "stopped"
    /\ UNCHANGED <<handlerVars, workers, close, pipeVars>>

\* ... then the router's Close takes r.mu ...
CloseLock ==
    /\ adapter = "stopped"
    /\ close = "no"
    /\ close' = "stopping"
    /\ UNCHANGED <<handlerVars, workers, adapter, pipeVars>>

Active == {workers[k] : k \in Keys} \ {NoPipe}

\* ... stops the workers, one after the other in any order ...
CloseCancel(i) ==
    /\ close = "stopping"
    /\ i \in Active
    /\ \A j \in Active : stop[j] # "waiting"
    /\ StopCancel(i)
    /\ UNCHANGED <<handlerVars, workers, adapter, close>>

CloseWait(i) ==
    /\ StopWait(i)
    /\ UNCHANGED <<handlerVars, workers, adapter, close>>

\* ... and forgets them.
CloseUnlock ==
    /\ close = "stopping"
    /\ \A i \in Active : stop[i] = "done"
    /\ workers' = [k \in Keys |-> NoPipe]
    /\ close' = "done"
    /\ UNCHANGED <<handlerVars, adapter, pipeVars>>

Close ==
    \/ CloseLock \/ CloseUnlock
    \/ \E i \in Pipes : CloseCancel(i) \/ CloseWait(i)

RunPipeline(i) ==
    /\ Run(i)
    /\ UNCHANGED <<handlerVars, workers, adapter, close>>

RouterNext ==
    \/ \E c \in Sources :
        \/ Connect(c) \/ ReadFails(c) \/ ReadOther(c) \/ Handle(c)
        \/ \E n \in 0 .. MaxChunk : Read(c, n)
    \/ \E i \in Pipes : RunPipeline(i)
    \/ AdapterStop \/ Close

\* As in Pipeline; a client may be silent for ever.
RouterSpec ==
    /\ RouterInit /\ [][RouterNext]_routerVars
    /\ \A c \in Sources : WF_routerVars(Handle(c))
    /\ \A i \in Pipes : WF_pipeVars(Run(i)) /\ SF_pipeVars(Exit(i))
    /\ WF_routerVars(Close)

-----------------------------------------------------------------------------
\* The shape of the handlers' and the router's state.
RouterTypeOK ==
    /\ PipelineTypeOK
    /\ sessionId \in URLs
    /\ conn \in [Sources -> {"new", "loop", "read", "route", "push", "gone"}]
    /\ chunk \in [Sources -> Seq(Sample)]
    /\ target \in [Sources -> Pipes \cup {NoPipe}]
    /\ workers \in [Keys -> Pipes \cup {NoPipe}]
    /\ adapter \in {"running", "stopped"}
    /\ close \in {"no", "stopping", "done"}
    /\ \A c \in Sources :
        /\ conn[c] = "push" <=> target[c] # NoPipe
        /\ target[c] # NoPipe => loop[target[c]] # "unmade"

\* The connections whose audio is in pipeline i or in its frames.
Audio(i) == Cut(i) \o pcmBuf[i] \o Resampled(taken[i]) \o Queued(i)
Heard(i) == {x[1] : x \in ToSet(Audio(i))}

SameCall(c, d) ==
    \/ sessionId[c] = sessionId[d]
    \/ {sessionId[c], sessionId[d]} = {NoId, DefaultId}

(***************************************************************************)
(* A pipeline never has the audio of two calls, although a handler pushes  *)
(* outside r.mu to the worker it looked up before, over any Close.         *)
(***************************************************************************)
SessionsIsolated ==
    \A i \in Pipes : \A c, d \in Heard(i) : SameCall(c, d)

(***************************************************************************)
(* A call never has two workers that run: whichever of its connections     *)
(* routes first, and whenever Close forgets the worker it had.             *)
(***************************************************************************)
OneWorkerPerSession ==
    \A i, j \in Pipes :
        /\ loop[i] \notin {"unmade", "exited"}
        /\ loop[j] \notin {"unmade", "exited"}
        /\ \E c \in Heard(i), d \in Heard(j) : Key(c) = Key(d)
        => i = j

(***************************************************************************)
(* What a pipeline has of one connection is in the order it was sent, with *)
(* another connection of the call in between or not; and nothing twice,    *)
(* unless the resampler makes several samples of one.                      *)
(***************************************************************************)
ConnectionInOrder ==
    \A i \in Pipes : \A a, b \in DOMAIN Audio(i) :
        a < b /\ Audio(i)[a][1] = Audio(i)[b][1] =>
            /\ Audio(i)[a][2] <= Audio(i)[b][2]
            /\ OutRate <= InRate => Audio(i)[a][2] < Audio(i)[b][2]

(***************************************************************************)
(* Close returns, although it holds r.mu while it waits for goroutines     *)
(* that hold p.mu while they publish, and handlers go on pushing.          *)
(***************************************************************************)
CloseReturns == close = "stopping" ~> close = "done"
=============================================================================
