-------------------------------- MODULE Replay --------------------------------
(***************************************************************************)
(* The replay adapter (internal/ingestion/replay.go), the HTTP endpoints   *)
(* that create and drop one (cmd/worker/main.go) and the worker's          *)
(* shutdown, which stops the last.                                         *)
(*                                                                         *)
(* Every /api/replay/start makes an adapter of its own; its goroutine      *)
(* opens the file, plays it chunk by chunk and starts again.  The          *)
(* endpoints run under the worker's mu, which the one for stop keeps while *)
(* it waits for the goroutine.  An adapter's own mutex is never held       *)
(* across a step, and not part of the state.                               *)
(***************************************************************************)
EXTENDS WavHeader

CONSTANTS
    Requests,    \* HTTP requests to /api/replay/start and /api/replay/stop
    Adapters,    \* the adapters that may be made
    NoAdapter,
    Main,        \* the main goroutine
    Nobody,      \* nobody has the lock
    Files,       \* the files that may be there to play
    ChunkBytes   \* the bytes of 20 ms of audio

ASSUME ReplayAssumption ==
    /\ NoAdapter \notin Adapters
    /\ Main \notin Requests
    /\ Nobody \notin Requests \cup {Main}
    /\ ChunkBytes \in Nat \ {0}
    /\ \A f \in Files : WellFormed(f)

VARIABLES
    file,           \* the file that is there
    mu,             \* who has the worker's mu
    replayAdapter,  \* the worker's variable: the adapter started last, or none
    request,        \* how far each request is
    main,           \* how far the main goroutine is
    timedOut,       \* server.Shutdown gave up on a request
    running,        \* the adapters whose running is set
    cancelled,      \* the adapters whose context is cancelled
    loop,           \* where each adapter's goroutine is
    wav,            \* what it parsed: where the audio begins, and its size
    pushed          \* offsets of the chunks pushed since the file was opened

adapterVars == <<running, cancelled, loop, wav, pushed>>
workerVars == <<mu, replayAdapter, request, main, timedOut>>
vars == <<file, workerVars, adapterVars>>

Init ==
    /\ file \in Files
    /\ mu = Nobody
    /\ replayAdapter = NoAdapter
    /\ request = [r \in Requests |-> "new"]
    /\ main = "serving"
    /\ timedOut = FALSE
    /\ running = {}
    /\ cancelled = {}
    /\ loop = [a \in Adapters |-> "unmade"]
    /\ wav = [a \in Adapters |-> [offset |-> 0, size |-> 0]]
    /\ pushed = [a \in Adapters |-> <<>>]

-----------------------------------------------------------------------------
\* The goroutine of an adapter.

\* a.mu is free: Stop has released it before it waits for the goroutine.
\* Mutant: Stop keeps it until it returns.
AMuFree_HeldByStop(a) == a \notin cancelled

AMuFree(a) == TRUE

\* Adapter a's goroutine goes from one place to another.
Goes(a, from, to) ==
    loop[a] = from /\ loop' = [loop EXCEPT ![a] = to]

\* The file is opened and its header read; or that fails, and the goroutine
\* sleeps for a second.
Open(a) ==
    /\ Goes(a, "open", "playing")
    /\ wav' = [wav EXCEPT ![a] = Parsed(file)]
    /\ pushed' = [pushed EXCEPT ![a] = <<>>]
    /\ UNCHANGED <<file, workerVars, running, cancelled>>

OpenFails(a) ==
    /\ Goes(a, "open", "sleeping")
    /\ UNCHANGED <<file, workerVars, running, cancelled, wav, pushed>>

\* The select finds the context cancelled, or a tick finds running cleared.
Interrupted(a) ==
    /\ Goes(a, "playing", "played")
    /\ \/ a \in cancelled
       \/ AMuFree(a) /\ a \notin running
    /\ UNCHANGED <<file, workerVars, running, cancelled, wav, pushed>>

\* A tick finds running set.
Tick(a) ==
    /\ AMuFree(a) /\ a \in running
    /\ Goes(a, "playing", "reading")
    /\ UNCHANGED <<file, workerVars, running, cancelled, wav, pushed>>

\* The next chunk to read, and whether it is the file's, and the audio's.
Position(a) == wav[a].offset + Len(pushed[a]) * ChunkBytes

\* Mutant: whatever the file holds is played.
WithinData_File(a) == TRUE

WithinData(a) ==
    LET size == wav[a].size
    IN  size > 0 => (Len(pushed[a]) + 1) * ChunkBytes <= size

Readable(a) ==
    Position(a) + ChunkBytes <= FileEnd(file) /\ WithinData(a)

\* A whole chunk is read and pushed; PushPCM does not wait.
Read(a) ==
    /\ Goes(a, "reading", "playing")
    /\ Readable(a)
    /\ pushed' = [pushed EXCEPT ![a] = Append(@, Position(a))]
    /\ UNCHANGED <<file, workerVars, running, cancelled, wav>>

ReadEnds(a) ==
    /\ Goes(a, "reading", "played")
    /\ ~Readable(a)
    /\ UNCHANGED <<file, workerVars, running, cancelled, wav, pushed>>

\* Any other error of the read: the goroutine sleeps as after a failed Open.
ReadFails(a) ==
    /\ Goes(a, "reading", "sleeping")
    /\ UNCHANGED <<file, workerVars, running, cancelled, wav, pushed>>

Wake(a) ==
    /\ Goes(a, "sleeping", "played")
    /\ UNCHANGED <<file, workerVars, running, cancelled, wav, pushed>>

\* Under a.mu: another time (the worker's adapters all loop), or the end.
Again(a) ==
    /\ AMuFree(a) /\ a \in running
    /\ Goes(a, "played", "looping")
    /\ UNCHANGED <<file, workerVars, running, cancelled, wav, pushed>>

Finish(a) ==
    /\ AMuFree(a) /\ a \notin running
    /\ Goes(a, "played", "exited")
    /\ UNCHANGED <<file, workerVars, running, cancelled, wav, pushed>>

\* The select at the loop's end.
LoopOn(a) ==
    /\ Goes(a, "looping", IF a \in cancelled THEN "exited" ELSE "open")
    /\ UNCHANGED <<file, workerVars, running, cancelled, wav, pushed>>

Goroutine(a) ==
    \/ Open(a) \/ OpenFails(a) \/ Interrupted(a) \/ Tick(a) \/ Read(a)
    \/ ReadEnds(a) \/ ReadFails(a) \/ Wake(a) \/ Again(a) \/ Finish(a) \/ LoopOn(a)

-----------------------------------------------------------------------------
\* The adapter's Stop.

\* Under a.mu: a goroutine that runs is told to end.  Otherwise Stop returns
\* at once, and then the goroutine has ended, since whoever told it waited.
StopCancel(a) ==
    /\ running' = running \ {a}
    /\ cancelled' = cancelled \cup ({a} \cap running)

\* wg.Wait returns once the goroutine has ended.
\* Mutant: Stop does not wait.
Ended_Unwaited(a) == TRUE

Ended(a) == loop[a] \in {"unmade", "exited"}

-----------------------------------------------------------------------------
\* The endpoints.

Moves(r, from, to) ==
    request[r] = from /\ request' = [request EXCEPT ![r] = to]

\* A request comes in while the server listens.
Arrive(r, kind) ==
    /\ main = "serving"
    /\ Moves(r, "new", kind)
    /\ UNCHANGED <<file, mu, replayAdapter, main, timedOut, adapterVars>>

\* The worker starts no second replay.
\* Mutant: the newest replaces the one before.
MayStart_Always == TRUE

MayStart == replayAdapter = NoAdapter

\* handleReplayStart: a new adapter is started and kept.
StartReplay(r, a) ==
    /\ mu = Nobody /\ MayStart
    /\ Moves(r, "start", "done")
    /\ Goes(a, "unmade", "open")
    /\ running' = running \cup {a}
    /\ replayAdapter' = a
    /\ UNCHANGED <<file, mu, main, timedOut, cancelled, wav, pushed>>

\* handleReplayStart when a replay is active, or when Start finds no file.
StartRefused(r) ==
    /\ mu = Nobody
    /\ Moves(r, "start", "done")
    /\ UNCHANGED <<file, mu, replayAdapter, main, timedOut, adapterVars>>

\* handleReplayStop, up to the wait for the goroutine; without a replay it
\* answers with an error.
StopReplay(r) ==
    /\ mu = Nobody /\ replayAdapter # NoAdapter
    /\ Moves(r, "stop", "waiting")
    /\ mu' = r
    /\ StopCancel(replayAdapter)
    /\ UNCHANGED <<file, replayAdapter, main, timedOut, loop, wav, pushed>>

StopRefused(r) ==
    /\ mu = Nobody /\ replayAdapter = NoAdapter
    /\ Moves(r, "stop", "done")
    /\ UNCHANGED <<file, mu, replayAdapter, main, timedOut, adapterVars>>

\* Stop has returned: the adapter is dropped and mu released.
StopReplayed(r) ==
    /\ Moves(r, "waiting", "done")
    /\ Ended(replayAdapter)
    /\ replayAdapter' = NoAdapter
    /\ mu' = Nobody
    /\ UNCHANGED <<file, main, timedOut, adapterVars>>

-----------------------------------------------------------------------------
\* The main goroutine after a signal.

Active == \E r \in Requests : request[r] \in {"start", "stop", "waiting"}

MainGoes(from, to) == main = from /\ main' = to

\* server.Shutdown closes the listener ...
Signal ==
    /\ MainGoes("serving", "shutdown")
    /\ UNCHANGED <<file, mu, replayAdapter, request, timedOut, adapterVars>>

\* ... and returns when no request is active or after five seconds.
ShutdownReturns ==
    /\ MainGoes("shutdown", "locking")
    /\ timedOut' = Active
    /\ UNCHANGED <<file, mu, replayAdapter, request, adapterVars>>

\* Under mu, the replay there is is stopped.
\* Mutant: without asking whether there is one.
MainStop_Unasked ==
    /\ mu = Nobody
    /\ MainGoes("locking", "waiting")
    /\ mu' = Main
    /\ running' = running \ {replayAdapter}
    /\ cancelled' = cancelled \cup {replayAdapter}
    /\ UNCHANGED <<file, replayAdapter, request, timedOut, loop, wav, pushed>>

MainStop ==
    /\ mu = Nobody
    /\ MainGoes("locking", "waiting")
    /\ mu' = Main
    /\ IF replayAdapter = NoAdapter
       THEN UNCHANGED <<running, cancelled>>
       ELSE StopCancel(replayAdapter)
    /\ UNCHANGED <<file, replayAdapter, request, timedOut, loop, wav, pushed>>

MainStopped ==
    /\ replayAdapter # NoAdapter => Ended(replayAdapter)
    /\ MainGoes("waiting", "stopped")
    /\ mu' = Nobody
    /\ UNCHANGED <<file, replayAdapter, request, timedOut, adapterVars>>

-----------------------------------------------------------------------------
Serve(r) ==
    \/ StartRefused(r) \/ StopReplay(r) \/ StopRefused(r) \/ StopReplayed(r)
    \/ \E a \in Adapters : StartReplay(r, a)

Shutdown == ShutdownReturns \/ MainStop \/ MainStopped

Next ==
    \/ \E a \in Adapters : Goroutine(a)
    \/ \E r \in Requests : Serve(r) \/ \E kind \in {"start", "stop"} : Arrive(r, kind)
    \/ Signal
    \/ Shutdown

\* Goroutines run, requests are served, and shutdown goes on once begun.
Spec ==
    /\ Init /\ [][Next]_vars
    /\ \A a \in Adapters : WF_vars(Goroutine(a))
    /\ \A r \in Requests : WF_vars(Serve(r))
    /\ WF_vars(Shutdown)

-----------------------------------------------------------------------------
Live(a) == loop[a] \notin {"unmade", "exited"}

\* The state has its shape.
ReplayTypeOK ==
    /\ file \in Files
    /\ mu \in Requests \cup {Main, Nobody}
    /\ replayAdapter \in Adapters \cup {NoAdapter}
    /\ request \in [Requests -> {"new", "start", "stop", "waiting", "done"}]
    /\ main \in {"serving", "shutdown", "locking", "waiting", "stopped"}
    /\ timedOut \in BOOLEAN
    /\ running \subseteq Adapters
    /\ cancelled \subseteq Adapters
    /\ loop \in [Adapters -> {"unmade", "open", "sleeping", "playing", "reading",
                              "played", "looping", "exited"}]
    /\ wav \in [Adapters -> [offset : Nat, size : Nat]]
    /\ pushed \in [Adapters -> Seq(Nat)]

\* The worker never loses hold of a replay: the goroutine that plays is that
\* of replayAdapter, so there is one at most, however starts and stops meet.
OneReplay == \A a \in Adapters : Live(a) => replayAdapter = a

\* "Stopped cleanly": when main has stopped the replay, and no request had
\* outlived server.Shutdown, nothing is playing.
CleanShutdown ==
    main = "stopped" /\ ~timedOut => \A a \in Adapters : ~Live(a)

\* The audio of a file: what its data chunk holds, in whole chunks of 20 ms.
Audio ==
    [f \in Files |->
        LET d == CHOOSE i \in DOMAIN f : f[i].id = "data"
        IN  [k \in 1 .. f[d].len \div ChunkBytes |->
                Offset(f, d) + 8 + (k - 1) * ChunkBytes]]

\* Only the audio is played, in order, whatever other chunks the file has;
\* and a pass that nobody interrupts plays all of it.
PlaysTheAudio ==
    [][\A a \in Adapters :
        /\ pushed'[a] # pushed[a] => IsPrefix(pushed'[a], Audio[file])
        /\ loop[a] = "reading" /\ loop'[a] = "played" => pushed[a] = Audio[file]]_vars

\* A request to stop is answered and the worker shuts down, even while the
\* goroutine sleeps after an error, and whoever waits for mu meanwhile.
StopReturns ==
    /\ \A r \in Requests : request[r] = "stop" ~> request[r] = "done"
    /\ main = "shutdown" ~> main = "stopped"
=============================================================================
