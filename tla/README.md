# Verification of the voice ingestion worker

TLA+ models of the voice ingestion worker and its UDP sender, the TLC runs
that check them on small instances, and TLAPS proofs of the results that hold
for every size. All line numbers are those of the source tree.

## The system

The worker (`cmd/worker`) takes audio from WebSocket clients, RTP senders and
a WAV file, cuts it into 20 ms Opus frames with RFC 2198 redundancy, and
publishes these on NATS, where recorder, STT and analytics services read
them. The sender (`cmd/sender`) is the other end of an RTP stream.

| Component | State | Operations | Interacts with |
|---|---|---|---|
| RED packer, `internal/pipeline/red.go` 24-143 | depth, history, next number and timestamp | `Pack`, `SetDepth`, `Reset` | the sender's loop and its feedback goroutine; one per pipeline |
| RED receiver, `red.go` 233-399 | buffer by sequence number, `nextSeq`, `initialized`, counters | `Push` (with `UnpackRED`, `insert`), `PopNext`, `Reset` | the RTP adapter's goroutines |
| Sender, `cmd/sender/main.go` | packer, socket | the packing loop, the feedback goroutine | UDP both ways |
| RTP adapter, `internal/ingestion/rtp.go` | socket, receiver, decoder, recording, client address | `Start`, `Stop`, four `readLoop` goroutines | receiver, feedback engine, the global pipeline |
| Feedback engine, `internal/rtcp/rtcp.go` | last number, received, lost, recommended depth | `RecordArrival`, `GenerateReport` | adapter; its reports change the sender's depth |
| Pipeline, `internal/pipeline/pipeline.go` | queue of 100 chunks, leftover samples, goroutine, context | `PushPCM`, `Start`, `Stop`, `run` | adapters or router push; publishes to the bus |
| Session router, `internal/router/router.go` | map from session to pipeline | `RouteChunk`, `Close` | WebSocket handlers, pipelines |
| WebSocket adapter, `internal/ingestion/websocket.go` | running, context | `Start`, `Stop`, a handler per connection | router |
| Replay adapter, `internal/ingestion/replay.go` | running, context, file position | `Start`, `Stop`, `replayLoop`, `parseWavHeader` | the global pipeline; the worker's endpoints |
| Event bus, `internal/bus/nats.go` | mutex, closed, subscriptions; the server's groups | `Publish`, `Subscribe`, `Close` | pipelines publish, services subscribe |
| Services, `cmd/*_service` | counters, a WAV file | a callback per message, saving after a signal | bus |
| Local recorder, `cmd/worker/main.go` 425-534 | a WAV file and its mutex | `startLocalRecorder`, `closeLocalRecorder` | bus |
| Slow consumer, `cmd/worker/main.go` 536-634 | queue, dropped, context | start and stop from the dashboard, handler, reader | bus |
| Worker main, `cmd/worker/main.go` | global pipeline, adapters, the replay there is | start-up, HTTP endpoints, shutdown | all of the above |

What makes it hard, and what has to hold:

- *Wrap-around.* 16-bit sequence numbers, 32-bit timestamps and 14-bit
  offsets decide what is old. No frame may be put under another's number.
- *The network.* Packets are lost, duplicated and reordered; every packet
  carries up to three older frames again. Playout must be the stream, in
  order, with gaps concealed and nothing played twice.
- *Four goroutines on one socket*, popping from one buffer under one lock,
  decoding under another, handing on under none.
- *The feedback loop* changes the sender's redundancy while it packs.
- *Queues that drop* and goroutines that hold a lock while they publish:
  nothing accepted may be lost, repeated or reordered, and `Stop` must return.
- *Shutdown* with handlers nobody waits for.
- *A bus whose lock is held* while it waits for the network, and consumers
  whose membership of a group begins and ends at the server, not at the call.
- *Files with one position and two writers*, and queues that are replaced
  while goroutines of the one before still use them.
- *HTTP requests that meet*, and meet the shutdown, under one global lock.

Every hazard, at its line, is in `PROJECT.json` with the properties that watch
it, or a note why none does.

## Modules

```
SeqArith <- RedFormat <- RedPacker   <-+
                      <- RedReceiver <-+- RedLink <- RedRecovery
                              ^             |     <- RedSessions
                              |             +- implements Playout
                          RtpAdapter
SeqArith <- RtcpEngine <- RtcpLoop
Pipeline <- SessionRouter
Bus, WavFile <- Recorder
SlowConsumer
WavHeader <- Replay
```

An `MC` module beside a specification is what TLC runs; a `_proofs` module
holds its theorems. `RedReceiver_proofs` has those about RedFormat too,
`RedLink_proofs` those about RedPacker and RedRecovery, and
`SessionRouter_proofs` those about Pipeline. An operator whose comment begins with "Mutant" is a
plausible bug in the operator that follows it; it is used nowhere, and each
property is known to fail when the operator is put in that one's place.

**SeqArith, RedFormat.** The `uint16` arithmetic over a parameter `Half`
(32768 in the code), `seqBefore`, the 14-bit offset, and the sequence number
that `Push` computes for a block from two timestamps. A packet is a record
with a list of blocks, each an offset and a frame; bytes and block lengths are
abstracted.

**RedReceiver.** Every method runs under `r.mu` and is one action: `Push` is
the whole of lines 258-324, and the three returns of `PopNext` are the actions
`PopHit`, `PopSkip` and `PopNone`. `ReceiverSpec` lets any packet arrive at
any time.

**RedPacker.** `Pack`, `SetDepth` and `Reset`; a payload is the number of its
frame.

**Playout.** The abstract promise of red.go:234: playout visits every position
once and in order, a frame heard in time is played at its own position, and
only a position of which nothing was heard is concealed.

**RedLink.** Sender, network and receive buffer. The network is the set of
packets in flight; each is delivered any number of times, in any order. Two
assumptions bound it: a packet is gone once `Lifetime` newer frames were
packed, and the receiver never falls half the sequence space behind (32768
frames, eleven minutes). Without them a 16-bit number does not determine a
frame, and no receiver could do it. `Done` lets the model idle at these bounds.
The mapping to `Playout` takes `initialized` for `started`, the frame that
`nextSeq` stands for (`cursor`) for `pos`, and `PacketsLost` for `concealed`.
`cursor`, `heard` and `out` only record.

**RedRecovery, RedSessions.** RedLink with an observer of the frames that the
recovery counter counts, and with a second run of the sender that starts again
at number 0 while the receiver keeps its state.

**RtpAdapter.** The goroutines of `readLoop`, each with a pc. A step ends
where the code takes or releases a lock, so read, context check, push, pop,
decode, hand-over and recording interleave freely. The read buffers are
modelled, since the payload of a raw packet is a slice of one (rtp.go:188) and
`UnpackRED` copies. `Stop` is three actions: cancel, close, wait and close the
recording. The recording is open or closed; `WriteWav` may open, keep or (after
a failed `os.Create`) leave it closed.

**RtcpEngine, RtcpLoop.** The loss counter and the depth it recommends; the
way of a report back to the packer, with lost and overtaken reports. A report
is generated when a number divisible by `ReportEvery` arrives, by that
goroutine, so other arrivals may come first.

**Pipeline.** The queue, the goroutine of `run` and `Stop`. The goroutine is
in its `select`, has `taken` a chunk, is `processing` (it holds `p.mu` then)
or has `exited`. A sample is named after its source and number, and an output
sample of the resampler after the input sample it is centred on, so that the
model sees the resampled length as well as order and repetition. `Encode` may
fail. Publishing takes any time. `Init` and `Next` are the pipeline(s) that
main starts itself. `produced` and a sample's number are plain numbers, so
that a bound on the audio (`MaxSamples`) is a guard only.

**SessionRouter.** WebSocket handlers, `RouteChunk`, `Close` and the pipelines
of Pipeline. What happens under `r.mu` in `RouteChunk` is one action; the push
after the unlock is another. `Close` holds `r.mu` from `CloseLock` to
`CloseUnlock` and stops the workers one at a time, in any order. Main calls
the adapter's `Stop` before `Close`; neither waits for handlers.

**Bus.** One `NATSBus` per process. A call of `Subscribe` has the mutex from
`Subscribe` to `Subscribed` or `FlushFails`; in between only the server moves.
The client and the server are external, and what the code relies on is
modelled: a connection is read in order, so `PING` is answered after `SUB`;
one member of each group is given each message; callbacks of a subscription
come one at a time; `Drain` only begins to unsubscribe. Topics are abstracted,
as every consumer of media subscribes to `media.session.*`. A process may end
(`Exit`) at any point. `due` and `given` only record.

**WavFile, Recorder.** A recording is a list of cells with one position that
all writers share, and each system call is a step. A recorder is *guarded*
when a mutex is held from `Stat` to `CloseFile` and around `WriteAudio`, which
is the worker's; the recorder service has none, and closes its bus before its
file where the worker does the opposite. `decoded` only records.

**SlowConsumer.** Each start is a generation with a queue, a context, a reader
and a handler. Handler and readers look at `slowQueue` anew for every
operation, so that those of a stopped generation meet nil or the queue of the
next. The `select` with a default is one step, the eviction, its counting and
the second send are three more. `handled` and `taken` only record.

**WavHeader, Replay.** What `parseWavHeader` makes of a file, given as its
list of chunks (`WellFormed` says which files it is known to read right), and
the goroutine that plays it: a step ends wherever the code
takes a lock, sleeps or waits. The endpoints run under the worker's `mu`
(`handleReplayStop` keeps it while it waits for the goroutine); `main` goes
through `server.Shutdown` and stops what it finds. `a.mu` is never held across
a step; the mutant of `AMuFree` is a `Stop` that does.

## Runs

| Run | Shows | Bounds |
|---|---|---|
| codec | `NoStrandedPacket`; `HistoryRecent`, `WireFaithful` | the receiver against any packet: numbers modulo 8, buffer 2, three blocks a packet, four packets fill the buffer, straddle a wrap and reach past half the space. The packer: depths 0-2, 24 frames are three wraps of the number, one of the timestamp |
| link | `BufferFaithful`, `RecoveredOnce`, `ImplementsPlayout`, `OverfullMovesOn` | ten frames modulo 10, three frames a packet, buffer 3, five deliveries: packing and playout both cross a wrap |
| adapter | `HandedFaithful`, `HandedOnce`, `RestMeansWaiting`, `BufferBounded`, `StoppedStaysClosed`, `StopReturns` | two of the four goroutines, three of four packets in any order, buffer 2 |
| rtcp | `ExactInOrder`, `LossNotUnderstated`, `ModeKept` | nine packets modulo 8, six arrivals, a report every third number |
| pipeline | `NothingLost`, `NoFrameHeldBack`, `StoppedIsSilent`, `AcceptedIsEncoded` | two sources of six samples together, chunks of up to three, frames of 2, queue of 2, rates 2 to 3: a chunk gives no, one or two frames |
| router | `SessionsIsolated`, `OneWorkerPerSession`, `ConnectionInOrder`, `CloseReturns` | two connections, of two calls or of one; two pipelines, three samples, a queue of one so that it drops |
| recorder | `OncePerGroup`, `FailedIsSilent`, `BusComesFree`; `RecordingWhole` | the worker with its recorder and one service of a group, another process with the group's second member, two messages: each can come before, between and after the subscriptions, fail to be decoded, and find the file being closed |
| slow | `OnlyOldestDropped`, `HandlerReturns`, `ReaderEnds` | two generations, so that one meets the other's queue; a queue of two and three messages, so that it overflows |
| replay | `OneReplay`, `CleanShutdown`, `PlaysTheAudio`, `StopReturns` | three requests of either kind and the shutdown, two adapters; five files with every layout the scan tells apart, four-byte chunks |

The runs `adapter`, `router`, `recorder`, `slow` and `replay` check their
module's type invariant as well. `ConnectionInOrder` has no sample before one that was sent earlier, and,
where the resampler does not make several samples of one, none twice. Two or
three of a kind are enough because no rule in the code depends on more than
that many at once: a frame, its wrap-around neighbour and a third that
overtakes; a goroutine and one that passes it. Deadlock is not checked where
all packets may have been sent, all connections be gone, all messages
published or all requests answered: `rtcp`, `router`, `recorder`, `slow` and
`replay`. The router's instance has as many pipelines as calls, so a chunk
routed after `Close` finds one to be made only if a call had none before.

What some of them say:

- `OncePerGroup` is why `Subscribe` flushes: without it, a message published
  by another process after `Subscribe` returned may find no member. It speaks
  of what the server gives, since a member that failed or died keeps what it
  was given to itself.
- `RecordingWhole` is of the guarded recorder. The file closes before the bus
  is drained, so frames decoded later are missing at its end, and none inside.
- `FailedIsSilent` rests on the client library, which discards what it has
  received for a subscription that is taken back.
- `OnlyOldestDropped` is of the first generation until anything is stopped, as
  a stopped one's reader may still take from the next one's queue. Whichever
  of the reader and the handler is first at a full queue, the newest message
  stays.
- `CleanShutdown` excepts the request that outlives `server.Shutdown`'s five
  seconds: one that starts a replay then plays on while main ends.

Three further runs check a statement of a document or comment that the code
does not keep. TLC's counterexample is the evidence; each is listed with its
quotation in `PROJECT.json`.

| Run | Statement | What happens |
|---|---|---|
| sessions | README.md:153 | a second run of the sender is taken for old packets and discarded |
| adapter_order | "outputs them in sequence", red.go:234 | two goroutines that popped in order hand over out of order |
| recorder_service | "with actual written length", recorder_service/main.go:139 | the callback writes between main's `Stat`, `Seek` and `Write`: wrong sizes, or audio in the header |

Further places where code and documents part, noted while modelling and not
checked by a run:

- The payload of a raw Opus packet is a slice of its reader's buffer
  (rtp.go:188): while it waits behind a gap, the next datagram overwrites it.
  With `PayloadType` 111 TLC finds `HandedFaithful` violated.
- A gap right behind number 0, with which every stream starts, is not counted
  (rtcp.go:58-59); `ExactInOrder` and `LossNotUnderstated` except it.
- The RTP and the replay adapter share the global pipeline, past the router,
  and frames hold samples of both (main.go:102, 376; decision_log.md:13,
  README.md:30).
- A handler that routes after `Close` makes a worker that nobody stops
  (router.go:70, 78).
- The slow consumer's `Stop` logs that the subscription has stopped
  (main.go:630), but it stays: each stopped generation still takes its share
  of the group's messages and ignores it.
- Consumers have no queue of their own that drops the oldest (README.md:95),
  but the simulated one: callbacks come one at a time, so the services'
  limits on concurrency (recorder_service/main.go:83) are never reached.
- A chunk of odd length has a pad byte, which the scan of a WAV header does
  not skip (replay.go:256, 266), and the last 20 ms are dropped unless whole.
- Without a clock, frames behind a gap at the end of a stream are never played
  (red.go:346; retrospective.md:31 has "a strict time-bound window").
- `PacketsRecovered` counts frames that were only overtaken, and misses those
  recovered across the wrap, as red.go:299 compares with `<` (red.go:297-298
  says what is counted was lost).
- Overtaken packets stay counted as lost (rtcp.go:62 calls them dropped).
- Each chunk loses a fraction of a sample when it is resampled
  (polyphase.go:35; decision_log.md:67 has "continuous, phase-coherent").
- A handler blocked in `ReadMessage` does not notice `Stop` (websocket.go:54).
- Connections without a session_id share a pipeline, and frames
  (websocket.go:129; decision_log.md:13).

### Fairness

- `RedLink`, `RedRecovery`: weak fairness of popping. The adapter pops in a
  loop until `PopNext` returns nothing, after every push. Nothing is assumed
  of the sender, the network or reports.
- `RtpAdapter`: weak fairness of each goroutine outside `ReadFrom`, and of
  `Stop` once called. No datagram need come.
- `Pipeline`: weak fairness of the goroutine and of `Stop`'s wait; strong
  fairness of `Exit`, because Go's `select` picks at random among the ready
  cases and so cannot pass over a cancelled context for ever while chunks
  keep coming. Nobody need push or call `Stop`.
- `SessionRouter`: the same, and each handler outside `ReadMessage`, and
  main's shutdown once it has begun. Clients may be silent for ever.

- `Recorder`: weak fairness of `Subscribe`'s return, which the flush's five
  seconds enforce whatever the server does. Nothing is assumed of the server,
  callbacks, publishers, signals or `Close`.
- `SlowConsumer`: weak fairness of the handler between its call and its
  return, and of the reader between its selects; strong fairness of leaving,
  as for `Exit` of the pipeline. No message need come or be taken.
- `Replay`: weak fairness of goroutines (tickers and sleeps end), of requests
  under way, and of the shutdown once it has begun. No request or signal need
  come.

## Proofs

Every invariant and every action property that a passing run checks is a
theorem; the runs show it on small instances, the theorems for every value of
the constants. Liveness is checked by TLC only.

The proofs hold for every width, depth, buffer and queue size, sample rate,
frame length, number of packets, goroutines, connections, pipelines,
processes, subscriptions, generations, requests and files, under the
assumptions beside the constants:

- `Half > 1`; a timestamp range wider than an offset; `MaxDepth <= 17` and
  below `Half`, as 14 bits hold the offset of 17 frames; a buffer of at least
  one; `Lifetime + MaxDepth < Half`; sets of goroutines and of subscriptions
  that are finite.
- `PipelineAssumption`, `SlowAssumption`: queues, frames and rates are at least
  one, as in the code. `RouterAssumption`: the markers for "no pipeline" and
  "no session_id" are not a pipeline and not "websocket".
- `ReplayAssumption`: the files are `WellFormed`: one data chunk, behind a fmt
  chunk; chunks before it of even length, as the scan skips no pad byte; a data
  size that is right, or 0 in a recording that was never closed, which then
  ends the file. So an empty data chunk with others behind it is excepted: the code takes the rest
  of the file for audio then.

The bounds `MaxFrames`, `MaxPackets`, `MaxPublished`, `MaxSamples`, `MaxStarts`
and `MaxMessages` are arbitrary, but for the adapter's: its stream is shorter
than `Half` and its timestamps do not wrap. (Of a stream of `Half` frames and
one more, a packet that comes first could be followed by one exactly `Half`
before it, which `seqBefore` does not take for old.)

- **ReceiverSafe**: `ReceiverTypeOK`, `NoStrandedPacket` and `IdleIsEmpty` of
  `ReceiverSpec`. Their conjunction is inductive. The one step with content is
  a pop: a number that is not before `nextSeq` and differs from it is not
  before its successor, over the wrap, and conversely what is exactly half the
  space ahead stays so (`RedReceiver_proofs`).
- **PackerSafe**, **HistoryStaysRecent**: `PackerTypeOK`, `HistoryRecent` and `WireFaithful` of
  `PackerSpec`. `HistoryRecent` is the inductive part; it puts the i-th last
  entry i numbers, 960 i ticks and i frames back. `WireFaithful` follows from
  it: a difference of up to 17 frames survives 14 bits, and its quotient by
  960 is subtracted again modulo the width.
- **LinkSafe**: `LinkTypeOK`, `BufferFaithful` and `CursorAgrees` of
  `LinkSpec`. They are not inductive without knowing what is in flight.
  `LinkInv` adds that every packet in the network decodes to its own frames
  (`NetDecodable`: its number is the sender's minus its age, each block's
  likewise), that its age is at most `Lifetime`, and the packer's own
  invariant. From it a block's signed distance from `nextSeq` is its frame's
  from `cursor`, which is what makes `seqBefore` right.
- **LinkImplements**: `LinkSpec => ImplementsPlayout`. A first delivery is
  `Begin`, a later one `Hear` or a stutter, the two pops are `Play` and
  `Conceal`, everything else stutters; `BufferFaithful` turns "is nextSeq in
  the buffer" into "was the frame heard".
- **CountedOnce** of `RecoverySpec`. `RecoveryInv` adds to `LinkInv` that every
  frame counted was either played or is in the buffer, so that a packet that
  brings it again finds it old or present.
- **HandedOnceAlways**, **CopiedIsFaithful** of `AdapterSpec`, the second with
  `PayloadType = 112`. `HandedInv` follows each position: what a goroutine has
  between pop and hand-over, and what was handed on, are different positions,
  all before `nextSeq`, and nothing in the buffer is. A pop takes `nextSeq`
  itself, so its position is new; a first packet moves `nextSeq` while nobody
  has anything. For the second, what is in the buffer, popped and decoded is
  the position's own copy.
- **NothingForgotten**, **BufferStaysBounded** of `AdapterSpec` rest on one
  fact (`PoppingAfter`): whoever pushed is in its pop loop, and only
  `PopNothing`, which found the buffer below its limit, leaves it. A datagram
  inserts at most `MaxDepth + 1` frames (`InsertsFew`).
- **StoppedForGood**, **AdapterTyped** of `AdapterSpec`: after `Stop` every
  goroutine is at its end, where it has no step.
- **LossCounted**, **ExactStaysInOrder** of `LoopSpec`, for `LossNotUnderstated` and `ExactInOrder`.
  `LossInv` ties `lastSeq` to the last arrival and the count to the holes
  behind the newest one, the gap behind number 0 excepted. As
  `Lifetime < GapLimit`, what the engine makes of two numbers is what lies
  between their packets, over any number of wraps (`GapIs`).
- **ModeStays** and **LoopTyped** of `LoopSpec`, from `ModeInv`: no report that
  recommends depth 0 is generated or under way.
- **BusSafe** and **FailedStaysSilent** of Recorder's `Spec`. `BusInv` follows
  a message from `Publish` to the callback: on a connection it is new to the
  server and there once (`UnderWay`), due only to those whose `Subscribe` has
  returned, given to one member of each group it is due to, and in a handler's
  queue or history at most once (`BoxFaithful`).
- **RecordingStaysWhole**, if `Recorders = Guarded`. `FilesInv` says where
  each writer is in the file, and what the header says, at every system call
  between taking and releasing the mutex. For the recorder service, which has
  none, the run `recorder_service` refutes it.
- **RecorderTyped** of Recorder's `Spec`, recorders without a mutex included.
  Without one, the callback's audio and main's sizes go where the other left
  the position. `Tally` bounds the file all the same, by the pieces that were
  written: there is one less when audio was written over the header and main's
  next size may come at the end.
- **NothingIsLost**, **NoFrameStays**, **StoppedStaysSilent** and
  **PipelineTyped** of Pipeline's `Spec`. `PipeInv` says of each pipeline that
  frames, leftover, chunk in hand and queue make up what was accepted; that the
  leftover is shorter than a frame unless the goroutine is cutting; that a chunk
  is in hand only before it is resampled; and that after `Stop` the goroutine is
  gone. `Spec => []NothingLost` is about concatenations of sequences of
  sequences, `FlattenSeq`, which is a recursive function: two solutions of its
  equation agree, since there is no least number at which they do not (`Least`).
- **SessionsStayApart**, **OneWorkerAlways**, **OrderKept**, **RouterTyped** of
  `RouterSpec`. `RouterInv` adds to `PipeInv`: what a pipeline has or will get
  from a handler that has looked it up (`Reaches`) is of one call, that of the
  map if the map still has it (`Apart`); every pipeline that runs is in the
  map (`Live`); a chunk in hand is the newest its connection produced
  (`Newest`), and a pipeline has nothing newer than that (`Ordered`), so that
  what it gets next is behind what it has.
- **RoutedNothingLost** of `RouterSpec`: the two invariants of the pipelines
  hold under the router as they do alone, as `PipeInv` is part of `RouterInv`.
- **OnlyOldestIsDropped**, **SlowTyped** of SlowConsumer's `Spec`. While nothing
  was cancelled there is one generation, and what was taken, is queued, in hand
  and in the inbox is one rising sequence (`Whole`), whatever its reader takes
  between the handler's steps. That a handler between its two sends
  finds room is the part that makes the newest stay. For the type of
  `slowDropped` every message that is dropped is charged to one that was
  published: the places that hold a message not yet taken or counted, in any
  generation, are a finite set (`InFlight`), and a step that counts empties one.
- **ReplaySafe**, **ShutsDownCleanly** of Replay's `Spec`, for `OneReplay` and
  `CleanShutdown`: they are inductive with the shape of the state and with
  `HandlersDone`, that nobody is in a handler once `server.Shutdown` has
  returned in time.
- **ParserFindsData**: for every well-formed file, with any number of
  chunks, what `parseWavHeader` returns is where the data begins and the size
  it states; and the file has the 44 bytes it asks for. `Offset` and `Scan` are recursive functions; their equations are
  shown to have a solution, by induction over sets of numbers (`Inductive`),
  and the scan is followed from chunk to chunk: each begins behind the one
  before, so no header is read in the middle of another.
- **AudioIsPlayed**, **ReplayTyped** of Replay's `Spec`, for `PlaysTheAudio`, an
  action property. By `PlayInv`, a goroutine that plays has pushed the first
  chunks of the audio and its position is behind them; by ParserFindsData the
  next read succeeds exactly if there is one more.

Only model-checked: liveness, which the provers here cannot do under fairness
(`OverfullMovesOn`, the adapter's and the replay's `StopReturns`,
`AcceptedIsEncoded`, `CloseReturns`, `BusComesFree`, `HandlerReturns`,
`ReaderEnds`); and the three statements the code does not keep.

The library's induction theorems take a predicate as a parameter, which no
prover here can instantiate. Where an induction is needed, it is over a set of
numbers given as such (`Least`, `Inductive`).

## Not modelled

- Raw PCM payloads (types 96 and 97), RTP header parsing and the contents of
  recordings; two senders at once on the RTP port.
- Block lengths: a frame over 1023 bytes breaks the 10-bit field
  (red.go:111), which takes a bit rate over 400 kbit/s.
- `Start` and `Stop` of an adapter or pipeline more than once: the program
  makes a new replay adapter every time and never restarts the others.
- Jitter in the feedback engine, which nothing reacts to, and `RecordLoss`,
  which nothing calls.
- Telemetry: counters, `/api/status`, the metrics topic, the latencies.
- main's `slowCancel` (worker/main.go:157-162), right before the process ends.
- The crash simulation, a callback that panics and recovers.
- Reconnection of the NATS client, its limit on pending messages, and what a
  `Drain` handles between `Close` and the end of the process: callbacks may
  come or not.
- The sender's own copy of the header scan, and odd sizes in WAV files.
- The codec and the resamplers' arithmetic.

## Plan

1. Done: the RED format, packer, receiver and link with `Playout`; the
   adapter; the feedback loop; pipeline and router; the bus with the
   recorders; the slow consumer; the replay adapter with its endpoints and
   the shutdown.
2. The recording of the RTP adapter: which file has which stream's audio when
   runs follow each other; raw PCM payloads.
3. Proofs: every invariant and action property is proved. Next the same for
   what item 2 brings, and the adapter's stream without its bound of `Half`.
