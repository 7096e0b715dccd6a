------------------------------ MODULE Pipeline ------------------------------
(***************************************************************************)
(* Pipelines (internal/pipeline/pipeline.go): PushPCM queues a chunk of    *)
(* audio or drops it, one goroutine per pipeline takes chunks, cuts them   *)
(* into 20 ms frames, encodes, packs and publishes these; Stop ends the    *)
(* goroutine.  Here the pipeline the RTP and the replay adapter share;     *)
(* SessionRouter makes one per session.  No pipeline is started twice.     *)
(*                                                                         *)
(* A sample is <<source, n>>, the n-th that a source has produced.  The    *)
(* goroutine holds p.mu while it is "processing", however long Publish     *)
(* takes; PushPCM never takes p.mu.                                        *)
(***************************************************************************)
EXTENDS Naturals, SequencesExt

CONSTANTS
    Pipes,       \* the pipelines there may be
    Sources,     \* who pushes audio
    QueueSize,   \* the capacity of inputChan, 100 in the code
    FrameLen,    \* samples in a frame, 960 in the code
    InRate,      \* the sample rate of the sources
    OutRate,     \* the sample rate of the encoder, 48000 in the code
    MaxChunk,    \* the longest chunk a source produces
    MaxSamples   \* bound: samples the sources produce together

ASSUME PipelineAssumption ==
    /\ QueueSize \in Nat \ {0} /\ FrameLen \in Nat \ {0}
    /\ InRate \in Nat \ {0} /\ OutRate \in Nat \ {0}
    /\ MaxChunk \in Nat /\ MaxSamples \in Nat

VARIABLES
    produced,    \* samples each source has produced
    queue,       \* inputChan
    taken,       \* the chunk the goroutine took from it
    pcmBuf,      \* samples not yet in a frame
    frames,      \* the frames cut so far: [pcm, published]
    loop,        \* where the goroutine is
    stop,        \* how far Stop is
    accepted     \* what the chunks put in the queue resample to, in order

pipeVars == <<queue, taken, pcmBuf, frames, loop, stop, accepted>>

vars == <<produced, pipeVars>>

Each(x) == [i \in Pipes |-> x]

PipelineInit ==
    /\ produced = [s \in Sources |-> 0]
    /\ queue = Each(<<>>)
    /\ taken = Each(<<>>)
    /\ pcmBuf = Each(<<>>)
    /\ frames = Each(<<>>)
    /\ accepted = Each(<<>>)
    /\ stop = Each("no")

-----------------------------------------------------------------------------
\* The next n samples of source s.
Chunk(s, n) == [k \in 1 .. n |-> <<s, produced[s] + k>>]

\* Source s comes up with n samples more.
Produce(s, n) ==
    /\ FoldFunction(+, n, produced) <= MaxSamples
    /\ produced' = [produced EXCEPT ![s] = @ + n]

\* Each chunk is resampled by itself.  An output sample is a weighted mean
\* around the input sample that it is named after here.
Resampled(chunk) ==
    [k \in 1 .. (Len(chunk) * OutRate) \div InRate |->
        chunk[1 + ((k - 1) * InRate) \div OutRate]]

\* A full queue drops the chunk, and an empty chunk is not queued.
Accepts(i, chunk) == chunk # <<>> /\ Len(queue[i]) < QueueSize

PushPCM(i, chunk) ==
    /\ IF Accepts(i, chunk)
       THEN /\ queue' = [queue EXCEPT ![i] = Append(@, chunk)]
            /\ accepted' = [accepted EXCEPT ![i] = @ \o Resampled(chunk)]
       ELSE UNCHANGED <<queue, accepted>>
    /\ UNCHANGED <<taken, pcmBuf, frames, loop, stop>>

-----------------------------------------------------------------------------
Goto(i, label) == loop' = [loop EXCEPT ![i] = label]

\* Start's goroutine enters its select.
Start(i) == Goto(i, "select")

Cancelled(i) == stop[i] # "no"

\* p.mu: the goroutine has it for as long as it processes a chunk.
\* Mutant: Stop has it until the goroutine has returned.
MuFree_HeldByStop(i) == loop[i] # "processing" /\ stop[i] # "waiting"

MuFree(i) == loop[i] # "processing"

\* What the select receives from a queue that is not empty, and leaves there.
Received(q) == Head(q)
Remaining(q) == Tail(q)

\* The select takes a chunk.  When the context is cancelled too, Go picks
\* either case: Take and Exit are then both possible.
Take(i) ==
    /\ loop[i] = "select"
    /\ queue[i] # <<>>
    /\ taken' = [taken EXCEPT ![i] = Received(queue[i])]
    /\ queue' = [queue EXCEPT ![i] = Remaining(@)]
    /\ Goto(i, "taken")
    /\ UNCHANGED <<pcmBuf, frames, stop, accepted>>

\* processChunk gets p.mu, resamples, and appends to what is left over.
Accumulate(i) ==
    /\ loop[i] = "taken"
    /\ MuFree(i)
    /\ pcmBuf' = [pcmBuf EXCEPT ![i] = @ \o Resampled(taken[i])]
    /\ taken' = [taken EXCEPT ![i] = <<>>]
    /\ Goto(i, "processing")
    /\ UNCHANGED <<queue, frames, stop, accepted>>

\* The samples after the first frame, whether or not that could be encoded.
\* Mutant: a frame that fails stays.
Advanced_IfEncoded(buf, ok) ==
    IF ok THEN SubSeq(buf, FrameLen + 1, Len(buf)) ELSE buf

Advanced(buf, ok) == SubSeq(buf, FrameLen + 1, Len(buf))

\* A frame is encoded, packed and published; or Encode fails on it.
Encode(i, ok) ==
    /\ loop[i] = "processing"
    /\ Len(pcmBuf[i]) >= FrameLen
    /\ frames' = [frames EXCEPT ![i] =
                    Append(@, [pcm |-> SubSeq(pcmBuf[i], 1, FrameLen),
                               published |-> ok])]
    /\ pcmBuf' = [pcmBuf EXCEPT ![i] = Advanced(@, ok)]
    /\ UNCHANGED <<queue, taken, loop, stop, accepted>>

\* No whole frame is left: the loop ends and p.mu is released.
\* Mutant: one frame a chunk.
Drained_Once(i) == TRUE

Drained(i) == Len(pcmBuf[i]) < FrameLen

Release(i) ==
    /\ loop[i] = "processing"
    /\ Drained(i)
    /\ Goto(i, "select")
    /\ UNCHANGED <<queue, taken, pcmBuf, frames, stop, accepted>>

\* The select finds the context cancelled.
Exit(i) ==
    /\ loop[i] = "select"
    /\ Cancelled(i)
    /\ Goto(i, "exited")
    /\ UNCHANGED <<queue, taken, pcmBuf, frames, stop, accepted>>

Run(i) ==
    \/ Take(i) \/ Accumulate(i) \/ Release(i) \/ Exit(i)
    \/ \E ok \in BOOLEAN : Encode(i, ok)

-----------------------------------------------------------------------------
\* Stop gets p.mu, cancels the context, lets go of p.mu ...
StopCancel(i) ==
    /\ stop[i] = "no"
    /\ MuFree(i)
    /\ stop' = [stop EXCEPT ![i] = "waiting"]
    /\ UNCHANGED <<queue, taken, pcmBuf, frames, loop, accepted>>

\* ... and waits until the goroutine has returned.
\* Mutant: no wg.Wait.
Returned_Unwaited(i) == TRUE

Returned(i) == loop[i] = "exited"

StopWait(i) ==
    /\ stop[i] = "waiting"
    /\ Returned(i)
    /\ stop' = [stop EXCEPT ![i] = "done"]
    /\ UNCHANGED <<queue, taken, pcmBuf, frames, loop, accepted>>

-----------------------------------------------------------------------------
(***************************************************************************)
(* The pipelines main starts itself.  It starts one, globalPipeline, and   *)
(* gives it to both the RTP and the replay adapter: any source pushes to   *)
(* any of Pipes here.                                                      *)
(***************************************************************************)
Init ==
    /\ PipelineInit
    /\ loop = Each("select")   \* Start has been called

Ingest(i, s) ==
    \E n \in 0 .. MaxChunk : Produce(s, n) /\ PushPCM(i, Chunk(s, n))

Next ==
    \E i \in Pipes :
        \/ \E s \in Sources : Ingest(i, s)
        \/ /\ Run(i) \/ StopCancel(i) \/ StopWait(i)
           /\ UNCHANGED produced

(***************************************************************************)
(* The goroutines are scheduled, and a select with two ready cases picks   *)
(* at random, so it cannot pass over a cancelled context for ever.  Nobody *)
(* has to call Stop or to push anything.                                   *)
(***************************************************************************)
PipeFairness(i) ==
    /\ WF_pipeVars(Run(i)) /\ SF_pipeVars(Exit(i)) /\ WF_pipeVars(StopWait(i))

Spec == Init /\ [][Next]_vars /\ \A i \in Pipes : PipeFairness(i)

-----------------------------------------------------------------------------
Sample == Sources \X (Nat \ {0})

\* The shape of a pipeline's state.
PipelineTypeOK ==
    /\ produced \in [Sources -> Nat]
    /\ queue \in [Pipes -> Seq(Seq(Sample) \ {<<>>})]
    /\ taken \in [Pipes -> Seq(Sample)]
    /\ pcmBuf \in [Pipes -> Seq(Sample)]
    /\ frames \in [Pipes -> Seq([pcm : Seq(Sample), published : BOOLEAN])]
    /\ loop \in [Pipes -> {"unmade", "select", "taken", "processing",
                           "exited"}]
    /\ stop \in [Pipes -> {"no", "waiting", "done"}]
    /\ accepted \in [Pipes -> Seq(Sample)]
    /\ \A i \in Pipes : Len(queue[i]) <= QueueSize

\* The samples of the frames cut so far, and of the chunks queued.
Cut(i) == FlattenSeq([k \in DOMAIN frames[i] |-> frames[i][k].pcm])
Queued(i) == FlattenSeq([k \in DOMAIN queue[i] |-> Resampled(queue[i][k])])

(***************************************************************************)
(* What a pipeline accepts it cuts into frames without losing, repeating   *)
(* or reordering a sample: the frames, what is left over, the chunk in     *)
(* hand and the queue are always all of it, in order.                      *)
(***************************************************************************)
NothingLost ==
    \A i \in Pipes :
        Cut(i) \o pcmBuf[i] \o Resampled(taken[i]) \o Queued(i) = accepted[i]

(***************************************************************************)
(* Between two chunks the goroutine never sits on a whole frame: however   *)
(* many frames a chunk completes, processChunk returns without one.        *)
(***************************************************************************)
NoFrameHeldBack ==
    \A i \in Pipes : MuFree(i) => Len(pcmBuf[i]) < FrameLen

\* Once Stop has returned, the pipeline encodes and publishes nothing.
StoppedIsSilent ==
    [][\A i \in Pipes : stop[i] = "done" => UNCHANGED frames[i]]_vars

(***************************************************************************)
(* Everything accepted is cut into frames but for less than a frame, once  *)
(* the sources stop, if Stop is not called.  Stop abandons what is queued. *)
(***************************************************************************)
AcceptedIsEncoded ==
    \A i \in Pipes :
        [](stop[i] = "no") => <>[](Len(accepted[i]) - Len(Cut(i)) < FrameLen)
=============================================================================
