----------------------------- MODULE RtpAdapter -----------------------------
(***************************************************************************)
(* RTPAdapter (internal/ingestion/rtp.go): the reader goroutines that take *)
(* datagrams from one UDP socket, push them into the shared RedReceiver,   *)
(* and pop, decode, hand on and record whatever is ready; and Stop.        *)
(*                                                                         *)
(* Each goroutine has a pc; a step ends where the code takes or releases a *)
(* lock.  The stream is short enough not to wrap (RedLink covers that), so *)
(* a frame is its own sequence number, and a goroutine may read the        *)
(* stream's packets in any order or never: loss and reordering.            *)
(*                                                                         *)
(* The payload of a raw Opus packet is a slice of its reader's buffer, and *)
(* the next ReadFrom overwrites it; UnpackRED copies.  So a payload is     *)
(* <<"copy", frame>> or <<"slice", goroutine>>.                            *)
(***************************************************************************)
EXTENDS RedReceiver

CONSTANTS
    Workers,       \* the reader goroutines, 4 in the code
    PayloadType,   \* 111 or 112: the stream is raw Opus or RED
    MaxFrames,     \* bound: frames of the stream
    NoFrame        \* a slice nothing was read into, or PCM of a lost frame

ASSUME AdapterAssumption ==
    /\ PayloadType \in {111, 112}
    /\ MaxFrames \in Nat /\ MaxFrames < Half
    /\ MaxFrames * FrameSamples <= TimeMod
    /\ NoFrame \notin Nat
    /\ IsFiniteSet(Workers)

VARIABLES
    unread,      \* frames whose packets no goroutine has read
    pc,          \* where each goroutine is
    buf,         \* the frame in each goroutine's read buffer
    popped,      \* what each goroutine popped: [frame, payload]
    pcm,         \* what it decoded: [frame, heard]
    ingested,    \* what PushPCM got, in order
    stopping,    \* how far Stop is
    recording    \* is the WAV file open?

adapterVars == <<unread, pc, buf, popped, pcm, ingested,
                 stopping, recording>>

vars == <<receiverVars, adapterVars>>

Frames == 0 .. MaxFrames - 1

AdapterInit ==
    /\ ReceiverInit
    /\ unread = Frames
    /\ pc = [w \in Workers |-> "read"]
    /\ buf = [w \in Workers |-> NoFrame]
    /\ popped = [w \in Workers |-> <<>>]
    /\ pcm = [w \in Workers |-> <<>>]
    /\ ingested = <<>>
    /\ stopping = "no"
    /\ recording = FALSE

-----------------------------------------------------------------------------
\* How many frames before f its packet carries.
Redundancy(f) == IF PayloadType = 111 THEN 0
                 ELSE IF f < MaxDepth THEN f ELSE MaxDepth

\* Mutant: UnpackRED returns slices of the packet.
Payload_Sliced(w, g) == <<"slice", w>>

\* The payload of g in the packet in w's buffer.
Payload(w, g) == IF PayloadType = 111 THEN <<"slice", w>> ELSE <<"copy", g>>

\* The packet in w's buffer.
Datagram(w) ==
    LET f == buf[w]
        back(i) == Redundancy(f) + 1 - i
    IN  [SequenceNumber |-> f,
         Timestamp      |-> f * FrameSamples,
         PayloadType    |-> PayloadType,
         blocks         |-> [i \in 1 .. Redundancy(f) + 1 |->
                               [offset |-> back(i) * FrameSamples,
                                data   |-> Payload(w, f - back(i))]]]

\* What a payload holds at the moment it is looked at.
Content(payload) == IF payload[1] = "slice" THEN buf[payload[2]] ELSE payload[2]

Goto(w, label) == pc' = [pc EXCEPT ![w] = label]

\* ReadFrom returns a datagram, in the buffer the goroutine always uses.
\* Bound: MaxPackets of the stream's packets arrive, the others are lost.
Read(w, f) ==
    /\ pc[w] = "read"
    /\ Cardinality(Frames \ unread) < MaxPackets
    /\ stopping \notin {"closed", "done"}
    /\ f \in unread
    /\ unread' = unread \ {f}
    /\ buf' = [buf EXCEPT ![w] = f]
    /\ Goto(w, "check")
    /\ UNCHANGED <<receiverVars, popped, pcm, ingested, stopping, recording>>

\* Mutant: an error does not end the loop.
ReadFails_Continue(w) ==
    /\ pc[w] = "read"
    /\ stopping = "closed"
    /\ UNCHANGED vars

\* ReadFrom fails once Stop has closed the socket.
ReadFails(w) ==
    /\ pc[w] = "read"
    /\ stopping = "closed"
    /\ Goto(w, "exited")
    /\ UNCHANGED <<receiverVars, unread, buf, popped, pcm, ingested,
                   stopping, recording>>

\* A datagram read when the context is already cancelled is not processed.
Check(w) ==
    /\ pc[w] = "check"
    /\ Goto(w, IF stopping = "no" THEN "push" ELSE "exited")
    /\ UNCHANGED <<receiverVars, unread, buf, popped, pcm, ingested,
                   stopping, recording>>

PushPacket(w) ==
    /\ pc[w] = "push"
    /\ Push(Datagram(w))
    /\ Goto(w, "pop")
    /\ UNCHANGED <<unread, buf, popped, pcm, ingested, stopping, recording>>

PopFrame(w) ==
    /\ pc[w] = "pop"
    /\ PopHit
    /\ popped' = [popped EXCEPT ![w] = <<nextSeq, buffer[nextSeq]>>]
    /\ Goto(w, "decode")
    /\ UNCHANGED <<unread, buf, pcm, ingested, stopping, recording>>

PopMark(w) ==
    /\ pc[w] = "pop"
    /\ PopSkip(FALSE)
    /\ popped' = [popped EXCEPT ![w] = <<nextSeq>>]
    /\ Goto(w, "decode")
    /\ UNCHANGED <<unread, buf, pcm, ingested, stopping, recording>>

\* The pop loop ends; the goroutine reads on.
PopNothing(w) ==
    /\ pc[w] = "pop"
    /\ PopNone(FALSE)
    /\ Goto(w, "read")
    /\ UNCHANGED <<unread, buf, popped, pcm, ingested, stopping, recording>>

\* Decode, or DecodeLost for a mark, on the one decoder they share.
Decode(w) ==
    /\ pc[w] = "decode"
    /\ pcm' = [pcm EXCEPT ![w] =
                 <<popped[w][1], IF Len(popped[w]) = 1 THEN NoFrame
                                 ELSE Content(popped[w][2])>>]
    /\ popped' = [popped EXCEPT ![w] = <<>>]
    /\ Goto(w, "hand")
    /\ UNCHANGED <<receiverVars, unread, buf, ingested, stopping, recording>>

\* Mutant: return in place of continue.
DecodeFails_Return(w) ==
    /\ pc[w] = "decode"
    /\ popped' = [popped EXCEPT ![w] = <<>>]
    /\ Goto(w, "read")
    /\ UNCHANGED <<receiverVars, unread, buf, pcm, ingested, stopping,
                   recording>>

\* A frame the decoder rejects is left out, and the loop goes on.
DecodeFails(w) ==
    /\ pc[w] = "decode"
    /\ popped' = [popped EXCEPT ![w] = <<>>]
    /\ Goto(w, "pop")
    /\ UNCHANGED <<receiverVars, unread, buf, pcm, ingested, stopping,
                   recording>>

\* PushPCM: the pipeline's queue takes it (Pipeline models a full one).
Hand(w) ==
    /\ pc[w] = "hand"
    /\ ingested' = Append(ingested, pcm[w])
    /\ Goto(w, "write")
    /\ UNCHANGED <<receiverVars, unread, buf, popped, pcm, stopping,
                   recording>>

\* writePCMToWav opens the file when there is none or two seconds were idle,
\* and os.Create may fail.  What the file holds is left out.
WriteWav(w) ==
    /\ pc[w] = "write"
    /\ recording' \in BOOLEAN
    /\ pcm' = [pcm EXCEPT ![w] = <<>>]
    /\ Goto(w, "pop")
    /\ UNCHANGED <<receiverVars, unread, buf, popped, ingested, stopping>>

\* Stop cancels the context ...
StopCancel ==
    /\ stopping = "no"
    /\ stopping' = "cancelled"
    /\ UNCHANGED <<receiverVars, unread, pc, buf, popped, pcm, ingested,
                   recording>>

\* ... closes the socket ...
StopClose ==
    /\ stopping = "cancelled"
    /\ stopping' = "closed"
    /\ UNCHANGED <<receiverVars, unread, pc, buf, popped, pcm, ingested,
                   recording>>

\* Mutant: no wg.Wait.
StopWait_Not ==
    /\ stopping = "closed"
    /\ stopping' = "done"
    /\ recording' = FALSE
    /\ UNCHANGED <<receiverVars, unread, pc, buf, popped, pcm, ingested>>

\* ... waits for the goroutines, and closes the file.
StopWait ==
    /\ stopping = "closed"
    /\ \A w \in Workers : pc[w] = "exited"
    /\ stopping' = "done"
    /\ recording' = FALSE
    /\ UNCHANGED <<receiverVars, unread, pc, buf, popped, pcm, ingested>>

Work(w) ==
    \/ ReadFails(w) \/ Check(w) \/ PushPacket(w)
    \/ PopFrame(w) \/ PopMark(w) \/ PopNothing(w)
    \/ Decode(w) \/ DecodeFails(w) \/ Hand(w)
    \/ WriteWav(w)

Stop == StopCancel \/ StopClose \/ StopWait

AdapterNext ==
    \/ \E w \in Workers : Work(w) \/ \E f \in Frames : Read(w, f)
    \/ Stop
    \/ stopping = "done" /\ UNCHANGED vars

\* A goroutine that is not blocked in ReadFrom runs, and so does Stop.
AdapterSpec ==
    /\ AdapterInit /\ [][AdapterNext]_vars
    /\ \A w \in Workers : WF_vars(Work(w))
    /\ WF_vars(StopClose \/ StopWait)
-----------------------------------------------------------------------------
\* The shape of the adapter's state.
AdapterTypeOK ==
    /\ ReceiverTypeOK
    /\ unread \subseteq Frames
    /\ pc \in [Workers -> {"read", "check", "push", "pop", "decode", "hand",
                           "write", "exited"}]
    /\ buf \in [Workers -> Frames \cup {NoFrame}]
    /\ \A i \in DOMAIN ingested : ingested[i][1] \in Frames
    /\ stopping \in {"no", "cancelled", "closed", "done"}
    /\ recording \in BOOLEAN

(***************************************************************************)
(* What the pipeline gets for a position is that position's frame, or the  *)
(* concealment of a lost one.  True of a RED stream, whose blocks are      *)
(* copied out of the read buffer; a raw Opus frame that waits behind a gap *)
(* is overwritten by the next datagram its goroutine reads.                *)
(***************************************************************************)
HandedFaithful ==
    \A i \in DOMAIN ingested : ingested[i][2] \in {ingested[i][1], NoFrame}

(***************************************************************************)
(* No position of the stream is handed to the pipeline twice, whatever the *)
(* goroutines' interleaving.                                               *)
(***************************************************************************)
HandedOnce ==
    \A i, j \in DOMAIN ingested :
        ingested[i][1] = ingested[j][1] => i = j

(***************************************************************************)
(* The pipeline gets the frames in sequence ("reorders them, recovers lost *)
(* packets, and outputs them in sequence", red.go:234).  The code pops,    *)
(* decodes and hands on under three separate locks.                        *)
(***************************************************************************)
HandedInOrder ==
    \A i, j \in DOMAIN ingested :
        i < j => ingested[i][1] < ingested[j][1]

(***************************************************************************)
(* No frame is forgotten in the buffer: whenever no goroutine is in its    *)
(* pop loop, the receiver is waiting for a frame it does not hold, and     *)
(* fewer than MaxBufferSize wait behind it.                                *)
(***************************************************************************)
Popping == {w \in Workers : pc[w] \in {"pop", "decode", "hand", "write"}}

RestMeansWaiting ==
    Popping = {} => /\ nextSeq \notin Buffered
                    /\ Cardinality(Buffered) < MaxBufferSize

(***************************************************************************)
(* The buffer is bounded although Push never looks at its size: beyond     *)
(* MaxBufferSize - 1 there is one packet's frames per popping goroutine.   *)
(***************************************************************************)
BufferBounded ==
    Cardinality(Buffered) <
        MaxBufferSize + (MaxDepth + 1) * Cardinality(Popping)

(***************************************************************************)
(* Once Stop has returned the recording is closed and stays closed: no     *)
(* goroutine is left that could create the file anew.                      *)
(***************************************************************************)
StoppedStaysClosed == stopping = "done" => ~ recording

(***************************************************************************)
(* Stop returns, whatever its goroutines were doing when it was called.    *)
(***************************************************************************)
StopReturns == stopping = "cancelled" ~> stopping = "done"
=============================================================================
