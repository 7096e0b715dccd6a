------------------------------- MODULE RedLink ------------------------------
(***************************************************************************)
(* One RTP session end to end: the sender's loop (cmd/sender/main.go), a   *)
(* UDP network, and the receive buffer the reader goroutines push into and *)
(* pop from (internal/ingestion/rtp.go:203-215).  RtpAdapter looks inside  *)
(* the goroutines; here a push or a pop is one step and any goroutine      *)
(* takes it, so pops may come at any time.                                 *)
(*                                                                         *)
(* The network delivers any packet it carries, again and in any order; one *)
(* it never delivers is lost.  Two assumptions about it: a packet is gone  *)
(* once Lifetime newer frames were packed, and the receiver never falls    *)
(* half the sequence space (in the code, 32768 frames, eleven minutes)     *)
(* behind the sender.  Beyond them a 16-bit number is ambiguous.           *)
(***************************************************************************)
EXTENDS RedPacker, RedReceiver

CONSTANTS
    Lifetime,    \* how many frames a packet can be in flight for
    Silence      \* what is played for a concealed frame

ASSUME LinkAssumption ==
    /\ Lifetime \in Nat /\ Lifetime + MaxDepth < Half
    /\ Silence \notin Nat

VARIABLES
    net,        \* the packets in flight
    cursor,     \* the frame nextSeq stands for
    heard,      \* the frames delivered, in time and not yet accounted for
    out         \* what PopNext returned for frame cursor - 1

linkVars == <<net, cursor, heard, out>>

vars == <<packerVars, receiverVars, linkVars>>

\* The frame a packet was made for, and all the frames it carries.
FrameOf(p) == p.blocks[Len(p.blocks)].data
FramesIn(p) == {p.blocks[i].data : i \in DOMAIN p.blocks}

LinkInit ==
    /\ PackerInit
    /\ ReceiverInit
    /\ net = {}
    /\ cursor = 0
    /\ heard = {}
    /\ out = Silence

-----------------------------------------------------------------------------
\* What is still in flight when n frames have been packed.
InFlight(packets, n) == {p \in packets : n - FrameOf(p) <= Lifetime}

(***************************************************************************)
(* An iteration of the sender's loop: pack a frame, then write it to the   *)
(* socket, or drop it when the loss simulation says so.                    *)
(***************************************************************************)
SendFrame(dropped) ==
    /\ sent < MaxFrames
    /\ initialized => sent - cursor < Half
    /\ Pack
    /\ net' = InFlight(IF dropped THEN net ELSE net \cup {Packed}, sent + 1)
    /\ UNCHANGED <<receiverVars, cursor, heard, out>>

\* The sender's feedback goroutine follows a receiver report.  Only a sender
\* with -red, which has a depth, does, and a report never asks for depth 0.
Feedback(d) ==
    /\ depth # 0
    /\ d # 0
    /\ SetDepth(d)
    /\ UNCHANGED <<receiverVars, linkVars>>

\* A datagram reaches a reader goroutine.  It may come again.
Deliver(p) ==
    /\ PacketsReceived < MaxPackets
    /\ Push(p)
    /\ cursor' = IF initialized THEN cursor ELSE FrameOf(p)
    /\ heard' = heard \cup {f \in FramesIn(p) : f >= cursor'}
    /\ UNCHANGED <<packerVars, net, out>>

\* PopNext(false), the only form the adapter uses, returns a frame ...
PopFrame ==
    /\ PopHit
    /\ out' = buffer[nextSeq]
    /\ cursor' = cursor + 1
    /\ heard' = heard \ {cursor}
    /\ UNCHANGED <<packerVars, net>>

\* ... or a mark for one that is skipped, which is concealed.
PopMark ==
    /\ PopSkip(FALSE)
    /\ out' = Silence
    /\ cursor' = cursor + 1
    /\ heard' = heard \ {cursor}
    /\ UNCHANGED <<packerVars, net>>

Pop == PopFrame \/ PopMark

\* PopNext has nothing to return, and every frame has been packed or the
\* next would be outside the assumption.
Done ==
    /\ sent = MaxFrames \/ (initialized /\ sent - cursor >= Half)
    /\ PopNone(FALSE)
    /\ UNCHANGED <<packerVars, linkVars>>

\* Every step but a delivery.
Unheard ==
    \/ \E dropped \in BOOLEAN : SendFrame(dropped)
    \/ \E d \in Depths : Feedback(d)
    \/ Pop
    \/ Done

LinkNext == (\E p \in net : Deliver(p)) \/ Unheard

\* A reader goroutine pops until PopNext returns nothing.
LinkSpec == LinkInit /\ [][LinkNext]_vars /\ WF_vars(Pop)

-----------------------------------------------------------------------------
\* The shape of the state this module adds.
LinkTypeOK ==
    /\ PackerTypeOK
    /\ ReceiverTypeOK
    /\ cursor \in Nat
    /\ heard \in SUBSET Nat
    /\ out \in Nat \cup {Silence}

\* The frames in the buffer.
BufferedFrames == {buffer[s] : s \in Buffered}

(***************************************************************************)
(* The buffer holds the frames heard and not yet accounted for, no others, *)
(* and each under the number whose distance from nextSeq is its distance   *)
(* from the cursor: no wrap, duplicate, late or overtaking packet puts a   *)
(* frame under another's number or replaces it.                            *)
(***************************************************************************)
BufferFaithful ==
    /\ BufferedFrames = heard
    /\ \A s \in Buffered : buffer[s] = cursor + SeqDiff(s, nextSeq)

(***************************************************************************)
(* The sequence number the receiver waits for is the cursor's: sender and  *)
(* receiver count the same frames, over wraps and skipped gaps.            *)
(***************************************************************************)
CursorAgrees ==
    initialized =>
        /\ cursor <= sent
        /\ sent - cursor <= Half
        /\ nextSeq = SeqDiff(packSeq, sent - cursor)

(***************************************************************************)
(* What the receiver does is what Playout promises.                        *)
(***************************************************************************)
Promise == INSTANCE Playout WITH started <- initialized, pos <- cursor,
                                 known <- heard, concealed <- PacketsLost

ImplementsPlayout == Promise!PlayoutSpec

(***************************************************************************)
(* With MaxBufferSize frames waiting, playout moves on: a gap at the head, *)
(* however long, cannot hold it back, nor can packets that keep coming.    *)
(***************************************************************************)
Overfull == Cardinality(Buffered) >= MaxBufferSize

OverfullMovesOn ==
    \A f \in 0 .. MaxFrames : Overfull /\ cursor = f ~> cursor > f
=============================================================================
