------------------------------ MODULE Playout -------------------------------
(***************************************************************************)
(* What the RTP ingestion promises the decoder, whatever the network does  *)
(* ("reorders them, recovers lost packets, and outputs them in sequence",  *)
(* internal/pipeline/red.go:234): playout visits every position of the     *)
(* stream once and in order; the frame of a position that was heard in     *)
(* time is played there, itself and unaltered; only a position of which    *)
(* nothing was heard is concealed, and only when something beyond it was.  *)
(***************************************************************************)
EXTENDS Naturals

CONSTANT Silence    \* no frame: asks the decoder to conceal one

VARIABLES
    started,     \* has anything been heard?
    pos,         \* the position to play next
    known,       \* the frames heard, in time and not yet played
    out,         \* what the decoder got for position pos - 1
    concealed    \* how many positions were concealed

playoutVars == <<started, pos, known, out, concealed>>

\* What may be heard at pos: any frames, but none that is already past.
Upcoming(frames, p) == frames \in SUBSET Nat /\ \A f \in frames : f >= p

PlayoutInit ==
    /\ started = FALSE
    /\ pos \in Nat
    /\ known = {}
    /\ out = Silence
    /\ concealed = 0

\* The first frame heard decides where playout starts.
Begin ==
    /\ ~ started
    /\ started' = TRUE
    /\ pos' \in Nat
    /\ pos' \in known'
    /\ Upcoming(known', pos')
    /\ UNCHANGED <<out, concealed>>

Hear ==
    /\ started
    /\ known \subseteq known'
    /\ Upcoming(known', pos)
    /\ UNCHANGED <<started, pos, out, concealed>>

Play ==
    /\ started
    /\ pos \in known
    /\ known' = known \ {pos}
    /\ out' = pos
    /\ pos' = pos + 1
    /\ UNCHANGED <<started, concealed>>

Conceal ==
    /\ started
    /\ pos \notin known
    /\ known # {}
    /\ out' = Silence
    /\ concealed' = concealed + 1
    /\ pos' = pos + 1
    /\ UNCHANGED <<started, known>>

PlayoutNext == Begin \/ Hear \/ Play \/ Conceal

PlayoutSpec == PlayoutInit /\ [][PlayoutNext]_playoutVars
=============================================================================
