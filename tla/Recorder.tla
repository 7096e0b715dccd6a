------------------------------- MODULE Recorder -------------------------------
(***************************************************************************)
(* The recorders on the bus: the worker's own (startLocalRecorder and      *)
(* closeLocalRecorder in cmd/worker/main.go), whose file a mutex guards,   *)
(* and the recorder service (cmd/recorder_service/main.go), whose file     *)
(* nothing does.  Each is a subscription whose callback decodes a message  *)
(* and appends it to a WAV file, while main, after a signal, completes the *)
(* header and closes file and bus.  Subscriptions that are no recorder are *)
(* services that only count.                                               *)
(***************************************************************************)
EXTENDS Bus, WavFile

CONSTANTS
    Recorders,   \* the subscriptions that record
    Guarded      \* those whose file has a mutex: the local recorder

ASSUME RecorderAssumption == Recorders \subseteq Subs /\ Guarded \subseteq Recorders

VARIABLES
    wav,         \* each recorder's file
    callback,    \* the message each callback is about to write, or 0
    main,        \* how far main is with each file
    stat,        \* the size that Stat told it
    decoded      \* the messages each callback has decoded

recorderVars == <<wav, callback, main, stat, decoded>>
vars == <<busVars, recorderVars>>

RecorderInit ==
    /\ BusInit
    /\ wav = [r \in Recorders |-> NewFile]
    /\ callback = [r \in Recorders |-> 0]
    /\ main = [r \in Recorders |-> "running"]
    /\ stat = [r \in Recorders |-> 0]
    /\ decoded = [r \in Recorders |-> <<>>]

Alive(s) == BusOf[s] \notin exited

-----------------------------------------------------------------------------
\* The callback of a subscription that records nothing.
Count(s) ==
    /\ s \notin Recorders
    /\ Called(s)
    /\ UNCHANGED recorderVars

\* The callback of a recorder: the primary frame of the message is decoded ...
Decode(r) ==
    /\ callback[r] = 0
    /\ Called(r)
    /\ callback' = [callback EXCEPT ![r] = Head(inbox[r])]
    /\ decoded' = [decoded EXCEPT ![r] = Append(@, Head(inbox[r]))]
    /\ UNCHANGED <<wav, main, stat>>

\* ... or cannot be ...
DecodeFails(r) ==
    /\ callback[r] = 0
    /\ Called(r)
    /\ UNCHANGED recorderVars

\* The recorder's mutex, which main has from Stat to Close.
\* Mutant: there is none.
WavFree_Always(r) == TRUE

WavFree(r) == r \in Guarded => main[r] \in {"running", "closed"}

\* ... and written, by the local recorder if the file is still open.
WriteAudio(r) ==
    /\ callback[r] # 0 /\ Alive(r)
    /\ WavFree(r)
    /\ wav' = [wav EXCEPT ![r] = Write(@, AudioCell(callback[r]))]
    /\ callback' = [callback EXCEPT ![r] = 0]
    /\ UNCHANGED <<busVars, main, stat, decoded>>

-----------------------------------------------------------------------------
\* Main completes the header: one system call at a time.

Main(r, from, to) ==
    Alive(r) /\ main[r] = from /\ main' = [main EXCEPT ![r] = to]

\* On a signal.  The worker goes on when Subscribe fails; the service ends.
Stat(r) ==
    /\ Main(r, "running", "stat")
    /\ sub[r] \in IF r \in Guarded THEN {"ok", "failed"} ELSE {"ok"}
    /\ stat' = [stat EXCEPT ![r] = Pieces(wav[r])]
    /\ UNCHANGED <<busVars, wav, callback, decoded>>

Seek(r, from, to, pos) ==
    /\ Main(r, from, to)
    /\ wav' = [wav EXCEPT ![r] = SeekTo(@, pos)]
    /\ UNCHANGED <<busVars, callback, stat, decoded>>

WriteSize(r, from, to) ==
    /\ Main(r, from, to)
    /\ wav' = [wav EXCEPT ![r] = Write(@, SizeCell(stat[r]))]
    /\ UNCHANGED <<busVars, callback, stat, decoded>>

\* Mutant: where the size of the data is left for the position to find.
DataSizeAt_Next == RiffAt + 1

DataSizeAt == DataAt

Header(r) ==
    \/ Stat(r)
    \/ Seek(r, "stat", "riff", RiffAt)
    \/ WriteSize(r, "riff", "riffed")
    \/ Seek(r, "riffed", "data", DataSizeAt)
    \/ WriteSize(r, "data", "saved")

\* The file is closed: the local recorder's at once, the service's after its
\* bus, by the deferred calls.
CloseFile(r) ==
    /\ Main(r, "saved", "closed")
    /\ r \notin Guarded => BusOf[r] \in closed
    /\ wav' = [wav EXCEPT ![r] = Closed(@)]
    /\ UNCHANGED <<busVars, callback, stat, decoded>>

\* Main closes the bus by a deferred call, when the recordings are saved.
CloseBus(b) ==
    /\ \A r \in Recorders :
            BusOf[r] = b => main[r] = IF r \in Guarded THEN "closed" ELSE "saved"
    /\ Close(b)
    /\ UNCHANGED recorderVars

-----------------------------------------------------------------------------
Next ==
    \/ BusNext /\ UNCHANGED recorderVars
    \/ \E s \in Subs : Count(s)
    \/ \E r \in Recorders :
            Decode(r) \/ DecodeFails(r) \/ WriteAudio(r) \/ Header(r) \/ CloseFile(r)
    \/ \E b \in Buses : CloseBus(b)

\* A call of Subscribe goes on once begun.
Spec ==
    /\ RecorderInit /\ [][Next]_vars
    /\ \A s \in Subs : WF_busVars(Subscribed(s) \/ FlushFails(s))

-----------------------------------------------------------------------------
\* The state has its shape.
RecorderTypeOK ==
    /\ BusTypeOK
    /\ callback \in [Recorders -> 0 .. MaxPublished]
    /\ main \in [Recorders -> {"running", "stat", "riff", "riffed", "data", "saved", "closed"}]
    /\ stat \in [Recorders -> 0 .. MaxPublished]
    /\ \A r \in Recorders :
        /\ Pieces(wav[r]) \in 0 .. MaxPublished
        /\ wav[r].pos \in 1 .. Len(wav[r].cells) + 1

\* A recording that was closed can be played: its sizes are those of the
\* audio in it, and this is what was decoded, in order and from the start.
\* Until then nothing decoded is missing but what the callback still holds.
RecordingWhole ==
    \A r \in Recorders :
        LET audio == [i \in DOMAIN decoded[r] |-> AudioCell(decoded[r][i])]
            f == wav[r]
        IN  /\ main[r] = "closed" => SizesRight(f) /\ IsPrefix(Audio(f), audio)
            /\ main[r] = "running" =>
                Audio(f) = IF callback[r] = 0 THEN audio ELSE Front(audio)

\* "Update WAV header sizes with actual written length"
\* (recorder_service/main.go:139): a closed recording has the right sizes.
SavedSizesRight == \A r \in Recorders : main[r] = "closed" => SizesRight(wav[r])
=============================================================================
