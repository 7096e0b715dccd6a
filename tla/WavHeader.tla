------------------------------ MODULE WavHeader -------------------------------
(***************************************************************************)
(* What parseWavHeader (internal/ingestion/replay.go, and its copy in the  *)
(* sender) takes for the audio of a WAV file.                              *)
(*                                                                         *)
(* A file is the list of its RIFF chunks: [id, size, len], with the size   *)
(* its 8-byte header states and the bytes that follow it.  A recording     *)
(* that was never closed states 0.  Data of odd length has a pad byte.     *)
(* What the fmt chunk says is abstracted.                                  *)
(***************************************************************************)
EXTENDS Naturals, FiniteSets, SequencesExt

\* The offset of the file's i-th chunk: behind "RIFF", the size and "WAVE".
Offset(file, i) ==
    LET at[k \in 1 .. Len(file) + 1] ==
            IF k = 1 THEN 12
            ELSE at[k - 1] + 8 + file[k - 1].len + (file[k - 1].len % 2)
    IN  at[i]

FileEnd(file) == Offset(file, Len(file) + 1)

\* Bytes that are no header of a chunk, read as one: a size past any end.
Junk(file) == [id |-> "junk", size |-> FileEnd(file), len |-> 0]

\* The chunk header that the scan reads at offset o.
HeaderAt(file, o) ==
    IF \E i \in DOMAIN file : Offset(file, i) = o
    THEN file[CHOOSE i \in DOMAIN file : Offset(file, i) = o]
    ELSE Junk(file)

\* Where the scan goes on after a chunk that is not the data.
\* Mutant: the 8 bytes of its header are forgotten.
NextOffset_Bare(o, header) == o + header.size

NextOffset(o, header) == o + 8 + header.size

\* The scan from byte 12 on, up to the data or the end of the file.
Scan(file) ==
    LET from[o \in Nat] ==
            IF o + 8 > FileEnd(file) THEN [offset |-> 44, size |-> Junk(file).size]
            ELSE IF HeaderAt(file, o).id = "data"
                 THEN [offset |-> o + 8, size |-> HeaderAt(file, o).size]
                 ELSE from[NextOffset(o, HeaderAt(file, o))]
    IN  from[12]

\* The audio starts at byte 44, or wherever the scan says.  A file of less
\* than 44 bytes, which is refused, is never WellFormed.
Parsed(file) ==
    IF HeaderAt(file, 36).id = "data"
    THEN [offset |-> 44, size |-> HeaderAt(file, 36).size]
    ELSE Scan(file)

-----------------------------------------------------------------------------
\* The files that are known to be read right.  The fmt chunk comes before the
\* data.  The chunks before the data, and a recording that was never closed,
\* need no pad byte; such a recording ends with its data; and no other data is
\* empty.
WellFormed(file) ==
    /\ file \in Seq([id : STRING, size : Nat, len : Nat])
    /\ \E d \in DOMAIN file :
        /\ \A i \in DOMAIN file : file[i].id = "data" <=> i = d
        /\ \E i \in 1 .. d - 1 : file[i].id = "fmt" /\ file[i].len >= 16
        /\ \A i \in 1 .. d - 1 : file[i].size = file[i].len /\ file[i].len % 2 = 0
        /\ \/ file[d].size = file[d].len /\ file[d].len > 0
           \/ file[d].size = 0 /\ d = Len(file) /\ file[d].len % 2 = 0
=============================================================================
