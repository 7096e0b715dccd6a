------------------------------- MODULE WavFile --------------------------------
(***************************************************************************)
(* A WAV recording on disk, as the worker's local recorder, the recorder   *)
(* service and the RTP adapter write it, with the position that all its    *)
(* writers share.                                                          *)
(*                                                                         *)
(* A file is cells that are written whole: the RIFF size, the rest of the  *)
(* 44-byte header, the size of the data, and then one cell for each piece  *)
(* of audio.  Sizes count pieces.                                          *)
(***************************************************************************)
EXTENDS Naturals, Sequences

SizeCell(k) == <<"size", k>>
AudioCell(n) == <<"audio", n>>

\* Mutant: a cell early.
RiffAt_Before == 0

RiffAt == 1
DataAt == 3
AudioAt == 4

\* os.Create and the header template, its sizes 0.
NewFile ==
    [cells |-> <<SizeCell(0), <<"format", 0>>, SizeCell(0)>>,
     pos |-> AudioAt, open |-> TRUE]

\* Write puts a cell at the position and advances it, over what was there or
\* at the end; on a closed file it fails and its error is ignored.
Write(f, cell) ==
    IF ~f.open THEN f
    ELSE [f EXCEPT !.cells = IF f.pos <= Len(@) THEN [@ EXCEPT ![f.pos] = cell]
                             ELSE Append(@, cell),
                   !.pos = @ + 1]

SeekTo(f, pos) == IF f.open THEN [f EXCEPT !.pos = pos] ELSE f

Closed(f) == [f EXCEPT !.open = FALSE]

\* How much audio Stat says there is, and the audio itself.
Pieces(f) == Len(f.cells) - (AudioAt - 1)

Audio(f) == SubSeq(f.cells, AudioAt, Len(f.cells))

\* Both sizes are those of the audio in the file.
SizesRight(f) ==
    f.cells[RiffAt] = SizeCell(Pieces(f)) /\ f.cells[DataAt] = SizeCell(Pieces(f))
=============================================================================
