------------------------------- MODULE MCReplay -------------------------------
(***************************************************************************)
(* Model checking Replay: up to three requests that meet in any order, two *)
(* adapters, and files of every layout the parser tells apart: the plain   *)
(* 44-byte header; a fmt chunk of 18 bytes; chunks before and after the    *)
(* data; a recording whose sizes were never filled in.  Sizes are even.    *)
(***************************************************************************)
EXTENDS Replay

Riff(id, size, len) == [id |-> id, size |-> size, len |-> len]
Whole(id, len) == Riff(id, len, len)

MCFiles == {
    <<Whole("fmt", 16), Whole("data", 10)>>,
    <<Whole("fmt", 16), Whole("data", 8), Whole("LIST", 6)>>,
    <<Whole("fmt", 18), Whole("data", 8)>>,
    <<Whole("JUNK", 4), Whole("fmt", 16), Whole("LIST", 2), Whole("data", 8)>>,
    <<Whole("fmt", 16), Riff("data", 0, 6)>>}
=============================================================================
