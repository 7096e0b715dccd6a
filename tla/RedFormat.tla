----------------------------- MODULE RedFormat ------------------------------
(***************************************************************************)
(* The RFC 2198 packet as the packer writes it and the receiver reads it   *)
(* back (internal/pipeline/red.go).                                        *)
(*                                                                         *)
(* A packet on the wire is a record                                        *)
(*    [SequenceNumber, Timestamp, PayloadType, blocks]                     *)
(* whose blocks are, oldest first and the primary last, [offset, data]:    *)
(* the 14-bit timestamp offset of the block's header and the Opus frame.   *)
(* A raw Opus packet (111) is one block at offset 0.  So is a RED packet   *)
(* UnpackRED rejects: Push then inserts the undecodable payload as it      *)
(* stands under the packet's own number.  Bytes and block lengths are      *)
(* abstracted.                                                             *)
(***************************************************************************)
EXTENDS SeqArith, Sequences

CONSTANTS
    TimeMod,     \* 2^32 in the code, the range of an RTP timestamp
    MaxDepth     \* the deepest redundancy in use: 3 on the RTP link

FrameSamples == 960                \* 20 ms at 48 kHz
OffsetMod == 16384                 \* a header has 14 bits for the offset

\* 14 bits hold the offset of 17 frames: a deeper block would come back under
\* the wrong number.  Only a -red-depth of 18 or more gets there.
ASSUME FormatAssumption ==
    /\ TimeMod \in Nat /\ TimeMod >= OffsetMod + FrameSamples
    /\ MaxDepth \in Nat /\ MaxDepth <= 17 /\ MaxDepth < Half

Time == 0 .. TimeMod - 1

\* a - b on uint32 timestamps.
TimeDiff(a, b) == IF a >= b THEN a - b ELSE a - b + TimeMod

\* nextTime += FrameSamples on a uint32.
TimeInc(t) ==
    IF t + FrameSamples >= TimeMod THEN t + FrameSamples - TimeMod
                                   ELSE t + FrameSamples

\* The header keeps the low 14 bits of the timestamp difference.
RedOffset(ts, blockTs) == TimeDiff(ts, blockTs) % OffsetMod

\* The timestamp UnpackRED gives the i-th block of packet p.
BlockTime(p, i) == TimeDiff(p.Timestamp, p.blocks[i].offset)

\* Mutants: the subtraction on ints, and an addition in its place.
BlockSeq_Int(p, i) ==
    p.SequenceNumber
        - TimeDiff(p.Timestamp, BlockTime(p, i)) \div FrameSamples

BlockSeq_Forward(p, i) ==
    SeqDiff(p.SequenceNumber,
            -(TimeDiff(p.Timestamp, BlockTime(p, i)) \div FrameSamples))

(***************************************************************************)
(* The sequence number Push gives the i-th block: as many frames before    *)
(* the packet's own as the block's timestamp is behind.  A 14-bit offset   *)
(* is at most 17 frames, so the conversion to uint16 loses nothing.        *)
(***************************************************************************)
BlockSeq(p, i) ==
    LET offsetSamples == TimeDiff(p.Timestamp, BlockTime(p, i))
    IN  SeqDiff(p.SequenceNumber, offsetSamples \div FrameSamples)
=============================================================================
