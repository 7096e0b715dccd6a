------------------------------ MODULE SeqArith ------------------------------
(***************************************************************************)
(* The uint16 arithmetic the RTP sequence numbers live in                  *)
(* (internal/pipeline/red.go).  The width is a parameter: the code has     *)
(* Half = 32768, a model-checked instance a small power of two.  Wrapping  *)
(* is written with IF rather than %, so that every fact about it is linear *)
(* and the provers can use it for an arbitrary Half.                       *)
(***************************************************************************)
EXTENDS Integers

CONSTANT Half    \* half the sequence space: the literal 32768 of seqBefore

ASSUME HalfAssumption == Half \in Nat /\ Half > 1

SeqMod == 2 * Half
SeqNum == 0 .. SeqMod - 1

\* nextSeq++ on a uint16.
SeqInc(s) == IF s = SeqMod - 1 THEN 0 ELSE s + 1

\* a - b on uint16 operands.
SeqDiff(a, b) == IF a >= b THEN a - b ELSE a - b + SeqMod

\* Mutant: a plain comparison.
seqBefore_Plain(seq1, seq2) == seq1 < seq2

(***************************************************************************)
(* Is seq1 before seq2, wrap-around included?  Two numbers exactly Half    *)
(* apart are not before one another in either order.                       *)
(***************************************************************************)
seqBefore(seq1, seq2) ==
    \/ seq1 < seq2 /\ seq2 - seq1 < Half
    \/ seq1 > seq2 /\ seq1 - seq2 > Half
=============================================================================
