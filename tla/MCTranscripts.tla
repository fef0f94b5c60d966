--------------------------- MODULE MCTranscripts ----------------------------
(***************************************************************************)
(* Small instances of Transcripts.                                         *)
(***************************************************************************)
EXTENDS Transcripts, TLC

CONSTANTS short, long, huge

\* A long turn fills the store that two short ones fill; a huge one is skipped.
MCSize == [t \in Text |-> IF t = short THEN 1 ELSE IF t = long THEN 2 ELSE MaxBytes + 1]

Symmetry == Permutations(Request) \cup Permutations(Id)
=============================================================================
