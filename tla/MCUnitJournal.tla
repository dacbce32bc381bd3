--------------------------- MODULE MCUnitJournal ---------------------------
(* Instances of UnitJournal for TLC. *)
EXTENDS UnitJournal, TLC

CONSTANTS r1, r2

Anywhere == WriterAt \ {"down"}
(* Not between the creation of a page and the end of the one before it. *)
NotInRollover == Anywhere \ {"load", "finish"}
ReaderSymmetry == Permutations(Readers)
=============================================================================
