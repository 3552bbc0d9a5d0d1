------------------------ MODULE MCConfirmationJournal ------------------------
(* Bounds for TLC: four records hold a review that expires, the next one,   *)
(* its confirmation and its consumption.                                    *)
EXTENDS ConfirmationJournal, TLC

Symmetry == Permutations(Decisions)

=============================================================================
