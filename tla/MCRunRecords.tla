---------------------------- MODULE MCRunRecords ----------------------------
(***************************************************************************)
(* RunRecords on a small instance: every run is one contestant's.          *)
(***************************************************************************)
EXTENDS RunRecords, TLC

CONSTANT c1

OneContestant == [r \in Runs |-> c1]

\* The runs are interchangeable.
RunSymmetry == Permutations(Runs)
=============================================================================
