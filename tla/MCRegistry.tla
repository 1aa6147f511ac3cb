----------------------------- MODULE MCRegistry -----------------------------
(***************************************************************************)
(* Registry on a small instance: everyone asks for one contestant.         *)
(***************************************************************************)
EXTENDS Registry, TLC

CONSTANT c1

OneContestant == [q \in Requests |-> c1]

\* Requests of a kind are interchangeable.
RequestSymmetry == Permutations(Registrations) \cup Permutations(Submissions)
=============================================================================
