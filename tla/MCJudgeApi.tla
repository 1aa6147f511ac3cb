----------------------------- MODULE MCJudgeApi -----------------------------
(***************************************************************************)
(* JudgeApi on small instances: all submissions are one contestant's.      *)
(***************************************************************************)
EXTENDS JudgeApi, TLC

CONSTANT c1

OneOwner == [s \in Submissions |-> c1]

\* The submissions are interchangeable (used only by runs without liveness).
SubmissionSymmetry == Permutations(Submissions)
=============================================================================
