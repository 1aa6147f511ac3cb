--------------------------- MODULE MCLeaderboard ----------------------------
(***************************************************************************)
(* Leaderboard on small instances.                                         *)
(***************************************************************************)
EXTENDS Leaderboard

CONSTANTS g1, g2

\* One ingester for everyone, or one for each of two contestants.
OneHome == [c \in Contestants |-> g1]
TwoHomes == [c \in Contestants |-> IF c = 1 THEN g1 ELSE g2]
=============================================================================
