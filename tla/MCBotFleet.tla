----------------------------- MODULE MCBotFleet -----------------------------
(***************************************************************************)
(* BotFleet on a small instance, with samples of other runs for its        *)
(* statistics.                                                             *)
(***************************************************************************)
EXTENDS BotFleet

CONSTANTS b1, b2

\* A bot with two orders and a bot with one.
TwoAndOne == [b \in Bots |-> IF b = b1 THEN 2 ELSE 1]

\* The second order of the first bot is a cancel probe.
SecondIsProbe == [b \in Bots |-> IF b = b1 THEN {2} ELSE {}]

\* The clock went backwards, did not move, or went on.
ClockDifferences == {-1, 0, 2}

\* All sequences of at most three samples, and long ones in a scattered order.
ShortInputs == BoundedSeq(Samples({-1, 0, 2, 5}), 3)
LongInputs ==
    {[k \in 1..n |-> [us |-> (k * 37) % 101,
                      verdict |-> IF k % 3 = 0 THEN "wrong" ELSE "correct"]] :
       n \in {10, 11, 12, 21, 40}}

ShortAndLong == ShortInputs \cup LongInputs
=============================================================================
