---------------------------- MODULE MCRingBuffer ----------------------------
(***************************************************************************)
(* RingBuffer on small instances.                                          *)
(***************************************************************************)
EXTENDS RingBuffer, TLC

\* The producers are interchangeable (used only by runs without liveness).
ProducerSymmetry == Permutations(Producers)
=============================================================================
