----------------------------- MODULE MCIngester -----------------------------
(***************************************************************************)
(* Ingester on small instances.                                            *)
(***************************************************************************)
EXTENDS Ingester

\* The workers are interchangeable (used only by runs without liveness).
WorkerSymmetry == Permutations(Workers)
=============================================================================
