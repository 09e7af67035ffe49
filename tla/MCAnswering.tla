---------------------------- MODULE MCAnswering ----------------------------
(* Instances of Answering for TLC. *)
EXTENDS Answering, TLC

CONSTANTS c1, embedder, large, small

Symmetry == Permutations({embedder, large, small})
============================================================================
