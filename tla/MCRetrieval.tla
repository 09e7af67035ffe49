---------------------------- MODULE MCRetrieval ----------------------------
(* Instances of Retrieval for TLC. *)
EXTENDS Retrieval, TLC

CONSTANTS d1, d2, v1, v2, r1, c1

\* No property names a document, a content or a runner.
Symmetry == Permutations(Docs) \cup Permutations(Versions)
============================================================================
