----------------------------- MODULE MCJobQueue -----------------------------
(* Instances of JobQueue for TLC. *)
EXTENDS JobQueue, TLC

CONSTANTS c1, c2, c3, w1, w2, reindex, warmup

\* Sound for the safety runs: clients, workers and job types are
\* interchangeable, and no property names one of them.
Symmetry == Permutations(Clients) \cup Permutations(Workers) \cup Permutations(JobTypes)
=============================================================================
