----------------------------- MODULE MCRagIndex -----------------------------
(* Instances of RagIndex for TLC. *)
EXTENDS RagIndex, TLC

CONSTANTS d1, d2, v1, v2, r1, r2

\* Sound where it is used: no property names a document, a content or a
\* runner.  Dimensions are compared and stay numbers.
Symmetry == Permutations(Docs) \cup Permutations(Versions) \cup Permutations(Runners)

\* States that differ only in how files are numbered, in what a file nobody
\* can reach once held, or in what a runner that has ended had done are one
\* state: no guard and none of the properties checked under this view tells
\* them apart.
View ==
  <<source, model, edits, models, crashes, committed, overrun,
    [r \in Runners |-> IF runner[r].pc \in Settled THEN "settled"
                       ELSE [runner[r] EXCEPT !.ino = (@ # None)]],
    [n \in Names |-> IF journal[n] = None THEN <<>> ELSE <<journal[n].before>>],
    {<<file[i], {n \in Names : path[n] = i}, {r \in Runners : runner[r].ino = i},
       {n \in Names : journal[n] # None /\ journal[n].ino = i}>> : i \in Inodes \ Free}>>
=============================================================================
