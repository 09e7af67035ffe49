---------------------------- MODULE VerifyIndex ----------------------------
(* What the success of a verify run says about the index.  The run looks   *)
(* at rag.db three times on two connections                                *)
(* (apps/api/src/api/services/rag/verify_index_job_runner.py), and other   *)
(* runners replace and write it in between: no index need have passed all  *)
(* of its checks at the end of the run.                                    *)
EXTENDS RagIndex

VARIABLE sighted         \* history: runs since whose start an index has been in
                         \* place that is what a verify run looks for

vvars == <<vars, sighted>>

\* What run_verify_index_job asks of an index.
Fit(x, expected) == x \notin {None, Damaged} /\ HasChunks(x) /\ DimsAsExpected(x, expected)

VerifyInit == Init /\ sighted = [r \in Runners |-> FALSE]

VerifyNext ==
  /\ Next
  /\ sighted' = [r \in Runners |-> /\ runner'[r].pc \in VerifyPhases
                                   /\ sighted[r] \/ Fit(committed', runner'[r].dim)]

VerifySpec == VerifyInit /\ [][VerifyNext]_vvars

\* A verify run that succeeds vouches for an index that readers were given
\* while it ran, at one moment: that index had chunks, and all of the expected
\* dimension.  It counts the chunks of one state of the file and compares the
\* dimensions of a later one, of a file that may have lost its name meanwhile,
\* and the sample query goes to yet another.  (Unless something was overrun.)
VerifyVouches == [][\A r \in Runners :
  runner[r].pc \in VerifyPhases /\ runner'[r].pc = "succeeded" /\ ~overrun' => sighted[r]]_vvars
============================================================================
