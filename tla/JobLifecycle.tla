--------------------------- MODULE JobLifecycle ---------------------------
(* What the job queue promises about each job, without clients, workers or *)
(* database transactions: jobs are numbered 1, 2, ... in the order in      *)
(* which they are accepted, a job runs at most MaxAttempts times, and once *)
(* it has succeeded or failed it never changes again.  README.md:8 of the  *)
(* repository names the statuses: queued -> running -> succeeded/failed.   *)
EXTENDS Integers

CONSTANT MaxAttempts   \* jobs.max_attempts, 3 for every job the API creates

VARIABLES count,       \* how many jobs have been accepted
          job          \* [1..count -> [status, attempts]]

vars == <<count, job>>

Statuses == {"queued", "running", "succeeded", "failed"}
Terminal == {"succeeded", "failed"}
NewJob == [status |-> "queued", attempts |-> 0]

TypeOK == /\ count \in Nat
          /\ job \in [1..count -> [status : Statuses, attempts : 0..MaxAttempts]]

Init == count = 0 /\ job = [i \in 1..0 |-> NewJob]

Enqueue == /\ count' = count + 1
           /\ job' = [i \in 1..(count + 1) |-> IF i <= count THEN job[i] ELSE NewJob]

Start(i) == /\ job[i].status = "queued"
            /\ job' = [job EXCEPT ![i] = [status |-> "running", attempts |-> job[i].attempts]]
            /\ UNCHANGED count

Succeed(i) == /\ job[i].status = "running"
              /\ job' = [job EXCEPT ![i] = [status |-> "succeeded", attempts |-> job[i].attempts]]
              /\ UNCHANGED count

\* A failed run spends an attempt; the last one settles the job.
Retry(i) == /\ job[i].status = "running"
            /\ job[i].attempts + 1 < MaxAttempts
            /\ job' = [job EXCEPT ![i] = [status |-> "queued", attempts |-> job[i].attempts + 1]]
            /\ UNCHANGED count

GiveUp(i) == /\ job[i].status = "running"
             /\ job[i].attempts + 1 = MaxAttempts
             /\ job' = [job EXCEPT ![i] = [status |-> "failed", attempts |-> MaxAttempts]]
             /\ UNCHANGED count

Next == \/ Enqueue
        \/ \E i \in 1..count : Start(i) \/ Succeed(i) \/ Retry(i) \/ GiveUp(i)

Spec == Init /\ [][Next]_vars
===========================================================================
