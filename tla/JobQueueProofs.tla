--------------------------- MODULE JobQueueProofs ---------------------------
(* Proofs about JobQueue, for every number of clients, workers, job types, *)
(* attempts, requests and worker deaths, and for both branches of the      *)
(* claim.                                                                  *)
EXTENDS JobQueue, TLAPS

---------------------------------------------------------------------------
(* Facts about the operators                                               *)

\* The largest id of a dense table is its number of rows.
LEMMA LargestOfDense ==
  ASSUME NEW n \in Nat
  PROVE  (CHOOSE m \in (1..n) \cup {0} : \A i \in 1..n : i <= m) = n
<1> DEFINE P(m) == \A i \in 1..n : i <= m
<1>1. n \in (1..n) \cup {0} /\ P(n)
  OBVIOUS
<1>2. \A m \in (1..n) \cup {0} : P(m) => m = n
  OBVIOUS
<1> HIDE DEF P
<1>3. (CHOOSE m \in (1..n) \cup {0} : P(m)) = n
  BY <1>1, <1>2
<1> QED BY <1>3 DEF P

\* The three outcome UPDATEs and the INSERT write rows of the table's type.
LEMMA FailedRow ==
  ASSUME NEW r \in Row, NEW attempts \in 0..MaxAttempts, NEW requeue \in BOOLEAN
  PROVE  Failed(r, attempts, requeue) \in Row
<1>1. CASE requeue = TRUE
  BY <1>1 DEF Failed, Row, Statuses
<1>2. CASE requeue = FALSE
  BY <1>2 DEF Failed, Row, Statuses
<1> QED BY <1>1, <1>2

---------------------------------------------------------------------------
(* Type correctness                                                        *)

\* Every step keeps the columns of every row and the local state of every
\* handler and worker loop in their ranges.
LEMMA TypeStep ==
  ASSUME TypeOK, HoldsItsJob, InsertedRowThere, CheckStillTrue, DenseIds, [Next]_vars
  PROVE  TypeOK'
<1> USE JobQueueAssumption
<1>1. ASSUME NEW c \in Clients, NEW t \in JobTypes, Refuse(c, t) PROVE TypeOK'
  BY <1>1 DEF TypeOK, Refuse, Request, Settled, Active, Ids, NoJob
<1>2. ASSUME NEW c \in Clients, NEW t \in JobTypes, CheckDuplicate(c, t) PROVE TypeOK'
  BY <1>2 DEF TypeOK, CheckDuplicate, Request, Settled, NoJob
<1>3. ASSUME NEW c \in Clients, AssignId(c) PROVE TypeOK'
  BY <1>3 DEF TypeOK, AssignId, Move, Request, Settled, DenseIds, NextJobId
<1>4. ASSUME NEW c \in Clients, InsertJob(c) PROVE TypeOK'
  <2>1. request[c].id \in Ids
    BY <1>4 DEF InsertJob, DenseIds, NextJobId, Ids
  <2>2. NewRow(request[c]) \in Row
    BY <1>4 DEF TypeOK, InsertJob, NewRow, Row, CheckStillTrue, Request, Settled, Statuses
  <2>3. jobs' \in [DOMAIN jobs' -> Row] /\ DOMAIN jobs' \subseteq Ids
    BY <1>4, <2>1, <2>2 DEF TypeOK, InsertJob, Extend
  <2>4. committedAt' \in [DOMAIN jobs' -> Nat] /\ claims' \in [DOMAIN jobs' -> Nat]
    BY <1>4 DEF TypeOK, InsertJob, Extend
  <2>5. request' \in [Clients -> Request]
    BY <1>4 DEF TypeOK, InsertJob, Move, Request, Settled
  <2> QED BY <1>4, <2>3, <2>4, <2>5 DEF TypeOK, InsertJob
<1>5. ASSUME NEW c \in Clients, DuplicateKey(c) \/ FailRequest(c) PROVE TypeOK'
  BY <1>5 DEF TypeOK, DuplicateKey, FailRequest, Blank, Request, Settled, NoJob
<1>6. ASSUME NEW c \in Clients, Accept(c) PROVE TypeOK'
  BY <1>6 DEF TypeOK, Accept, Move, Request, Settled, Row, InsertedRowThere
<1>7. ASSUME NEW w \in Workers, SelectJob(w) PROVE TypeOK'
  BY <1>7 DEF TypeOK, SelectJob, Worker, Row, Claimable, Ids
<1>8. ASSUME NEW w \in Workers, ClaimJob(w) PROVE TypeOK'
  BY <1>8 DEF TypeOK, ClaimJob, Claimed, Worker, Row, Statuses, HoldsItsJob
<1>9. ASSUME NEW w \in Workers, LoseClaim(w) \/ Die(w) \/ Restart(w) PROVE TypeOK'
  BY <1>9 DEF TypeOK, LoseClaim, Die, Restart, Empty, Worker, NoJob
<1>10. ASSUME NEW w \in Workers, MarkSucceeded(w) PROVE TypeOK'
  BY <1>10 DEF TypeOK, MarkSucceeded, Succeeded, Empty, Worker, Row, Statuses, NoJob,
               HoldsItsJob
<1>11. ASSUME NEW w \in Workers, MarkFailure(w) PROVE TypeOK'
  <2> DEFINE i == worker[w].job
  <2>1. i \in DOMAIN jobs /\ worker[w].attempts \in 0..(MaxAttempts - 1)
    BY <1>11 DEF HoldsItsJob, MarkFailure, TypeOK, Worker
  <2>2. jobs[i] \in Row /\ worker[w].attempts + 1 \in 0..MaxAttempts
    BY <2>1 DEF TypeOK
  <2>3. Requeue(w) \in BOOLEAN
    BY DEF Requeue
  <2>4. Failed(jobs[i], worker[w].attempts + 1, Requeue(w)) \in Row
    BY <2>2, <2>3, FailedRow
  <2>5. jobs' \in [DOMAIN jobs -> Row]
    BY <1>11, <2>4 DEF MarkFailure, TypeOK
  <2> QED BY <1>11, <2>5 DEF TypeOK, MarkFailure, Empty, Worker, NoJob
<1>12. CASE UNCHANGED vars
  BY <1>12 DEF TypeOK, vars
<1> QED
  BY <1>1, <1>2, <1>3, <1>4, <1>5, <1>6, <1>7, <1>8, <1>9, <1>10, <1>11, <1>12
     DEF Next, ClientStep, WorkerStep, Sleep

---------------------------------------------------------------------------
(* The steps by what they leave alone                                      *)

\* A handler's steps that write nothing to the table.
RequestStep(c) ==
  \/ \E t \in JobTypes : Refuse(c, t) \/ CheckDuplicate(c, t)
  \/ AssignId(c)
  \/ DuplicateKey(c)
  \/ Accept(c)
  \/ FailRequest(c)

\* A worker's steps that write nothing to the table.
LoopStep(w) == SelectJob(w) \/ LoseClaim(w) \/ Die(w) \/ Restart(w)

\* A worker's UPDATEs.
RowStep(w) == ClaimJob(w) \/ MarkSucceeded(w) \/ MarkFailure(w)

\* Every step only changes local state, or is one of the few that write a
\* row; the lemmas below split on these cases.
LEMMA StepCases ==
  ASSUME [Next]_vars
  PROVE  \/ \E c \in Clients : RequestStep(c) \/ InsertJob(c)
         \/ \E w \in Workers : LoopStep(w) \/ RowStep(w)
         \/ UNCHANGED vars
  BY DEF Next, ClientStep, WorkerStep, RequestStep, LoopStep, RowStep, Sleep

\* A step of one handler leaves every other handler where it was.
LEMMA RequestFrame ==
  ASSUME NEW c \in Clients, RequestStep(c), TypeOK
  PROVE  /\ UNCHANGED <<jobs, worker, crashes, committedAt, claims>>
         /\ \A d \in Clients \ {c} : request'[d] = request[d]
  BY DEF RequestStep, Refuse, CheckDuplicate, AssignId, DuplicateKey, Accept, FailRequest,
         Move, TypeOK

\* A step of one worker leaves every other worker where it was.
LEMMA LoopFrame ==
  ASSUME NEW w \in Workers, LoopStep(w), TypeOK
  PROVE  /\ UNCHANGED <<jobs, request, now, committedAt, claims>>
         /\ \A v \in Workers \ {w} : worker'[v] = worker[v]
         /\ worker'[w].pc # "running"
  BY DEF LoopStep, SelectJob, LoseClaim, Die, Restart, Empty, TypeOK

\* A worker writes only the row it holds, which is active: claimed rows were
\* queued, and the outcome goes to a running row.
LEMMA RowFrame ==
  ASSUME NEW w \in Workers, RowStep(w), TypeOK, HoldsItsJob, ExclusiveRun
  PROVE  /\ UNCHANGED <<request, now, crashes, committedAt>>
         /\ \A v \in Workers \ {w} : worker'[v] = worker[v]
         /\ worker[w].job \in DOMAIN jobs
         /\ jobs[worker[w].job].status \in ActiveStatuses
         /\ DOMAIN jobs' = DOMAIN jobs
         /\ \A i \in DOMAIN jobs \ {worker[w].job} :
              jobs'[i] = jobs[i] /\ claims'[i] = claims[i]
         /\ jobs'[worker[w].job].type = jobs[worker[w].job].type
         /\ jobs'[worker[w].job].created = jobs[worker[w].job].created
<1>1. CASE ClaimJob(w)
  BY <1>1 DEF ClaimJob, Claimed, TypeOK, HoldsItsJob, ActiveStatuses
<1>2. CASE MarkSucceeded(w)
  BY <1>2 DEF MarkSucceeded, Succeeded, TypeOK, HoldsItsJob, ExclusiveRun, ActiveStatuses
<1>3. CASE MarkFailure(w)
  BY <1>3 DEF MarkFailure, Failed, TypeOK, HoldsItsJob, ExclusiveRun, ActiveStatuses
<1> QED BY <1>1, <1>2, <1>3 DEF RowStep

\* An INSERT adds its own row and leaves every other row alone.
LEMMA InsertFrame ==
  ASSUME NEW c \in Clients, InsertJob(c), TypeOK
  PROVE  /\ UNCHANGED <<worker, now, crashes>>
         /\ \A d \in Clients \ {c} : request'[d] = request[d]
         /\ request[c].id \notin DOMAIN jobs
         /\ DOMAIN jobs' = DOMAIN jobs \cup {request[c].id}
         /\ \A i \in DOMAIN jobs : /\ jobs'[i] = jobs[i]
                                   /\ committedAt'[i] = committedAt[i]
                                   /\ claims'[i] = claims[i]
         /\ jobs'[request[c].id].type = request[c].type
         /\ jobs'[request[c].id].created = request[c].created
         /\ jobs'[request[c].id].status = "queued"
         /\ committedAt'[request[c].id] = now
         /\ claims'[request[c].id] = 0
         /\ request'[c].pc = "refreshing"
         /\ request'[c].type = request[c].type
         /\ request'[c].created = request[c].created
         /\ request'[c].id = request[c].id
  BY DEF InsertJob, Extend, Move, NewRow, TypeOK

\* Rows are never removed; type, created_at and the commit time of a row are
\* fixed; a settled row is never written and a settled job never active again.
LEMMA RowsKept ==
  ASSUME TypeOK, HoldsItsJob, ExclusiveRun, [Next]_vars
  PROVE  \A i \in DOMAIN jobs :
           /\ i \in DOMAIN jobs'
           /\ jobs'[i].type = jobs[i].type
           /\ jobs'[i].created = jobs[i].created
           /\ committedAt'[i] = committedAt[i]
           /\ jobs[i].status \in Terminal => jobs'[i] = jobs[i]
<1>1. ASSUME NEW w \in Workers, RowStep(w), NEW i \in DOMAIN jobs
      PROVE  /\ i \in DOMAIN jobs'
             /\ jobs'[i].type = jobs[i].type
             /\ jobs'[i].created = jobs[i].created
             /\ committedAt'[i] = committedAt[i]
             /\ jobs[i].status \in Terminal => jobs'[i] = jobs[i]
  BY <1>1, RowFrame DEF ActiveStatuses, Terminal
<1> QED
  BY <1>1, StepCases, RequestFrame, LoopFrame, InsertFrame DEF vars

---------------------------------------------------------------------------
(* One lemma per part of the inductive invariant                           *)

\* The ids present stay 1..n, and an id about to be inserted stays one of
\* them or the next, while other handlers insert.
LEMMA DenseStep ==
  ASSUME TypeOK, DenseIds, HoldsItsJob, ExclusiveRun, [Next]_vars
  PROVE  DenseIds'
<1>1. ASSUME DOMAIN jobs' = DOMAIN jobs PROVE LastJobId' = LastJobId
  BY <1>1 DEF LastJobId
<1>2. ASSUME NEW c \in Clients, RequestStep(c) PROVE DenseIds'
  <2>1. DOMAIN jobs' = DOMAIN jobs
    BY <1>2, RequestFrame
  <2>2. LastJobId' = LastJobId
    BY <2>1, <1>1
  <2>3. request'[c].pc = "inserting" => request'[c].id = NextJobId
    BY <1>2 DEF RequestStep, Refuse, CheckDuplicate, AssignId, DuplicateKey, Accept,
                FailRequest, Move, Blank, TypeOK
  <2> QED BY <1>2, <2>1, <2>2, <2>3, RequestFrame DEF DenseIds, NextJobId
<1>3. ASSUME NEW c \in Clients, InsertJob(c) PROVE DenseIds'
  <2>1. request[c].id = LastJobId + 1
    BY <1>3 DEF InsertJob, DenseIds, NextJobId
  <2>2. DOMAIN jobs' = 1..(LastJobId + 1) /\ LastJobId + 1 \in Nat
    <3>1. DOMAIN jobs' = DOMAIN jobs \cup {request[c].id}
      BY <1>3, InsertFrame
    <3> QED BY <2>1, <3>1 DEF DenseIds
  <2>3. LastJobId' = LastJobId + 1
    BY <2>2, LargestOfDense DEF LastJobId, NoJob
  <2>4. \A d \in Clients : request'[d].pc = "inserting" => request[d] = request'[d]
    BY <1>3, InsertFrame
  <2> QED BY <2>2, <2>3, <2>4 DEF DenseIds, NextJobId
<1>4. ASSUME NEW w \in Workers, LoopStep(w) \/ RowStep(w) PROVE DenseIds'
  <2>1. DOMAIN jobs' = DOMAIN jobs /\ request' = request
    BY <1>4, LoopFrame, RowFrame
  <2>2. LastJobId' = LastJobId
    BY <2>1, <1>1
  <2> QED BY <2>1, <2>2 DEF DenseIds, NextJobId
<1>5. CASE UNCHANGED vars
  <2>1. LastJobId' = LastJobId
    BY <1>5, <1>1 DEF vars
  <2> QED BY <1>5, <2>1 DEF vars, DenseIds, NextJobId
<1> QED BY <1>2, <1>3, <1>4, <1>5, StepCases

\* What a handler learned from its duplicate check stays true until it
\* inserts: later commits carry a later clock.
LEMMA CheckStep ==
  ASSUME TypeOK, CheckStillTrue, HoldsItsJob, ExclusiveRun, [Next]_vars
  PROVE  CheckStillTrue'
<1> USE DEF CheckStillTrue
<1>1. ASSUME NEW c \in Clients, RequestStep(c) PROVE CheckStillTrue'
  <2>1. UNCHANGED <<jobs, committedAt>> /\ \A d \in Clients \ {c} : request'[d] = request[d]
    BY <1>1, RequestFrame
  <2>2. now' \in Nat /\ now \in Nat /\ now <= now'
    BY <1>1 DEF RequestStep, Refuse, CheckDuplicate, AssignId, DuplicateKey, Accept,
                FailRequest, TypeOK
  <2>3. request'[c].pc \notin Settled =>
          request'[c].type \in JobTypes /\ request'[c].created <= now'
    BY <1>1 DEF RequestStep, Refuse, CheckDuplicate, AssignId, DuplicateKey, Accept,
                FailRequest, Move, Blank, Settled, TypeOK, Request
  <2>4. request'[c].pc \in {"numbering", "inserting"} =>
          \A i \in DOMAIN jobs :
            jobs[i].type = request'[c].type /\ committedAt[i] < request'[c].created
              => jobs[i].status \in Terminal
    <3>1. ASSUME NEW t \in JobTypes, CheckDuplicate(c, t)
          PROVE  /\ request'[c].type = t
                 /\ \A i \in DOMAIN jobs : jobs[i].type = t => jobs[i].status \in Terminal
      <4>1. request'[c].type = t /\ Active(t) = {}
        BY <3>1 DEF CheckDuplicate, TypeOK
      <4> QED BY <4>1 DEF Active, ActiveStatuses, Terminal, TypeOK, Row, Statuses
    <3>2. CASE \E t \in JobTypes : CheckDuplicate(c, t)
      <4> PICK t \in JobTypes : CheckDuplicate(c, t)
        BY <3>2
      <4> QED BY <3>1
    <3>3. CASE AssignId(c)
      BY <3>3 DEF AssignId, Move, TypeOK
    <3>4. ASSUME \/ \E t \in JobTypes : Refuse(c, t)
                 \/ DuplicateKey(c) \/ Accept(c) \/ FailRequest(c)
          PROVE  request'[c].pc \notin {"numbering", "inserting"}
      BY <3>4 DEF Refuse, DuplicateKey, Accept, FailRequest, Move, Blank, TypeOK
    <3> QED BY <1>1, <3>2, <3>3, <3>4 DEF RequestStep
  <2> QED BY <2>1, <2>2, <2>3, <2>4 DEF TypeOK, Row, Request
<1>2. ASSUME NEW c \in Clients, InsertJob(c) PROVE CheckStillTrue'
  <2>1. request[c].pc \notin Settled /\ request[c].pc \in {"numbering", "inserting"}
    BY <1>2 DEF InsertJob, Settled
  <2>2. \A i \in DOMAIN jobs' : jobs'[i].created <= now' /\ committedAt'[i] <= now'
    <3>1. now' = now /\ now <= now /\ request[c].created <= now
      <4>1. now' = now
        BY <1>2, InsertFrame
      <4>2. now \in Nat /\ request[c].created <= now
        BY <2>1, JobQueueAssumption DEF TypeOK, JobQueueAssumption
      <4> QED BY <4>1, <4>2
    <3>2. ASSUME NEW i \in DOMAIN jobs' PROVE i \in DOMAIN jobs \/ i = request[c].id
      BY <1>2, <3>2, InsertFrame
    <3>3. /\ \A i \in DOMAIN jobs : jobs'[i] = jobs[i] /\ committedAt'[i] = committedAt[i]
          /\ jobs'[request[c].id].created = request[c].created
          /\ committedAt'[request[c].id] = now
      BY <1>2, InsertFrame
    <3> QED BY <3>1, <3>2, <3>3
  <2>3. \A d \in Clients : request'[d].pc \notin Settled => request[d].pc \notin Settled
          /\ request'[d].type = request[d].type /\ request'[d].created = request[d].created
    BY <1>2, <2>1, InsertFrame
  <2>4. ASSUME NEW d \in Clients, request'[d].pc \in {"numbering", "inserting"},
               NEW i \in DOMAIN jobs', jobs'[i].type = request'[d].type,
               committedAt'[i] < request'[d].created
        PROVE  jobs'[i].status \in Terminal
    <3>1. d # c /\ request'[d] = request[d]
      BY <1>2, <2>4, InsertFrame
    <3>2. request[d].created <= now /\ request[d].created \in Nat /\ now \in Nat
      BY <2>4, <3>1 DEF Settled, TypeOK, Request
    <3>3. i \in DOMAIN jobs
      <4>1. i \in DOMAIN jobs \cup {request[c].id}
        BY <1>2, <2>4, InsertFrame
      <4>2. CASE i = request[c].id
        <5>1. committedAt'[i] = now
          BY <1>2, <4>2, InsertFrame
        <5> QED BY <5>1, <2>4, <3>1, <3>2
      <4> QED BY <4>1, <4>2
    <3> QED BY <1>2, <2>4, <3>1, <3>3, InsertFrame
  <2> QED BY <1>2, <2>2, <2>3, <2>4, InsertFrame
<1>3. ASSUME NEW w \in Workers, RowStep(w) PROVE CheckStillTrue'
  <2>1. UNCHANGED <<request, now, committedAt>> /\ DOMAIN jobs' = DOMAIN jobs
    BY <1>3, RowFrame
  <2> QED BY <2>1, RowsKept
<1>4. ASSUME NEW w \in Workers, LoopStep(w) PROVE CheckStillTrue'
  BY <1>4, LoopFrame
<1>5. CASE UNCHANGED vars
  BY <1>5 DEF vars
<1> QED BY <1>1, <1>2, <1>3, <1>4, <1>5, StepCases

\* No step removes an inserted row or rewrites its type or created_at.
LEMMA InsertedStep ==
  ASSUME TypeOK, InsertedRowThere, HoldsItsJob, ExclusiveRun, [Next]_vars
  PROVE  InsertedRowThere'
<1> USE DEF InsertedRowThere
<1>1. ASSUME NEW c \in Clients, RequestStep(c) PROVE InsertedRowThere'
  <2>1. request'[c].pc \in {"refreshing", "accepted"} =>
          /\ request[c].pc = "refreshing"
          /\ request'[c].id = request[c].id
          /\ request'[c].type = request[c].type
          /\ request'[c].created = request[c].created
    BY <1>1 DEF RequestStep, Refuse, CheckDuplicate, AssignId, DuplicateKey, Accept,
                FailRequest, Move, Blank, TypeOK
  <2> QED BY <1>1, <2>1, RequestFrame
<1>2. ASSUME NEW c \in Clients, InsertJob(c) PROVE InsertedRowThere'
  <2>1. ASSUME NEW d \in Clients \ {c}, request'[d].pc \in {"refreshing", "accepted"}
        PROVE  /\ request'[d].id \in DOMAIN jobs'
               /\ jobs'[request'[d].id].type = request'[d].type
               /\ jobs'[request'[d].id].created = request'[d].created
    <3>1. request'[d] = request[d]
      BY <1>2, <2>1, InsertFrame
    <3>2. request[d].id \in DOMAIN jobs
      BY <2>1, <3>1
    <3> QED BY <2>1, <3>1, <3>2, RowsKept
  <2>2. /\ request'[c].id \in DOMAIN jobs'
        /\ jobs'[request'[c].id].type = request'[c].type
        /\ jobs'[request'[c].id].created = request'[c].created
    <3>1. /\ request'[c].id = request[c].id
          /\ request'[c].type = request[c].type
          /\ request'[c].created = request[c].created
          /\ DOMAIN jobs' = DOMAIN jobs \cup {request[c].id}
      BY <1>2, InsertFrame
    <3>2. /\ jobs'[request[c].id].type = request[c].type
          /\ jobs'[request[c].id].created = request[c].created
      BY <1>2, InsertFrame
    <3> QED BY <3>1, <3>2
  <2> QED BY <2>1, <2>2
<1>3. ASSUME NEW w \in Workers, RowStep(w) \/ LoopStep(w) PROVE InsertedRowThere'
  BY <1>3, RowFrame, LoopFrame, RowsKept
<1>4. CASE UNCHANGED vars
  BY <1>4 DEF vars
<1> QED BY <1>1, <1>2, <1>3, <1>4, StepCases

\* A row a worker is claiming or running is touched by no other worker.
LEMMA HoldsStep ==
  ASSUME TypeOK, HoldsItsJob, ExclusiveRun, RowConsistent, [Next]_vars
  PROVE  HoldsItsJob'
<1> USE DEF HoldsItsJob
<1>1. ASSUME NEW c \in Clients, RequestStep(c) PROVE HoldsItsJob'
  BY <1>1, RequestFrame
<1>2. ASSUME NEW c \in Clients, InsertJob(c) PROVE HoldsItsJob'
  <2>1. worker' = worker /\ DOMAIN jobs \subseteq DOMAIN jobs'
    BY <1>2, InsertFrame
  <2>2. \A i \in DOMAIN jobs : jobs'[i] = jobs[i]
    BY <1>2, InsertFrame
  <2> QED BY <2>1, <2>2
<1>3. ASSUME NEW w \in Workers, SelectJob(w) PROVE HoldsItsJob'
  <2> PICK i \in Claimable : worker' = [worker EXCEPT ![w] = [pc |-> "claiming", job |-> i,
                                                       attempts |-> jobs[i].attempts]]
    BY <1>3 DEF SelectJob
  <2>1. /\ worker'[w].pc = "claiming" /\ worker'[w].job = i
        /\ worker'[w].attempts = jobs[i].attempts
        /\ \A v \in Workers \ {w} : worker'[v] = worker[v]
        /\ jobs' = jobs
    BY <1>3 DEF SelectJob, TypeOK
  <2>2. i \in DOMAIN jobs /\ jobs[i].status = "queued" /\ jobs[i].attempts < MaxAttempts
    BY DEF Claimable, RowConsistent
  <2>3. SkipLocked => \A v \in Workers : worker[v].pc = "claiming" => worker[v].job # i
    BY DEF Claimable, Locked
  <2> QED BY <2>1, <2>2, <2>3
<1>4. ASSUME NEW w \in Workers, LoseClaim(w) \/ Die(w) \/ Restart(w) PROVE HoldsItsJob'
  <2>1. worker'[w].pc \notin {"claiming", "running"}
    BY <1>4 DEF LoseClaim, Die, Restart, Empty, TypeOK
  <2> QED BY <1>4, <2>1, LoopFrame DEF LoopStep
<1>5. ASSUME NEW w \in Workers, ClaimJob(w) PROVE HoldsItsJob'
  <2>1. /\ worker'[w].pc = "running" /\ worker'[w].job = worker[w].job
        /\ worker'[w].attempts = worker[w].attempts
        /\ worker[w].pc = "claiming"
        /\ jobs'[worker[w].job].attempts = jobs[worker[w].job].attempts
        /\ jobs[worker[w].job].status = "queued"
    BY <1>5 DEF ClaimJob, Claimed, TypeOK
  <2>2. /\ \A v \in Workers \ {w} : worker'[v] = worker[v]
        /\ DOMAIN jobs' = DOMAIN jobs
        /\ \A i \in DOMAIN jobs \ {worker[w].job} : jobs'[i] = jobs[i]
    BY <1>5, RowFrame DEF RowStep
  <2>3. \A v \in Workers \ {w} :
          SkipLocked /\ worker[v].pc \in {"claiming", "running"} => worker[v].job # worker[w].job
    BY <2>1 DEF ExclusiveRun
  <2> QED BY <2>1, <2>2, <2>3
<1>6. ASSUME NEW w \in Workers, MarkSucceeded(w) \/ MarkFailure(w) PROVE HoldsItsJob'
  <2>1. worker'[w].pc = "polling" /\ worker[w].pc = "running"
    BY <1>6 DEF MarkSucceeded, MarkFailure, Empty, TypeOK
  <2>2. /\ \A v \in Workers \ {w} : worker'[v] = worker[v]
        /\ DOMAIN jobs' = DOMAIN jobs
        /\ \A i \in DOMAIN jobs \ {worker[w].job} : jobs'[i] = jobs[i]
    BY <1>6, RowFrame DEF RowStep
  <2>3. \A v \in Workers \ {w} :
          SkipLocked /\ worker[v].pc \in {"claiming", "running"} => worker[v].job # worker[w].job
    BY <2>1 DEF ExclusiveRun
  <2> QED BY <2>1, <2>2, <2>3
<1>7. CASE UNCHANGED vars
  BY <1>7 DEF vars
<1> QED BY <1>1, <1>2, <1>3, <1>4, <1>5, <1>6, <1>7, StepCases DEF LoopStep, RowStep

\* No step gives a second worker a job that is running.
LEMMA ExclusiveStep ==
  ASSUME TypeOK, HoldsItsJob, ExclusiveRun, [Next]_vars
  PROVE  ExclusiveRun'
<1> USE DEF ExclusiveRun
<1>1. ASSUME NEW c \in Clients, RequestStep(c) PROVE ExclusiveRun'
  BY <1>1, RequestFrame
<1>2. ASSUME NEW c \in Clients, InsertJob(c) PROVE ExclusiveRun'
  <2>1. worker' = worker
    BY <1>2, InsertFrame
  <2>2. \A i \in DOMAIN jobs : jobs'[i] = jobs[i]
    BY <1>2, InsertFrame
  <2> QED BY <2>1, <2>2 DEF HoldsItsJob
<1>3. ASSUME NEW w \in Workers, LoopStep(w) PROVE ExclusiveRun'
  BY <1>3, LoopFrame
<1>4. ASSUME NEW w \in Workers, ClaimJob(w) PROVE ExclusiveRun'
  <2>1. /\ worker'[w].job = worker[w].job
        /\ jobs'[worker[w].job].status = "running"
        /\ jobs[worker[w].job].status = "queued"
    BY <1>4 DEF ClaimJob, Claimed, TypeOK, HoldsItsJob
  <2>2. /\ \A v \in Workers \ {w} : worker'[v] = worker[v]
        /\ \A i \in DOMAIN jobs \ {worker[w].job} : jobs'[i] = jobs[i]
    BY <1>4, RowFrame DEF RowStep
  <2> QED BY <2>1, <2>2 DEF HoldsItsJob
<1>5. ASSUME NEW w \in Workers, MarkSucceeded(w) \/ MarkFailure(w) PROVE ExclusiveRun'
  <2>1. worker'[w].pc = "polling" /\ worker[w].pc = "running"
    BY <1>5 DEF MarkSucceeded, MarkFailure, Empty, TypeOK
  <2>2. /\ \A v \in Workers \ {w} : worker'[v] = worker[v]
        /\ \A i \in DOMAIN jobs \ {worker[w].job} : jobs'[i] = jobs[i]
    BY <1>5, RowFrame DEF RowStep
  <2> QED BY <2>1, <2>2 DEF HoldsItsJob
<1>6. CASE UNCHANGED vars
  BY <1>6 DEF vars
<1> QED BY <1>1, <1>2, <1>3, <1>4, <1>5, <1>6, StepCases DEF RowStep

\* RowConsistent of one row.
Consistent(r) ==
  /\ r.started <=> r.status # "queued"
  /\ r.finished <=> r.status \in Terminal
  /\ r.result <=> r.status = "succeeded"
  /\ r.error <=> (r.status = "failed" \/ (r.status = "queued" /\ r.attempts > 0))
  /\ r.status # "failed" => r.attempts < MaxAttempts
  /\ r.status = "failed" => r.attempts = MaxAttempts

\* Each of the four writes leaves the columns of its row consistent.
LEMMA ConsistentStep ==
  ASSUME TypeOK, HoldsItsJob, ExclusiveRun, RowConsistent, [Next]_vars
  PROVE  RowConsistent'
<1> USE JobQueueAssumption DEF JobQueueAssumption
<1>1. \A i \in DOMAIN jobs : Consistent(jobs[i]) /\ jobs[i] \in Row
  BY DEF RowConsistent, Consistent, TypeOK
<1>2. ASSUME \A i \in DOMAIN jobs' : Consistent(jobs'[i]) PROVE RowConsistent'
  BY <1>2 DEF RowConsistent, Consistent
<1>3. ASSUME NEW c \in Clients, InsertJob(c) PROVE RowConsistent'
  <2>1. jobs'[request[c].id] = NewRow(request[c])
    BY <1>3 DEF InsertJob, Extend, TypeOK
  <2>2. Consistent(NewRow(request[c]))
    BY DEF Consistent, NewRow, Terminal
  <2>3. /\ DOMAIN jobs' = DOMAIN jobs \cup {request[c].id}
        /\ \A i \in DOMAIN jobs : jobs'[i] = jobs[i]
    BY <1>3, InsertFrame
  <2> QED BY <1>1, <1>2, <2>1, <2>2, <2>3
<1>4. ASSUME NEW w \in Workers, RowStep(w) PROVE RowConsistent'
  <2> DEFINE i == worker[w].job
  <2>1. /\ i \in DOMAIN jobs /\ DOMAIN jobs' = DOMAIN jobs
        /\ \A k \in DOMAIN jobs \ {i} : jobs'[k] = jobs[k]
    BY <1>4, RowFrame
  <2>2. Consistent(jobs'[i])
    <3>1. CASE ClaimJob(w)
      <4>1. jobs'[i] = Claimed(jobs[i]) /\ jobs[i].status = "queued"
        BY <2>1, <3>1 DEF ClaimJob, HoldsItsJob
      <4> QED BY <1>1, <2>1, <4>1 DEF Consistent, Claimed, Terminal, Row
    <3>2. CASE MarkSucceeded(w)
      <4>1. jobs'[i] = Succeeded(jobs[i]) /\ jobs[i].status = "running"
        BY <2>1, <3>2 DEF MarkSucceeded, ExclusiveRun
      <4> QED BY <1>1, <2>1, <4>1 DEF Consistent, Succeeded, Terminal, Row
    <3>3. CASE MarkFailure(w)
      <4>1. jobs'[i] = Failed(jobs[i], worker[w].attempts + 1, Requeue(w))
            /\ jobs[i].status = "running" /\ worker[w].pc = "running"
        BY <2>1, <3>3 DEF MarkFailure, ExclusiveRun
      <4>2. worker[w].attempts \in Nat /\ worker[w].attempts < MaxAttempts
        BY <4>1 DEF HoldsItsJob, TypeOK, Worker
      <4>3. CASE Requeue(w)
        BY <1>1, <2>1, <4>1, <4>2, <4>3 DEF Consistent, Failed, Terminal, Row, Requeue
      <4>4. CASE ~Requeue(w)
        BY <1>1, <2>1, <4>1, <4>2, <4>4 DEF Consistent, Failed, Terminal, Row, Requeue
      <4> QED BY <4>3, <4>4
    <3> QED BY <1>4, <3>1, <3>2, <3>3 DEF RowStep
  <2> QED BY <1>1, <1>2, <2>1, <2>2
<1>5. CASE UNCHANGED jobs
  BY <1>1, <1>2, <1>5
<1> QED BY <1>3, <1>4, <1>5, StepCases, RequestFrame, LoopFrame DEF vars

\* What a worker has read of its row is still so.
AsRead == \A w \in Workers :
  /\ worker[w].pc = "claiming" => jobs[worker[w].job].status = "queued"
  /\ worker[w].pc \in {"claiming", "running"} =>
       worker[w].attempts = jobs[worker[w].job].attempts

\* Every run is counted, in the row or as the one under way.
Counts == \A i \in DOMAIN jobs :
  /\ claims[i] = jobs[i].attempts + (IF jobs[i].status \in {"running", "succeeded"} THEN 1 ELSE 0)
  /\ claims[i] <= MaxAttempts

\* A claim and its outcome keep the number of runs and attempts in step.
LEMMA CountsStep ==
  ASSUME TypeOK, HoldsItsJob, ExclusiveRun, RowConsistent, AsRead, Counts, [Next]_vars
  PROVE  Counts'
<1> DEFINE Spent(i, r) == r.attempts + (IF r.status \in {"running", "succeeded"} THEN 1 ELSE 0)
<1>1. \A i \in DOMAIN jobs : claims[i] = Spent(i, jobs[i]) /\ claims[i] <= MaxAttempts
  BY DEF Counts
<1>2. ASSUME NEW c \in Clients, InsertJob(c) PROVE Counts'
  <2>1. /\ DOMAIN jobs' = DOMAIN jobs \cup {request[c].id}
        /\ \A i \in DOMAIN jobs : jobs'[i] = jobs[i] /\ claims'[i] = claims[i]
        /\ jobs'[request[c].id].status = "queued"
        /\ claims'[request[c].id] = 0
    BY <1>2, InsertFrame
  <2>2. jobs'[request[c].id].attempts = 0
    BY <1>2 DEF InsertJob, Extend, NewRow, TypeOK
  <2> QED BY <1>1, <2>1, <2>2, JobQueueAssumption DEF Counts, JobQueueAssumption
<1>3. ASSUME NEW w \in Workers, RowStep(w) PROVE Counts'
  <2> DEFINE i == worker[w].job
  <2>1. /\ i \in DOMAIN jobs /\ DOMAIN jobs' = DOMAIN jobs
        /\ \A k \in DOMAIN jobs \ {i} : jobs'[k] = jobs[k] /\ claims'[k] = claims[k]
    BY <1>3, RowFrame
  <2>2. /\ worker[w].attempts = jobs[i].attempts
        /\ worker[w].attempts \in Nat /\ worker[w].attempts < MaxAttempts
    BY <1>3 DEF RowStep, ClaimJob, MarkSucceeded, MarkFailure, HoldsItsJob, AsRead, TypeOK, Worker
  <2>3. claims'[i] = Spent(i, jobs'[i]) /\ claims'[i] <= MaxAttempts
    <3>1. CASE ClaimJob(w)
      <4>1. /\ jobs[i].status = "queued" /\ jobs'[i].status = "running"
            /\ jobs'[i].attempts = jobs[i].attempts /\ claims'[i] = claims[i] + 1
        BY <2>1, <3>1 DEF ClaimJob, Claimed, AsRead, TypeOK
      <4> QED BY <1>1, <2>1, <2>2, <4>1, JobQueueAssumption DEF JobQueueAssumption
    <3>2. CASE MarkSucceeded(w)
      <4>1. /\ jobs[i].status = "running" /\ jobs'[i].status = "succeeded"
            /\ jobs'[i].attempts = jobs[i].attempts /\ claims'[i] = claims[i]
        BY <2>1, <3>2 DEF MarkSucceeded, Succeeded, ExclusiveRun, TypeOK
      <4> QED BY <1>1, <2>1, <4>1
    <3>3. CASE MarkFailure(w)
      <4>1. /\ jobs[i].status = "running" /\ jobs'[i].status \in {"queued", "failed"}
            /\ jobs'[i].attempts = jobs[i].attempts + 1 /\ claims'[i] = claims[i]
        BY <2>1, <2>2, <3>3 DEF MarkFailure, Failed, ExclusiveRun, TypeOK
      <4> QED BY <1>1, <2>1, <2>2, <4>1
    <3> QED BY <1>3, <3>1, <3>2, <3>3 DEF RowStep
  <2> QED BY <1>1, <2>1, <2>3 DEF Counts
<1>4. CASE UNCHANGED <<jobs, claims>>
  BY <1>4 DEF Counts
<1> QED BY <1>2, <1>3, <1>4, StepCases, RequestFrame, LoopFrame DEF vars

\* With row locks a row stays as it was read.
LEMMA CountedStep ==
  ASSUME TypeOK, HoldsItsJob, ExclusiveRun, RowConsistent, RunsCounted, [Next]_vars
  PROVE  RunsCounted'
<1>1. SkipLocked => AsRead
  BY DEF HoldsItsJob, AsRead
<1>2. RunsCounted <=> (SkipLocked => Counts)
  BY DEF RunsCounted, Counts
<1>3. RunsCounted' <=> (SkipLocked => Counts')
  BY DEF RunsCounted, Counts
<1> QED
  BY <1>1, <1>2, <1>3, CountsStep

\* A new active job of a type next to an older one has overlapped it.
LEMMA OverlapStep ==
  ASSUME TypeOK, HoldsItsJob, ExclusiveRun, CheckStillTrue, DuplicatesOnlyByOverlap,
         [Next]_vars
  PROVE  DuplicatesOnlyByOverlap'
<1>1. ASSUME NEW c \in Clients, InsertJob(c) PROVE DuplicatesOnlyByOverlap'
  <2> DEFINE n == request[c].id
  <2>1. /\ n \notin DOMAIN jobs /\ DOMAIN jobs' = DOMAIN jobs \cup {n}
        /\ jobs'[n].type = request[c].type /\ jobs'[n].created = request[c].created
        /\ committedAt'[n] = now
    BY <1>1, InsertFrame
  <2>2. \A i \in DOMAIN jobs : jobs'[i] = jobs[i] /\ committedAt'[i] = committedAt[i]
    BY <1>1, InsertFrame
  <2>3. request[c].pc = "inserting"
    BY <1>1 DEF InsertJob
  <2>4. ASSUME NEW i \in DOMAIN jobs, jobs[i].type = request[c].type,
               jobs[i].status \in ActiveStatuses
        PROVE  committedAt[i] >= request[c].created
    BY <2>3, <2>4 DEF CheckStillTrue, ActiveStatuses, Terminal, TypeOK, Request
  <2>5. \A i \in DOMAIN jobs : now >= jobs[i].created
    BY DEF CheckStillTrue
  <2> QED BY <2>1, <2>2, <2>4, <2>5 DEF DuplicatesOnlyByOverlap
<1>2. ASSUME NEW w \in Workers, RowStep(w) PROVE DuplicatesOnlyByOverlap'
  <2>1. /\ DOMAIN jobs' = DOMAIN jobs
        /\ jobs[worker[w].job].status \in ActiveStatuses
        /\ \A k \in DOMAIN jobs \ {worker[w].job} : jobs'[k] = jobs[k]
    BY <1>2, RowFrame
  <2>2. \A i \in DOMAIN jobs : /\ jobs'[i].type = jobs[i].type
                               /\ jobs'[i].created = jobs[i].created
                               /\ committedAt'[i] = committedAt[i]
    BY RowsKept
  <2>3. \A i \in DOMAIN jobs :
          jobs'[i].status \in ActiveStatuses => jobs[i].status \in ActiveStatuses
    BY <2>1
  <2> QED BY <2>1, <2>2, <2>3 DEF DuplicatesOnlyByOverlap
<1>3. CASE UNCHANGED <<jobs, committedAt>>
  BY <1>3 DEF DuplicatesOnlyByOverlap
<1> QED BY <1>1, <1>2, <1>3, StepCases, RequestFrame, LoopFrame DEF vars

\* As long as nobody died every running row has its worker.
LEMMA OrphanStep ==
  ASSUME TypeOK, HoldsItsJob, ExclusiveRun, OrphansOnlyByDeath, [Next]_vars
  PROVE  OrphansOnlyByDeath'
<1> DEFINE Held == \A i \in DOMAIN jobs : jobs[i].status = "running" =>
             \E w \in Workers : worker[w].pc = "running" /\ worker[w].job = i
<1>1. OrphansOnlyByDeath <=> (crashes = 0 => Held)
  BY DEF OrphansOnlyByDeath, Orphan, Holders
<1>2. OrphansOnlyByDeath' <=> (crashes' = 0 => Held')
  BY DEF OrphansOnlyByDeath, Orphan, Holders
<1>3. crashes' = 0 => crashes = 0
  BY JobQueueAssumption
     DEF Next, ClientStep, WorkerStep, Refuse, CheckDuplicate, AssignId, InsertJob, DuplicateKey,
         Accept, FailRequest, SelectJob, Sleep, ClaimJob, LoseClaim, MarkSucceeded, MarkFailure,
         Die, Restart, vars, TypeOK, JobQueueAssumption
<1>4. SUFFICES ASSUME Held, crashes' = 0 PROVE Held'
  BY <1>1, <1>2, <1>3
<1>5. ASSUME NEW c \in Clients, InsertJob(c) PROVE Held'
  <2>1. /\ worker' = worker /\ DOMAIN jobs' = DOMAIN jobs \cup {request[c].id}
        /\ jobs'[request[c].id].status = "queued"
    BY <1>5, InsertFrame
  <2>2. \A i \in DOMAIN jobs : jobs'[i] = jobs[i]
    BY <1>5, InsertFrame
  <2> QED BY <1>4, <2>1, <2>2
<1>6. ASSUME NEW w \in Workers, LoopStep(w) PROVE Held'
  <2>1. worker[w].pc # "running"
    BY <1>3, <1>4, <1>6, JobQueueAssumption
       DEF LoopStep, SelectJob, LoseClaim, Die, Restart, TypeOK, JobQueueAssumption
  <2>2. jobs' = jobs /\ \A v \in Workers \ {w} : worker'[v] = worker[v]
    BY <1>6, LoopFrame
  <2> QED BY <1>4, <2>1, <2>2
<1>7. ASSUME NEW w \in Workers, RowStep(w) PROVE Held'
  <2> DEFINE i == worker[w].job
  <2>1. /\ \A v \in Workers \ {w} : worker'[v] = worker[v]
        /\ DOMAIN jobs' = DOMAIN jobs
        /\ \A k \in DOMAIN jobs \ {i} : jobs'[k] = jobs[k]
    BY <1>7, RowFrame
  <2>2. jobs'[i].status = "running" => worker'[w].pc = "running" /\ worker'[w].job = i
    BY <1>7 DEF RowStep, ClaimJob, MarkSucceeded, MarkFailure, Succeeded, Failed, TypeOK,
                HoldsItsJob
  <2> QED BY <1>4, <2>1, <2>2
<1>8. CASE UNCHANGED <<jobs, worker>>
  BY <1>4, <1>8
<1> QED BY <1>5, <1>6, <1>7, <1>8, StepCases, RequestFrame DEF vars

---------------------------------------------------------------------------
(* The theorems                                                            *)

\* The empty table satisfies the inductive invariant.
LEMMA InitIInv == Init => IInv
<1> SUFFICES ASSUME Init PROVE IInv
  OBVIOUS
<1>1. DOMAIN jobs = {} /\ DOMAIN committedAt = {} /\ DOMAIN claims = {}
  BY DEF Init
<1>2. LastJobId = 0
  <2>1. 1..0 = {}
    OBVIOUS
  <2> QED BY <1>1, <2>1, LargestOfDense DEF LastJobId, NoJob
<1>3. TypeOK
  BY <1>1, JobQueueAssumption
     DEF Init, TypeOK, Request, Worker, Blank, Empty, Settled, NoJob, JobQueueAssumption
<1>4. DenseIds
  BY <1>1, <1>2 DEF Init, DenseIds, Blank
<1>5. CheckStillTrue /\ InsertedRowThere /\ HoldsItsJob /\ ExclusiveRun
  BY <1>1 DEF Init, CheckStillTrue, InsertedRowThere, HoldsItsJob, ExclusiveRun, Blank, Empty,
              Settled
<1>6. RowConsistent /\ RunsCounted /\ DuplicatesOnlyByOverlap /\ OrphansOnlyByDeath
  BY <1>1 DEF RowConsistent, RunsCounted, DuplicatesOnlyByOverlap, OrphansOnlyByDeath, Orphan
<1> QED BY <1>3, <1>4, <1>5, <1>6 DEF IInv

\* Every step preserves the inductive invariant.
LEMMA NextIInv == IInv /\ [Next]_vars => IInv'
  BY TypeStep, DenseStep, CheckStep, InsertedStep, HoldsStep, ExclusiveStep, ConsistentStep,
     CountedStep, OverlapStep, OrphanStep
     DEF IInv

\* The inductive invariant holds in every state of every execution.
THEOREM Invariance == Spec => []IInv
  BY InitIInv, NextIInv, PTL DEF Spec

\* Columns and local states stay in their ranges.
THEOREM TypeCorrect == Spec => []TypeOK
<1>1. IInv => TypeOK
  BY DEF IInv
<1> QED BY <1>1, Invariance, PTL

\* One worker at a time executes a job, while its row says running: with row
\* locks and with the guarded UPDATE alike.
THEOREM ExclusiveRunHolds == Spec => []ExclusiveRun
<1>1. IInv => ExclusiveRun
  BY DEF IInv
<1> QED BY <1>1, Invariance, PTL

\* The columns of every row agree with its status.
THEOREM RowConsistentHolds == Spec => []RowConsistent
<1>1. IInv => RowConsistent
  BY DEF IInv
<1> QED BY <1>1, Invariance, PTL

\* With row locks the attempts column counts the failed runs, and a job is
\* started at most MaxAttempts times.
THEOREM RunsCountedHolds == Spec => []RunsCounted
<1>1. IInv => RunsCounted
  BY DEF IInv
<1> QED BY <1>1, Invariance, PTL

\* Every 202 names the row its own request created.
THEOREM AcceptedOwnsRowHolds == Spec => []AcceptedOwnsRow
<1>1. IInv => AcceptedOwnsRow
  BY DEF IInv, InsertedRowThere, AcceptedOwnsRow
<1> QED BY <1>1, Invariance, PTL

\* Two active jobs of one type come from requests that overlapped.
THEOREM DuplicatesOnlyByOverlapHolds == Spec => []DuplicatesOnlyByOverlap
<1>1. IInv => DuplicatesOnlyByOverlap
  BY DEF IInv
<1> QED BY <1>1, Invariance, PTL

\* While no worker has died, every running row is being executed.
THEOREM OrphansOnlyByDeathHolds == Spec => []OrphansOnlyByDeath
<1>1. IInv => OrphansOnlyByDeath
  BY DEF IInv
<1> QED BY <1>1, Invariance, PTL

\* No step writes a settled row.
THEOREM TerminalFinalHolds == Spec => TerminalFinal
<1>1. IInv /\ [Next]_vars =>
        [\A i \in DOMAIN jobs :
           jobs[i].status \in Terminal => i \in DOMAIN jobs' /\ jobs'[i] = jobs[i]]_vars
  BY RowsKept DEF IInv
<1> QED BY <1>1, Invariance, PTL DEF Spec, TerminalFinal

---------------------------------------------------------------------------
(* Row locks, or one worker                                                *)

\* What keeps workers apart at a row that is queued again: the claim's row
\* lock, or that there is no other worker.
Separate == SkipLocked \/ \A v, w \in Workers : v = w

\* One worker sees its row as it read it, locked or not.
LEMMA AsReadStep ==
  ASSUME Separate, IInv, AsRead, [Next]_vars, IInv'
  PROVE  AsRead'
<1> USE DEF IInv
<1>1. CASE SkipLocked
  BY <1>1 DEF HoldsItsJob, AsRead
<1>2. CASE \A v, w \in Workers : v = w
  <2>1. ASSUME NEW w \in Workers, SelectJob(w) PROVE AsRead'
    <3>1. PICK i \in Claimable : worker' = [worker EXCEPT ![w] = [pc |-> "claiming", job |-> i,
                                                       attempts |-> jobs[i].attempts]]
      BY <2>1 DEF SelectJob
    <3>2. /\ jobs' = jobs /\ jobs[i].status = "queued"
          /\ worker'[w].job = i /\ worker'[w].attempts = jobs[i].attempts
      BY <2>1, <3>1 DEF SelectJob, Claimable, TypeOK
    <3> QED
      BY <1>2, <3>2 DEF AsRead
  <2>2. ASSUME NEW w \in Workers, LoseClaim(w) \/ Die(w) \/ Restart(w) PROVE AsRead'
    <3>1. worker'[w].pc \notin {"claiming", "running"}
      BY <2>2 DEF LoseClaim, Die, Restart, Empty, TypeOK
    <3> QED
      BY <1>2, <3>1 DEF AsRead
  <2>3. ASSUME NEW w \in Workers, RowStep(w) PROVE AsRead'
    <3>1. CASE ClaimJob(w)
      <4>1. /\ worker[w].pc = "claiming"
            /\ worker'[w].pc = "running" /\ worker'[w].job = worker[w].job
            /\ worker'[w].attempts = worker[w].attempts
            /\ jobs'[worker[w].job].attempts = jobs[worker[w].job].attempts
        BY <3>1 DEF ClaimJob, Claimed, TypeOK, HoldsItsJob
      <4> QED
        BY <1>2, <4>1 DEF AsRead
    <3>2. CASE MarkSucceeded(w) \/ MarkFailure(w)
      <4>1. worker'[w].pc = "polling"
        BY <3>2 DEF MarkSucceeded, MarkFailure, Empty, TypeOK
      <4> QED
        BY <1>2, <4>1 DEF AsRead
    <3> QED
      BY <2>3, <3>1, <3>2 DEF RowStep
  <2>4. ASSUME NEW c \in Clients, InsertJob(c) PROVE AsRead'
    <3>1. worker' = worker /\ \A i \in DOMAIN jobs : jobs'[i] = jobs[i]
      BY <2>4, InsertFrame
    <3> QED
      BY <3>1 DEF AsRead, HoldsItsJob
  <2>5. ASSUME NEW c \in Clients, RequestStep(c) PROVE AsRead'
    BY <2>5, RequestFrame DEF AsRead
  <2>6. CASE UNCHANGED vars
    BY <2>6 DEF AsRead, vars
  <2> QED
    BY <2>1, <2>2, <2>3, <2>4, <2>5, <2>6, StepCases DEF LoopStep
<1> QED
  BY <1>1, <1>2 DEF Separate

\* So it counts every run.
LEMMA SeparateInvariance ==
  ASSUME Separate
  PROVE  Spec => [](IInv /\ AsRead /\ Counts)
<1>1. Init => AsRead /\ Counts
  <2>1. Init => (\A w \in Workers : worker[w].pc = "polling") /\ DOMAIN jobs = {}
    BY DEF Init, Empty
  <2> QED
    BY <2>1 DEF AsRead, Counts
<1>2. IInv /\ AsRead /\ Counts /\ [Next]_vars /\ IInv' => (AsRead /\ Counts)'
  BY AsReadStep, CountsStep DEF IInv
<1> QED
  BY Invariance, <1>1, <1>2, PTL DEF Spec

\* With row locks, or with one worker on a database that has none, a job is
\* started at most MaxAttempts times, however often the worker dies.
THEOREM RunsCountedUnlessShared == ASSUME Separate PROVE Spec => []Counts
  BY SeparateInvariance, PTL

---------------------------------------------------------------------------
(* Handlers that do not overlap                                            *)

\* No two handlers are between their duplicate check and their commit for
\* the same type.
NoOverlap == \A c, d \in Clients :
  c # d /\ request[c].pc \in {"numbering", "inserting"} /\ request[d].pc \in {"numbering", "inserting"}
    => request[c].type # request[d].type

\* Then what the check found is so until the row is inserted.
CheckHolds == \A c \in Clients :
  request[c].pc \in {"numbering", "inserting"} => Active(request[c].type) = {}

\* Only an INSERT makes a job active.
LEMMA ActiveShrinks ==
  ASSUME IInv, [Next]_vars, \A c \in Clients : ~InsertJob(c)
  PROVE  /\ DOMAIN jobs' = DOMAIN jobs
         /\ \A i \in DOMAIN jobs : /\ jobs'[i].type = jobs[i].type
                                   /\ jobs'[i].status \in ActiveStatuses => jobs[i].status \in ActiveStatuses
<1> USE DEF IInv
<1>1. ASSUME NEW w \in Workers, RowStep(w)
      PROVE  /\ DOMAIN jobs' = DOMAIN jobs
             /\ \A i \in DOMAIN jobs : jobs'[i].status \in ActiveStatuses => jobs[i].status \in ActiveStatuses
  BY <1>1, RowFrame
<1>2. CASE UNCHANGED jobs
  BY <1>2
<1> QED
  BY <1>1, <1>2, RowsKept, StepCases, RequestFrame, LoopFrame DEF vars

\* Handlers that do not overlap insert nothing behind each other's back.
LEMMA CheckHoldsStep ==
  ASSUME IInv, NoOverlap, CheckHolds, AtMostOneActivePerType, [Next]_vars
  PROVE  CheckHolds' /\ AtMostOneActivePerType'
<1> USE DEF IInv
<1>1. ASSUME NEW c \in Clients, InsertJob(c) PROVE CheckHolds' /\ AtMostOneActivePerType'
  <2> DEFINE n == request[c].id
  <2>1. /\ n \notin DOMAIN jobs /\ DOMAIN jobs' = DOMAIN jobs \cup {n}
        /\ jobs'[n].type = request[c].type
        /\ request'[c].pc = "refreshing"
        /\ \A d \in Clients \ {c} : request'[d] = request[d]
    BY <1>1, InsertFrame
  <2>2. \A i \in DOMAIN jobs : jobs'[i] = jobs[i]
    BY <1>1, InsertFrame
  <2>3. request[c].pc = "inserting"
    BY <1>1 DEF InsertJob
  <2>4. \A i \in DOMAIN jobs : jobs[i].type = request[c].type => jobs[i].status \notin ActiveStatuses
    BY <2>3 DEF CheckHolds, Active
  <2>5. AtMostOneActivePerType'
    BY <2>1, <2>2, <2>4 DEF AtMostOneActivePerType
  <2>6. ASSUME NEW d \in Clients, request'[d].pc \in {"numbering", "inserting"}
        PROVE  Active(request[d].type)' = {}
    <3>1. d # c /\ request'[d] = request[d]
      BY <2>1, <2>6
    <3>2. request[d].type # request[c].type
      BY <2>3, <2>6, <3>1 DEF NoOverlap
    <3>3. Active(request[d].type) = {}
      BY <2>6, <3>1 DEF CheckHolds
    <3> QED
      BY <2>1, <2>2, <3>1, <3>2, <3>3 DEF Active
  <2> QED
    BY <2>5, <2>6 DEF CheckHolds
<1>2. CASE \A c \in Clients : ~InsertJob(c)
  <2>1. AtMostOneActivePerType'
    BY <1>2, ActiveShrinks DEF AtMostOneActivePerType
  <2>2. ASSUME NEW t, Active(t) = {} PROVE Active(t)' = {}
    BY <1>2, <2>2, ActiveShrinks DEF Active
  <2>3. ASSUME NEW d \in Clients, request'[d].pc \in {"numbering", "inserting"}
        PROVE  Active(request'[d].type) = {}
    <3>1. ASSUME NEW c \in Clients, RequestStep(c) PROVE Active(request'[d].type) = {}
      <4>1. CASE d = c
        <5>1. ASSUME NEW t \in JobTypes, CheckDuplicate(c, t) PROVE Active(request'[d].type) = {}
          <6>1. request'[c].type = t /\ Active(t) = {}
            BY <5>1 DEF CheckDuplicate, TypeOK
          <6> QED
            BY <4>1, <6>1
        <5>2. CASE AssignId(c)
          <6>1. request[c].pc = "numbering" /\ request'[c].type = request[c].type
            BY <5>2 DEF AssignId, Move, TypeOK
          <6> QED
            BY <4>1, <6>1 DEF CheckHolds
        <5>3. ASSUME NEW t \in JobTypes, Refuse(c, t) PROVE request'[c].pc = "refused"
          BY <5>3 DEF Refuse, TypeOK
        <5>4. ASSUME DuplicateKey(c) \/ Accept(c) \/ FailRequest(c)
              PROVE  request'[c].pc \in {"error", "accepted"}
          BY <5>4 DEF DuplicateKey, Accept, FailRequest, Move, Blank, TypeOK
        <5> QED
          BY <2>3, <3>1, <4>1, <5>1, <5>2, <5>3, <5>4 DEF RequestStep
      <4>2. CASE d # c
        BY <2>3, <3>1, <4>2, RequestFrame DEF CheckHolds
      <4> QED
        BY <4>1, <4>2
    <3>2. CASE UNCHANGED request
      BY <2>3, <3>2 DEF CheckHolds
    <3> QED
      BY <1>2, <3>1, <3>2, StepCases, LoopFrame, RowFrame DEF vars
  <2> QED
    BY <2>1, <2>2, <2>3 DEF CheckHolds
<1> QED
  BY <1>1, <1>2

\* README.md:472 is right as long as no two requests for one type overlap:
\* a queued or running job of a type is the only one.  That it is wrong
\* otherwise is what the run queue_duplicates shows.
THEOREM OneActiveUnlessOverlap == Spec /\ []NoOverlap => []AtMostOneActivePerType
<1>1. Init => CheckHolds /\ AtMostOneActivePerType
  <2>1. Init => DOMAIN jobs = {}
    BY DEF Init
  <2> QED
    BY <2>1 DEF CheckHolds, AtMostOneActivePerType, Active
<1>2. IInv /\ NoOverlap /\ CheckHolds /\ AtMostOneActivePerType /\ [Next]_vars
        => (CheckHolds /\ AtMostOneActivePerType)'
  BY CheckHoldsStep
<1> QED
  BY Invariance, <1>1, <1>2, PTL DEF Spec

\* So one client at a time never gets a second active job of a type.
THEOREM OneClientNoDuplicates ==
  ASSUME \A c, d \in Clients : c = d
  PROVE  Spec => []AtMostOneActivePerType
<1>1. NoOverlap
  BY DEF NoOverlap
<1> QED
  BY OneActiveUnlessOverlap, <1>1, PTL

---------------------------------------------------------------------------
(* Jobs of dead workers                                                    *)

\* Nobody takes up a running row whose worker has died: neither a claim nor
\* an outcome nor a restarted worker reaches it, and every later request for
\* its type is refused.
OrphansStay == [][\A i \in DOMAIN jobs : Orphan(i) =>
  /\ jobs'[i] = jobs[i] /\ Orphan(i)'
  /\ \A c \in Clients, t \in JobTypes : CheckDuplicate(c, t) => t # jobs[i].type]_vars

\* A step of a worker goes past a job that nobody holds.
LEMMA WorkersPassOrphans ==
  ASSUME IInv, NEW w \in Workers, RowStep(w) \/ LoopStep(w), NEW i \in DOMAIN jobs, Orphan(i)
  PROVE  jobs'[i] = jobs[i] /\ (worker'[w].pc = "running" => worker'[w].job # i)
<1> USE DEF IInv
<1>1. jobs[i].status = "running" /\ (worker[w].pc = "running" => worker[w].job # i)
  BY DEF Orphan, Holders
<1>2. CASE LoopStep(w)
  BY <1>2, LoopFrame
<1>3. CASE ClaimJob(w)
  <2>1. /\ jobs[worker[w].job].status = "queued" /\ worker'[w].job = worker[w].job
    BY <1>3 DEF ClaimJob, HoldsItsJob, TypeOK
  <2>2. \A k \in DOMAIN jobs \ {worker[w].job} : jobs'[k] = jobs[k]
    BY <1>3, RowFrame DEF RowStep
  <2> QED
    BY <1>1, <2>1, <2>2
<1>4. CASE MarkSucceeded(w) \/ MarkFailure(w)
  <2>1. worker[w].pc = "running" /\ worker'[w].pc = "polling"
    BY <1>4 DEF MarkSucceeded, MarkFailure, Empty, TypeOK
  <2>2. \A k \in DOMAIN jobs \ {worker[w].job} : jobs'[k] = jobs[k]
    BY <1>4, RowFrame DEF RowStep
  <2> QED
    BY <1>1, <2>1, <2>2
<1> QED
  BY <1>2, <1>3, <1>4 DEF RowStep

\* README.md:49 has no exception for a worker that dies; the code has no
\* step that would end one.  The run queue_stuck shows how a job gets there.
THEOREM OrphansStayHolds == Spec => OrphansStay
<1> DEFINE Stays == \A i \in DOMAIN jobs : Orphan(i) =>
             /\ jobs'[i] = jobs[i] /\ Orphan(i)'
             /\ \A c \in Clients, t \in JobTypes : CheckDuplicate(c, t) => t # jobs[i].type
<1>1. IInv /\ [Next]_vars => [Stays]_vars
  <2> SUFFICES ASSUME IInv, [Next]_vars, NEW i \in DOMAIN jobs, Orphan(i)
               PROVE  /\ jobs'[i] = jobs[i] /\ Orphan(i)'
                      /\ \A c \in Clients, t \in JobTypes : CheckDuplicate(c, t) => t # jobs[i].type
    OBVIOUS
  <2>1. jobs[i].status = "running" /\ \A w \in Workers : worker[w].pc = "running" => worker[w].job # i
    BY DEF Orphan, Holders
  <2>2. ASSUME NEW c \in Clients, NEW t \in JobTypes, CheckDuplicate(c, t) PROVE t # jobs[i].type
    BY <2>1, <2>2 DEF CheckDuplicate, Active, ActiveStatuses
  <2>3. i \in DOMAIN jobs'
    BY RowsKept DEF IInv
  <2>4. jobs'[i] = jobs[i] /\ \A w \in Workers : worker'[w].pc = "running" => worker'[w].job # i
    <3>1. ASSUME NEW w \in Workers, RowStep(w) \/ LoopStep(w)
          PROVE  jobs'[i] = jobs[i] /\ \A v \in Workers : worker'[v].pc = "running" => worker'[v].job # i
      <4>1. \A v \in Workers \ {w} : worker'[v] = worker[v]
        BY <3>1, LoopFrame, RowFrame DEF IInv
      <4> QED
        BY <2>1, <3>1, <4>1, WorkersPassOrphans
    <3>2. ASSUME NEW c \in Clients, RequestStep(c) \/ InsertJob(c)
          PROVE  worker' = worker /\ jobs'[i] = jobs[i]
      BY <3>2, RequestFrame, InsertFrame DEF IInv
    <3> QED
      BY <2>1, <3>1, <3>2, StepCases DEF vars
  <2> QED
    BY <2>1, <2>2, <2>3, <2>4 DEF Orphan, Holders
<1> QED
  BY Invariance, <1>1, PTL DEF Spec, OrphansStay

---------------------------------------------------------------------------
(* Refinement of JobLifecycle                                              *)

\* What the lifecycle sees of a row, and of the table.
View(r) == [status |-> r.status, attempts |-> r.attempts]
JobView == [i \in 1..LastJobId |-> View(jobs[i])]

\* An UPDATE of one row is seen as a change of that job.
LEMMA ViewOfUpdate ==
  ASSUME TypeOK, HoldsItsJob, ExclusiveRun, DenseIds, NEW w \in Workers, RowStep(w)
  PROVE  /\ LastJobId' = LastJobId
         /\ worker[w].job \in 1..LastJobId
         /\ JobView' = [JobView EXCEPT ![worker[w].job] = View(jobs'[worker[w].job])]
<1> DEFINE i == worker[w].job
<1>1. /\ i \in DOMAIN jobs /\ DOMAIN jobs' = DOMAIN jobs
      /\ \A k \in DOMAIN jobs \ {i} : jobs'[k] = jobs[k]
  BY RowFrame
<1>2. LastJobId' = LastJobId
  BY <1>1 DEF LastJobId
<1>3. i \in 1..LastJobId /\ \A k \in (1..LastJobId) \ {i} : jobs'[k] = jobs[k]
  BY <1>1 DEF DenseIds
<1>4. JobView' = [k \in 1..LastJobId |-> View(jobs'[k])]
  BY <1>2 DEF JobView, View
<1> QED BY <1>2, <1>3, <1>4 DEF JobView

\* Where rows stay as they were read every step of the queue is a step of the
\* lifecycle of one job, or changes no job.
LEMMA LifecycleStep ==
  ASSUME AsRead, IInv, [Next]_vars
  PROVE  [Lifecycle!Next]_(Lifecycle!vars)
<1> USE DEF IInv
<1> USE JobQueueAssumption
<1>1. CASE UNCHANGED jobs
  <2>1. LastJobId' = LastJobId
    BY <1>1 DEF LastJobId
  <2> QED BY <1>1, <2>1 DEF Lifecycle!vars
<1>2. ASSUME NEW c \in Clients, InsertJob(c) PROVE Lifecycle!Enqueue
  <2>1. request[c].id = LastJobId + 1 /\ LastJobId \in Nat
    BY <1>2 DEF InsertJob, DenseIds, NextJobId
  <2>2. DOMAIN jobs' = DOMAIN jobs \cup {request[c].id}
    BY <1>2, InsertFrame
  <2>3. DOMAIN jobs' = 1..(LastJobId + 1)
    BY <2>1, <2>2 DEF DenseIds
  <2>4. LastJobId' = LastJobId + 1
    BY <2>1, <2>3, LargestOfDense DEF LastJobId, NoJob
  <2>5. \A i \in 1..LastJobId : jobs'[i] = jobs[i]
    BY <1>2, InsertFrame DEF DenseIds
  <2>6. View(jobs'[LastJobId + 1]) = Lifecycle!NewJob
    BY <1>2, <2>1 DEF InsertJob, Extend, NewRow, TypeOK, View, Lifecycle!NewJob
  <2>7. JobView' = [i \in 1..(LastJobId + 1) |->
                      IF i <= LastJobId THEN JobView[i] ELSE Lifecycle!NewJob]
    BY <2>1, <2>4, <2>5, <2>6 DEF JobView, View
  <2> QED BY <2>4, <2>7 DEF Lifecycle!Enqueue, JobView, View
<1>3. ASSUME NEW w \in Workers, RowStep(w) PROVE Lifecycle!Next
  <2> PICK i \in 1..LastJobId : i = worker[w].job
    BY <1>3, ViewOfUpdate
  <2>1. /\ LastJobId' = LastJobId /\ i \in DOMAIN jobs
        /\ JobView' = [JobView EXCEPT ![i] = View(jobs'[i])]
        /\ JobView[i] = View(jobs[i])
    BY <1>3, ViewOfUpdate, RowFrame DEF JobView
  <2>2. CASE ClaimJob(w)
    <3>1. jobs[i].status = "queued" /\ jobs'[i] = Claimed(jobs[i])
      BY <2>1, <2>2 DEF ClaimJob, AsRead, TypeOK
    <3>2. /\ JobView[i].status = "queued"
          /\ View(jobs'[i]) = [status |-> "running", attempts |-> JobView[i].attempts]
      BY <2>1, <3>1 DEF Claimed, View
    <3>3. Lifecycle!Start(i)
      BY <2>1, <3>2 DEF Lifecycle!Start, JobView, View
    <3> QED BY <3>3 DEF Lifecycle!Next
  <2>3. CASE MarkSucceeded(w)
    <3>1. jobs[i].status = "running" /\ jobs'[i] = Succeeded(jobs[i])
      BY <2>1, <2>3 DEF MarkSucceeded, ExclusiveRun, TypeOK
    <3>2. /\ JobView[i].status = "running"
          /\ View(jobs'[i]) = [status |-> "succeeded", attempts |-> JobView[i].attempts]
      BY <2>1, <3>1 DEF Succeeded, View
    <3>3. Lifecycle!Succeed(i)
      BY <2>1, <3>2 DEF Lifecycle!Succeed, JobView, View
    <3> QED BY <3>3 DEF Lifecycle!Next
  <2>4. CASE MarkFailure(w)
    <3>1. /\ jobs[i].status = "running"
          /\ jobs'[i] = Failed(jobs[i], jobs[i].attempts + 1, Requeue(w))
          /\ Requeue(w) <=> jobs[i].attempts + 1 < MaxAttempts
          /\ jobs[i].attempts \in Nat /\ jobs[i].attempts < MaxAttempts
      BY <2>1, <2>4 DEF MarkFailure, ExclusiveRun, TypeOK, HoldsItsJob, AsRead, Requeue, Row
    <3>2. CASE Requeue(w)
      <4>1. /\ JobView[i].status = "running" /\ JobView[i].attempts + 1 < MaxAttempts
            /\ View(jobs'[i]) = [status |-> "queued", attempts |-> JobView[i].attempts + 1]
        BY <2>1, <3>1, <3>2 DEF Failed, View
      <4>2. Lifecycle!Retry(i)
        BY <2>1, <4>1 DEF Lifecycle!Retry, JobView, View
      <4> QED BY <4>2 DEF Lifecycle!Next
    <3>3. CASE ~Requeue(w)
      <4>1. jobs[i].attempts + 1 = MaxAttempts
        BY <3>1, <3>3 DEF JobQueueAssumption
      <4>2. /\ JobView[i].status = "running" /\ JobView[i].attempts + 1 = MaxAttempts
            /\ View(jobs'[i]) = [status |-> "failed", attempts |-> MaxAttempts]
        BY <2>1, <3>1, <3>3, <4>1 DEF Failed, View
      <4>3. Lifecycle!GiveUp(i)
        BY <2>1, <4>2 DEF Lifecycle!GiveUp, JobView, View
      <4> QED BY <4>3 DEF Lifecycle!Next
    <3> QED BY <3>2, <3>3
  <2> QED BY <1>3, <2>2, <2>3, <2>4 DEF RowStep
<1> QED BY <1>1, <1>2, <1>3, StepCases, RequestFrame, LoopFrame DEF Lifecycle!Next, vars

\* With row locks, or with one worker, the jobs table, seen as statuses and
\* attempts, is the abstract lifecycle: numbered without gaps, at most
\* MaxAttempts runs each, settled for good.
THEOREM LifecycleImplemented == ASSUME Separate PROVE Spec => ImplementsLifecycle
<1>1. Init => Lifecycle!Init
  <2> SUFFICES ASSUME Init PROVE Lifecycle!Init
    OBVIOUS
  <2>1. LastJobId = 0
    BY InitIInv, LargestOfDense DEF Init, IInv, DenseIds, LastJobId, NoJob
  <2> QED BY <2>1 DEF Lifecycle!Init
<1>2. IInv /\ AsRead /\ [Next]_vars => [Lifecycle!Next]_(Lifecycle!vars)
  BY LifecycleStep
<1> QED BY <1>1, <1>2, SeparateInvariance, PTL DEF Spec, ImplementsLifecycle, Lifecycle!Spec
=============================================================================
