--------------------------- MODULE HarnessProofs ---------------------------
(* Proofs about HarnessSystem, for any number of clients, workers, runner  *)
(* processes, deaths and kills.  What the queue guarantees is taken from   *)
(* JobQueueProofs, since every step of the whole is a step of the queue or *)
(* leaves it alone.                                                        *)
EXTENDS HarnessSystem, FiniteSetTheorems, TLAPS

Proved == INSTANCE JobQueueProofs WITH JobTypes <- Types, SkipLocked <- TRUE,
                                       MaxCrashes <- MaxDeaths, crashes <- deaths

---------------------------------------------------------------------------
(* The queue within the whole                                              *)

\* The queue's constants are as its proofs assume.
LEMMA QueueAssumed == Proved!JobQueueAssumption
  BY HarnessAssumption DEF Proved!JobQueueAssumption

\* Handlers are those of the queue.
LEMMA HandlersOfQueue ==
  ASSUME NEW c \in Clients, Queue!ClientStep(c)
  PROVE  Proved!ClientStep(c)
<1>1. ASSUME NEW t \in Types, Queue!Refuse(c, t) PROVE Proved!Refuse(c, t)
  BY <1>1 DEF Queue!Refuse, Queue!Settled, Queue!IsOldest, Queue!Active, Queue!ActiveStatuses,
       Proved!Refuse, Proved!Settled, Proved!IsOldest, Proved!Active, Proved!ActiveStatuses
<1>2. ASSUME NEW t \in Types, Queue!CheckDuplicate(c, t) PROVE Proved!CheckDuplicate(c, t)
  BY <1>2 DEF Queue!CheckDuplicate, Queue!Settled, Queue!Active, Queue!ActiveStatuses, Queue!NoJob,
       Proved!CheckDuplicate, Proved!Settled, Proved!Active, Proved!ActiveStatuses, Proved!NoJob
<1>3. Queue!AssignId(c) => Proved!AssignId(c)
  BY DEF Queue!AssignId, Queue!Move, Queue!NextJobId, Queue!LastJobId, Queue!NoJob,
       Proved!AssignId, Proved!Move, Proved!NextJobId, Proved!LastJobId, Proved!NoJob
<1>4. Queue!InsertJob(c) => Proved!InsertJob(c)
  BY DEF Queue!InsertJob, Queue!Extend, Queue!NewRow, Queue!Move,
       Proved!InsertJob, Proved!Extend, Proved!NewRow, Proved!Move
<1>5. Queue!DuplicateKey(c) \/ Queue!FailRequest(c) => Proved!DuplicateKey(c) \/ Proved!FailRequest(c)
  BY DEF Queue!DuplicateKey, Queue!FailRequest, Queue!Blank, Queue!NoType, Queue!NoJob, Queue!Settled,
       Proved!DuplicateKey, Proved!FailRequest, Proved!Blank, Proved!NoType, Proved!NoJob, Proved!Settled
<1>6. Queue!Accept(c) => Proved!Accept(c)
  BY DEF Queue!Accept, Queue!Move, Proved!Accept, Proved!Move
<1> QED
  BY <1>1, <1>2, <1>3, <1>4, <1>5, <1>6 DEF Queue!ClientStep, Proved!ClientStep

\* So are the steps of worker loops.
LEMMA LoopsOfQueue ==
  ASSUME NEW w \in Workers,
         \/ Queue!SelectJob(w) \/ Queue!Sleep(w) \/ Queue!ClaimJob(w)
         \/ Queue!MarkSucceeded(w) \/ Queue!MarkFailure(w) \/ Queue!Die(w) \/ Queue!Restart(w)
  PROVE  Proved!WorkerStep(w) \/ Proved!Die(w) \/ Proved!Restart(w)
<1>1. Queue!SelectJob(w) => Proved!SelectJob(w)
  BY DEF Queue!SelectJob, Queue!Claimable, Queue!Locked, Queue!IsOldest,
       Proved!SelectJob, Proved!Claimable, Proved!Locked, Proved!IsOldest
<1>2. Queue!Sleep(w) => Proved!Sleep(w)
  BY DEF Queue!Sleep, Queue!Claimable, Queue!Locked, Queue!vars,
       Proved!Sleep, Proved!Claimable, Proved!Locked, Proved!vars
<1>3. Queue!ClaimJob(w) => Proved!ClaimJob(w)
  BY DEF Queue!ClaimJob, Queue!Claimed, Proved!ClaimJob, Proved!Claimed
<1>4. Queue!MarkSucceeded(w) => Proved!MarkSucceeded(w)
  BY DEF Queue!MarkSucceeded, Queue!Succeeded, Queue!Empty, Queue!NoJob,
       Proved!MarkSucceeded, Proved!Succeeded, Proved!Empty, Proved!NoJob
<1>5. Queue!MarkFailure(w) => Proved!MarkFailure(w)
  BY DEF Queue!MarkFailure, Queue!Failed, Queue!Requeue, Queue!Empty, Queue!NoJob,
       Proved!MarkFailure, Proved!Failed, Proved!Requeue, Proved!Empty, Proved!NoJob
<1>6. (Queue!Die(w) => Proved!Die(w)) /\ (Queue!Restart(w) => Proved!Restart(w))
  BY DEF Queue!Die, Queue!Restart, Queue!Empty, Queue!NoJob,
       Proved!Die, Proved!Restart, Proved!Empty, Proved!NoJob
<1> QED
  BY <1>1, <1>2, <1>3, <1>4, <1>5, <1>6 DEF Proved!WorkerStep

\* The whole begins as the queue does, ...
LEMMA QueueBegins == Init => Proved!IInv
<1>1. Init => Proved!Init
  BY DEF Init, Queue!Init, Queue!Blank, Queue!NoType, Queue!NoJob, Queue!Empty,
       Proved!Init, Proved!Blank, Proved!NoType, Proved!NoJob, Proved!Empty
<1> QED
  BY <1>1, QueueAssumed, Proved!InitIInv DEF Proved!InitIInv

\* ... and every step is one of the queue or leaves it alone.
LEMMA StepOfQueue == [Next]_vars => [Proved!Next]_Proved!vars
<1> SUFFICES ASSUME [Next]_vars PROVE [Proved!Next]_Proved!vars
  OBVIOUS
<1>1. CASE UNCHANGED queueVars
  BY <1>1 DEF queueVars, Proved!vars
<1>2. CASE QueueAlone
  BY <1>2, HandlersOfQueue, LoopsOfQueue DEF QueueAlone, Proved!Next
<1>3. ASSUME NEW w \in Workers, LaunchFails(w) \/ Record(w) \/ Die(w) \/ DieWithRunner(w)
      PROVE  [Proved!Next]_Proved!vars
  BY <1>3, LoopsOfQueue DEF LaunchFails, Record, Die, DieWithRunner, Proved!Next
<1>4. ASSUME NEW w \in Workers, Launch(w) PROVE UNCHANGED queueVars
  BY <1>4 DEF Launch
<1>5. IndexAlone \/ (\E s \in Slots : RunnerStep(s) \/ Kill(s)) \/ UNCHANGED vars => UNCHANGED queueVars
  BY DEF IndexAlone, RunnerStep, Kill, vars
<1> QED
  BY <1>1, <1>2, <1>3, <1>4, <1>5 DEF Next, WorkerWaits

\* So the queue's invariant holds throughout.
LEMMA QueueKept == Proved!IInv /\ [Next]_vars => Proved!IInv'
  BY StepOfQueue, QueueAssumed, Proved!NextIInv DEF Proved!NextIInv

\* What of the queue's invariant is needed: who holds which job.
LEMMA QueueFacts ==
  ASSUME Proved!IInv
  PROVE  /\ worker \in [Workers -> Proved!Worker] /\ deaths \in Nat
         /\ DOMAIN jobs \subseteq Nat \ {0} /\ jobs \in [DOMAIN jobs -> Proved!Row]
         /\ \A w \in Workers : worker[w].pc = "running" =>
              worker[w].job \in DOMAIN jobs /\ jobs[worker[w].job].status = "running"
         /\ \A w \in Workers : worker[w].pc = "claiming" =>
              worker[w].job \in DOMAIN jobs /\ jobs[worker[w].job].status = "queued"
         /\ \A v, w \in Workers : v # w /\ worker[v].pc = "running" /\ worker[w].pc = "running"
              => worker[v].job # worker[w].job
  BY DEF Proved!IInv, Proved!TypeOK, Proved!Ids, Proved!NoJob, Proved!HoldsItsJob, Proved!ExclusiveRun

---------------------------------------------------------------------------
(* Steps of the queue alone                                                *)

\* A row that one process writes; the other rows stay.
RowSet(i, status) ==
  /\ DOMAIN jobs' = DOMAIN jobs
  /\ jobs'[i].status = status /\ jobs'[i].type = jobs[i].type
  /\ \A k \in DOMAIN jobs : k # i => jobs'[k] = jobs[k]

\* A worker that one step moves; the other workers stay.
WorkerSet(w, pc, i) ==
  /\ worker'[w].pc = pc /\ worker'[w].job = i
  /\ \A v \in Workers : v # w => worker'[v] = worker[v]

\* Handlers leave rows as they are and add queued ones.
LEMMA HandlerStep ==
  ASSUME Proved!IInv, NEW c \in Clients, Queue!ClientStep(c)
  PROVE  /\ UNCHANGED <<worker, deaths>> /\ DOMAIN jobs \subseteq DOMAIN jobs'
         /\ \A i \in DOMAIN jobs : jobs'[i] = jobs[i]
         /\ \A i \in DOMAIN jobs' \ DOMAIN jobs : jobs'[i].status = "queued"
<1>1. CASE Queue!InsertJob(c)
  BY <1>1 DEF Queue!InsertJob, Queue!Extend, Queue!NewRow
<1>2. CASE ~Queue!InsertJob(c)
  BY <1>2 DEF Queue!ClientStep, Queue!Refuse, Queue!CheckDuplicate, Queue!AssignId,
       Queue!DuplicateKey, Queue!Accept, Queue!FailRequest
<1> QED
  BY <1>1, <1>2

\* A worker selects a job, sleeps or is started again: no row changes, and
\* nobody begins or stops running a job.
LEMMA IdleStep ==
  ASSUME Proved!IInv, NEW w \in Workers, Queue!SelectJob(w) \/ Queue!Sleep(w) \/ Queue!Restart(w)
  PROVE  /\ UNCHANGED <<jobs, deaths>> /\ worker[w].pc # "running"
         /\ \A v \in Workers : /\ worker'[v].pc = "running" <=> worker[v].pc = "running"
                               /\ worker[v].pc = "running" => worker'[v] = worker[v]
<1>1. worker \in [Workers -> Proved!Worker]
  BY QueueFacts
<1>2. CASE Queue!SelectJob(w)
  BY <1>1, <1>2 DEF Queue!SelectJob
<1>3. CASE Queue!Sleep(w)
  BY <1>1, <1>3 DEF Queue!Sleep, Queue!vars
<1>4. CASE Queue!Restart(w)
  BY <1>1, <1>4 DEF Queue!Restart, Queue!Empty
<1> QED
  BY <1>2, <1>3, <1>4

\* A worker claims its job, or records its outcome.
LEMMA WritingStep ==
  ASSUME Proved!IInv, NEW w \in Workers
  PROVE  LET i == worker[w].job IN
         /\ Queue!ClaimJob(w) => /\ RowSet(i, "running") /\ WorkerSet(w, "running", i)
                                 /\ worker[w].pc = "claiming" /\ UNCHANGED deaths
         /\ Queue!MarkSucceeded(w) => /\ RowSet(i, "succeeded") /\ WorkerSet(w, "polling", 0)
                                      /\ worker[w].pc = "running" /\ UNCHANGED deaths
         /\ Queue!MarkFailure(w) => /\ RowSet(i, "queued") \/ RowSet(i, "failed")
                                    /\ WorkerSet(w, "polling", 0)
                                    /\ worker[w].pc = "running" /\ UNCHANGED deaths
<1> DEFINE i == worker[w].job
<1>1. /\ worker \in [Workers -> Proved!Worker] /\ jobs \in [DOMAIN jobs -> Proved!Row]
      /\ worker[w].pc \in {"claiming", "running"} => i \in DOMAIN jobs
  BY QueueFacts
<1>2. ASSUME Queue!ClaimJob(w)
      PROVE  /\ RowSet(i, "running") /\ WorkerSet(w, "running", i)
             /\ worker[w].pc = "claiming" /\ UNCHANGED deaths
  BY <1>1, <1>2 DEF Queue!ClaimJob, Queue!Claimed, RowSet, WorkerSet
<1>3. ASSUME Queue!MarkSucceeded(w)
      PROVE  /\ RowSet(i, "succeeded") /\ WorkerSet(w, "polling", 0)
             /\ worker[w].pc = "running" /\ UNCHANGED deaths
  BY <1>1, <1>3 DEF Queue!MarkSucceeded, Queue!Succeeded, Queue!Empty, Queue!NoJob, RowSet, WorkerSet
<1>4. ASSUME Queue!MarkFailure(w)
      PROVE  /\ RowSet(i, "queued") \/ RowSet(i, "failed")
             /\ WorkerSet(w, "polling", 0) /\ worker[w].pc = "running" /\ UNCHANGED deaths
  <2> DEFINE row == Queue!Failed(jobs[i], worker[w].attempts + 1, Queue!Requeue(w))
  <2>1. row.status \in {"queued", "failed"} /\ row.type = jobs[i].type
    BY DEF Queue!Failed
  <2>2. jobs' = [jobs EXCEPT ![i] = row] /\ worker[w].pc = "running" /\ UNCHANGED deaths
    BY <1>4 DEF Queue!MarkFailure
  <2>3. WorkerSet(w, "polling", 0)
    BY <1>1, <1>4 DEF Queue!MarkFailure, Queue!Empty, Queue!NoJob, WorkerSet
  <2> HIDE DEF row
  <2> QED
    BY <1>1, <2>1, <2>2, <2>3 DEF RowSet
<1> QED
  BY <1>2, <1>3, <1>4

\* A worker dies.
LEMMA DeathStep ==
  ASSUME Proved!IInv, NEW w \in Workers, Queue!Die(w)
  PROVE  UNCHANGED jobs /\ deaths' # 0 /\ WorkerSet(w, "down", 0)
  BY QueueFacts DEF Queue!Die, Queue!Empty, Queue!NoJob, WorkerSet

---------------------------------------------------------------------------
(* Steps of a runner                                                       *)

\* One step of one runner.
RunnerMoves(s) == \/ Index!FullStep(s) \/ Index!IncrementalStep(s) \/ Index!VerifyStep(s)
                  \/ Index!SQLiteStep(s) \/ Index!Fail(s) \/ Index!Crash(s)

OnSlots == runner = [s \in Slots |-> runner[s]]

\* It leaves the others alone.
LEMMA OthersStay ==
  ASSUME OnSlots, NEW s \in Slots, RunnerMoves(s)
  PROVE  OnSlots' /\ \A t \in Slots : t # s => runner'[t] = runner[t]
<1> DEFINE Goal == OnSlots' /\ \A t \in Slots : t # s => runner'[t] = runner[t]
<1>1. ASSUME NEW l, Index!Becomes(s, l) PROVE Goal
  BY <1>1 DEF Index!Becomes, OnSlots
<1>2. ASSUME runner' = runner PROVE Goal
  BY <1>2 DEF OnSlots
<1> SUFFICES Goal
  OBVIOUS
<1> HIDE DEF Goal
<1>3. CASE Index!FullStep(s)
  BY <1>1, <1>3 DEF Index!FullStep, Index!StartFull, Index!ScanFull, Index!OpenTmp, Index!BeginPersist,
       Index!CommitPersist, Index!SelfCheck, Index!SelfCheckMissing, Index!Replace, Index!CleanUp,
       Index!Unlink, Index!Moves, Index!Sets
<1>4. CASE Index!IncrementalStep(s)
  BY <1>1, <1>4 DEF Index!IncrementalStep, Index!StartIncremental, Index!OpenDb, Index!CommitNothing,
       Index!BeginWrite, Index!CommitWrite, Index!Report, Index!Moves, Index!Sets
<1>5. CASE Index!VerifyStep(s)
  BY <1>1, <1>5 DEF Index!VerifyStep, Index!StartVerify, Index!CountChunks, Index!CompareDims,
       Index!SampleQuery, Index!SkipSampleQuery, Index!Moves, Index!Sets
<1>6. CASE Index!SQLiteStep(s)
  BY <1>1, <1>2, <1>6 DEF Index!SQLiteStep, Index!Flush, Index!TakeJournal, Index!Moves, Index!Sets
<1>7. CASE Index!Fail(s) \/ Index!Crash(s)
  BY <1>1, <1>7 DEF Index!Fail, Index!FailsWith, Index!Crash
<1> QED
  BY <1>3, <1>4, <1>5, <1>6, <1>7 DEF RunnerMoves

\* One that has begun does not begin again: the runners at work are those
\* that were.
LEMMA NobodyBegins ==
  ASSUME OnSlots, NEW s \in Slots, RunnerMoves(s), ~Ended(s)
  PROVE  Live' \subseteq Live
  BY OthersStay DEF Live, Ended

---------------------------------------------------------------------------
(* The invariant that joins workers, rows and runners                      *)

Shape == /\ OnSlots
         /\ child \in [Workers -> Slots \cup {None}]
         /\ serves \in [Slots -> Nat]

\* A worker waits only for a runner of the job it runs.
Waits == \A w \in Workers : child[w] # None =>
  worker[w].pc = "running" /\ worker[w].job = serves[child[w]]

\* Who runs the job of a runner at work waits for that very runner.
AtWork == \A s \in Live :
  /\ serves[s] \in DOMAIN jobs
  /\ \A w \in Workers : worker[w].pc = "running" /\ worker[w].job = serves[s] => child[w] = s

\* As long as no worker has died somebody waits for every runner.
Attended == deaths = 0 => \A s \in Live : \E w \in Workers : child[w] = s

Joined == Shape /\ Waits /\ AtWork /\ RunnersAreRunningJobs /\ Attended

\* A step of a runner, or of the index around the runners.
LEMMA RunnersGoOn ==
  ASSUME Joined, UNCHANGED <<queueVars, child, serves>>, OnSlots', Live' \subseteq Live
  PROVE  Joined'
  BY DEF Joined, Shape, Waits, AtWork, RunnersAreRunningJobs, Attended, queueVars

\* A step of the queue before a runner is started.
LEMMA QueueGoesOn ==
  ASSUME Proved!IInv, Joined, QueueAlone
  PROVE  Joined'
<1>1. /\ UNCHANGED <<runner, child, serves>>
      /\ Shape' /\ Live' = Live
  BY DEF QueueAlone, indexVars, processes, Joined, Shape, OnSlots, Live, Ended
<1>2. \A s \in Live : serves[s] \in DOMAIN jobs /\ jobs[serves[s]].status = "running"
  BY DEF Joined, AtWork, RunnersAreRunningJobs
<1>3. ASSUME NEW c \in Clients, Queue!ClientStep(c) PROVE Joined'
  <2>1. /\ UNCHANGED <<worker, deaths>> /\ DOMAIN jobs \subseteq DOMAIN jobs'
        /\ \A i \in DOMAIN jobs : jobs'[i] = jobs[i]
    BY <1>3, HandlerStep
  <2> QED
    BY <1>1, <1>2, <2>1 DEF Joined, Waits, AtWork, RunnersAreRunningJobs, Attended
<1>4. ASSUME NEW w \in Workers, Queue!SelectJob(w) \/ Queue!Sleep(w) \/ Queue!Restart(w) PROVE Joined'
  <2>1. /\ UNCHANGED <<jobs, deaths>>
        /\ \A v \in Workers : /\ worker'[v].pc = "running" <=> worker[v].pc = "running"
                              /\ worker[v].pc = "running" => worker'[v] = worker[v]
    BY <1>4, IdleStep
  <2> QED
    BY <1>1, <2>1 DEF Joined, Waits, AtWork, RunnersAreRunningJobs, Attended
<1>5. ASSUME NEW w \in Workers, Queue!ClaimJob(w) PROVE Joined'
  <2> DEFINE i == worker[w].job
  <2>1. /\ RowSet(i, "running") /\ WorkerSet(w, "running", i)
        /\ worker[w].pc = "claiming" /\ UNCHANGED deaths
    BY <1>5, WritingStep
  <2>2. i \in DOMAIN jobs /\ jobs[i].status = "queued"
    BY <2>1, QueueFacts
  <2>3. \A s \in Live : serves[s] # i
    BY <1>2, <2>2
  <2>4. child[w] = None
    BY <2>1 DEF Joined, Waits
  <2> HIDE DEF i
  <2>5. Waits'
    BY <1>1, <2>1, <2>4 DEF Joined, Waits, WorkerSet
  <2>6. AtWork'
    BY <1>1, <2>1, <2>3 DEF Joined, AtWork, WorkerSet, RowSet
  <2>7. RunnersAreRunningJobs'
    BY <1>1, <1>2, <2>1, <2>3 DEF Joined, RunnersAreRunningJobs, RowSet
  <2> QED
    BY <1>1, <2>1, <2>5, <2>6, <2>7 DEF Joined, Attended
<1> QED
  BY <1>3, <1>4, <1>5 DEF QueueAlone

\* A worker stops running its job, whose runner, if it had one, has ended.
LEMMA StopsRunning ==
  ASSUME Proved!IInv, Joined, NEW w \in Workers, NEW status,
         worker[w].pc = "running", child[w] = None \/ child[w] \notin Live,
         RowSet(worker[w].job, status), WorkerSet(w, "polling", 0),
         child' = [child EXCEPT ![w] = None], UNCHANGED <<runner, serves, deaths>>
  PROVE  Joined'
<1> DEFINE i == worker[w].job
<1>1. Live' = Live /\ Shape'
  BY DEF Live, Ended, Joined, Shape, OnSlots
<1>2. \A s \in Live : serves[s] \in DOMAIN jobs /\ serves[s] # i
  <2>1. \A s \in Live : s \in Slots /\ s # None
    BY HarnessAssumption DEF Live
  <2> QED
    BY <2>1 DEF Joined, AtWork
<1>3. \A v \in Workers : child'[v] = IF v = w THEN None ELSE child[v]
  BY DEF Joined, Shape
<1>4. \A s \in Live : jobs'[serves[s]] = jobs[serves[s]]
  BY <1>2 DEF RowSet
<1>5. Waits'
  BY <1>3 DEF Joined, Waits, WorkerSet
<1>6. AtWork'
  BY <1>1, <1>2, <1>3 DEF Joined, AtWork, WorkerSet, RowSet
<1>7. RunnersAreRunningJobs'
  BY <1>1, <1>4 DEF Joined, RunnersAreRunningJobs
<1>8. Attended'
  BY <1>1, <1>3, HarnessAssumption DEF Joined, Attended
<1> QED
  BY <1>1, <1>5, <1>6, <1>7, <1>8 DEF Joined

\* A worker dies, whether its runner does or not.
LEMMA Dies ==
  ASSUME Proved!IInv, Joined, NEW w \in Workers, Queue!Die(w),
         child' = [child EXCEPT ![w] = None], UNCHANGED serves, OnSlots', Live' \subseteq Live
  PROVE  Joined'
<1>1. UNCHANGED jobs /\ deaths' # 0 /\ WorkerSet(w, "down", 0)
  BY DeathStep
<1>2. \A v \in Workers : child'[v] = IF v = w THEN None ELSE child[v]
  BY DEF Joined, Shape
<1>3. Shape'
  BY DEF Joined, Shape
<1>4. Waits' /\ AtWork'
  BY <1>1, <1>2 DEF Joined, Waits, AtWork, WorkerSet
<1>5. RunnersAreRunningJobs' /\ Attended'
  BY <1>1 DEF Joined, RunnersAreRunningJobs, Attended
<1> QED
  BY <1>3, <1>4, <1>5 DEF Joined

\* A worker starts the runner of its job.
LEMMA Launches ==
  ASSUME Proved!IInv, Joined, NEW w \in Workers, Launch(w)
  PROVE  Joined'
<1> DEFINE i == worker[w].job
<1>1. PICK s \in Spare : /\ Starts(s, jobs[i].type)
                         /\ child' = [child EXCEPT ![w] = s]
                         /\ serves' = [serves EXCEPT ![s] = i]
  BY DEF Launch
<1>2. worker[w].pc = "running" /\ child[w] = None /\ UNCHANGED queueVars
  BY DEF Launch
<1>3. i \in DOMAIN jobs /\ jobs[i].status = "running" /\ i \in Nat
  BY <1>2, QueueFacts
<1>4. s \in Slots /\ s \notin Live /\ s # None /\ \A v \in Workers : child[v] # s
  BY HarnessAssumption DEF Spare, Live
<1>5. OnSlots' /\ \A t \in Slots : t # s => runner'[t] = runner[t]
  <2>1. RunnerMoves(s)
    BY <1>1 DEF Starts, RunnerMoves, Index!FullStep, Index!IncrementalStep, Index!VerifyStep
  <2> QED
    BY <1>4, <2>1, OthersStay DEF Joined, Shape
<1>6. Live' \subseteq Live \cup {s}
  BY <1>5 DEF Live, Ended
<1>7. /\ \A v \in Workers : child'[v] = IF v = w THEN s ELSE child[v]
      /\ \A t \in Slots : serves'[t] = IF t = s THEN i ELSE serves[t]
      /\ Shape'
  BY <1>1, <1>3, <1>4, <1>5 DEF Joined, Shape
<1>8. \A t \in Live : t \in Slots /\ t # s /\ serves[t] # i
  <2>1. \A t \in Live : t \in Slots /\ t # None
    BY HarnessAssumption DEF Live
  <2> QED
    BY <1>2, <1>4, <2>1 DEF Joined, AtWork
<1>9. UNCHANGED <<jobs, worker, deaths>>
  BY <1>2 DEF queueVars
<1> HIDE DEF i
<1>10. Waits'
  <2> SUFFICES ASSUME NEW v \in Workers, child'[v] # None
               PROVE  worker[v].pc = "running" /\ worker[v].job = serves'[child'[v]]
    BY <1>9 DEF Waits
  <2>1. CASE v = w
    BY <1>2, <1>4, <1>7, <2>1 DEF i
  <2>2. CASE v # w
    BY <1>4, <1>7, <2>2 DEF Joined, Waits, Shape
  <2> QED
    BY <2>1, <2>2
<1>11. AtWork'
  <2> SUFFICES ASSUME NEW t \in Live'
               PROVE  /\ serves'[t] \in DOMAIN jobs
                      /\ \A v \in Workers : worker[v].pc = "running" /\ worker[v].job = serves'[t] => child'[v] = t
    BY <1>9 DEF AtWork
  <2>1. CASE t = s
    <3>1. \A v \in Workers : worker[v].pc = "running" /\ worker[v].job = i => v = w
      BY <1>2, QueueFacts DEF i
    <3> QED
      BY <1>3, <1>4, <1>7, <2>1, <3>1
  <2>2. CASE t \in Live
    BY <1>2, <1>7, <1>8, <2>2 DEF Joined, AtWork, i
  <2> QED
    BY <1>6, <2>1, <2>2
<1>12. RunnersAreRunningJobs'
  <2> SUFFICES ASSUME NEW t \in Live'
               PROVE  /\ jobs[serves'[t]].status = "running"
                      /\ \A u \in Live' : u # t => serves'[u] # serves'[t]
    BY <1>9 DEF RunnersAreRunningJobs
  <2> QED
    BY <1>3, <1>4, <1>6, <1>7, <1>8 DEF Joined, RunnersAreRunningJobs
<1>13. Attended'
  BY <1>2, <1>4, <1>6, <1>7, <1>9, HarnessAssumption DEF Joined, Attended, Live
<1> QED
  BY <1>7, <1>10, <1>11, <1>12, <1>13 DEF Joined

\* Every step keeps workers, rows and runners together.
LEMMA StepKeepsJoined == Proved!IInv /\ Joined /\ [Next]_vars => Joined'
<1> SUFFICES ASSUME Proved!IInv, Joined, [Next]_vars PROVE Joined'
  OBVIOUS
<1>1. CASE UNCHANGED vars \/ IndexAlone
  <2>1. UNCHANGED <<queueVars, child, serves, runner>>
    BY <1>1 DEF vars, indexVars, processes, IndexAlone, Index!EditDoc, Index!ChangeModel, Index!Recover
  <2>2. OnSlots' /\ Live' \subseteq Live
    BY <2>1 DEF Joined, Shape, OnSlots, Live, Ended
  <2> QED
    BY <2>1, <2>2, RunnersGoOn
<1>2. CASE QueueAlone
  BY <1>2, QueueGoesOn
<1>3. ASSUME NEW w \in Workers, Launch(w) PROVE Joined'
  BY <1>3, Launches
<1>4. ASSUME NEW w \in Workers, LaunchFails(w) \/ Record(w) PROVE Joined'
  <2>1. /\ child[w] = None \/ child[w] \notin Live
        /\ Queue!MarkSucceeded(w) \/ Queue!MarkFailure(w)
        /\ UNCHANGED <<runner, serves>>
        /\ child' = [child EXCEPT ![w] = None]
    BY <1>4 DEF LaunchFails, Record, Live, indexVars, processes, Joined, Shape
  <2> QED
    BY <2>1, WritingStep, StopsRunning
<1>5. ASSUME NEW w \in Workers, Die(w) PROVE Joined'
  <2>1. OnSlots' /\ Live' \subseteq Live
    BY <1>5 DEF Die, indexVars, Joined, Shape, OnSlots, Live, Ended
  <2> QED
    BY <1>5, <2>1, Dies DEF Die
<1>6. ASSUME NEW w \in Workers, DieWithRunner(w) PROVE Joined'
  <2>1. child[w] \in Slots /\ Index!Crash(child[w]) /\ ~Ended(child[w])
    BY <1>6 DEF DieWithRunner, Joined, Shape, Index!Crash, Ended
  <2>2. OnSlots' /\ Live' \subseteq Live
    BY <2>1, OthersStay, NobodyBegins DEF RunnerMoves, Joined, Shape
  <2> QED
    BY <1>6, <2>2, Dies DEF DieWithRunner
<1>7. ASSUME NEW s \in Slots, RunnerStep(s) \/ Kill(s) PROVE Joined'
  <2>1. RunnerMoves(s) /\ ~Ended(s) /\ UNCHANGED <<queueVars, child, serves>>
    BY <1>7 DEF RunnerStep, Kill, RunnerMoves, processes, Index!Crash, Ended
  <2> QED
    BY <2>1, OthersStay, NobodyBegins, RunnersGoOn DEF Joined, Shape
<1> QED
  BY <1>1, <1>2, <1>3, <1>4, <1>5, <1>6, <1>7 DEF Next, WorkerWaits

\* At first nobody runs anything.
LEMMA BeginsJoined == Init => Joined
<1> SUFFICES ASSUME Init PROVE Joined
  OBVIOUS
<1>1. OnSlots /\ Live = {}
  BY DEF Init, Index!Init, Index!Ended, Index!Begun, Index!Local, Index!Settled, OnSlots, Live, Ended
<1>2. \A w \in Workers : child[w] = None
  BY DEF Init
<1> QED
  BY <1>1, <1>2 DEF Init, Joined, Shape, Waits, AtWork, RunnersAreRunningJobs, Attended, Queue!NoJob

\* The invariant of the whole.
LEMMA InvariantOfWhole == FairSpec => [](Proved!IInv /\ Joined)
<1>1. Proved!IInv /\ Joined /\ [Next]_vars => (Proved!IInv /\ Joined)'
  BY QueueKept, StepKeepsJoined
<1> QED
  BY QueueBegins, BeginsJoined, <1>1, PTL DEF FairSpec

\* A runner at work, orphaned or not, is the only one of its job, and the row
\* of the job says running, for any number of workers, runners and deaths.
THEOREM RunnersAreRunningJobsHolds == FairSpec => []RunnersAreRunningJobs
<1>1. Joined => RunnersAreRunningJobs
  BY DEF Joined
<1> QED
  BY InvariantOfWhole, <1>1, PTL

\* Until a worker dies there are no more runners than busy workers.
THEOREM NoMoreRunnersThanWorkersHolds == FairSpec => []NoMoreRunnersThanWorkers
<1>1. Joined => NoMoreRunnersThanWorkers
  <2> DEFINE Busy == {w \in Workers : worker[w].pc = "running"}
             f == [s \in Live |-> CHOOSE w \in Workers : child[w] = s]
  <2> SUFFICES ASSUME Joined, deaths = 0 PROVE Cardinality(Live) <= Cardinality(Busy)
    BY DEF NoMoreRunnersThanWorkers
  <2>1. \A s \in Live : f[s] \in Workers /\ child[f[s]] = s
    BY DEF Joined, Attended
  <2>2. \A s \in Live : s # None
    BY HarnessAssumption DEF Live
  <2>3. \A s \in Live : f[s] \in Busy
    BY <2>1, <2>2 DEF Joined, Waits
  <2>4. f \in Injection(Live, Busy)
    <3>1. f \in [Live -> Busy]
      BY <2>3
    <3>2. \A s, t \in Live : f[s] = f[t] => s = t
      BY <2>1
    <3> HIDE DEF f, Busy
    <3> QED
      BY <3>1, <3>2 DEF Injection, IsInjective
  <2>5. IsFiniteSet(Busy)
    BY HarnessAssumption, FS_Subset
  <2> HIDE DEF f, Busy
  <2> QED
    BY <2>4, <2>5, FS_Injection
<1> QED
  BY InvariantOfWhole, <1>1, PTL

---------------------------------------------------------------------------
(* The index within the whole                                              *)

IndexProved == INSTANCE RagIndexProofs WITH Runners <- Slots, Modes <- {ModeOf[t] : t \in Types},
                                            MaxCrashes <- MaxKills, crashes <- kills

\* Every step of the whole is a step of the queue or leaves it alone, and a
\* step of the index or leaves it alone.
LEMMA StepOfParts == Joined /\ [Next]_vars => [Queue!Next]_(Queue!vars) /\ [Index!Next]_(Index!vars)
<1> SUFFICES ASSUME Joined, [Next]_vars
             PROVE  [Queue!Next]_(Queue!vars) /\ [Index!Next]_(Index!vars)
  OBVIOUS
<1>1. CASE UNCHANGED vars
  BY <1>1 DEF vars, queueVars, indexVars, Queue!vars, Index!vars
<1>2. CASE QueueAlone
  BY <1>2 DEF QueueAlone, indexVars, Index!vars, Queue!Next, Queue!WorkerStep
<1>3. CASE IndexAlone
  BY <1>3 DEF IndexAlone, queueVars, Queue!vars, Index!Next
<1>4. ASSUME NEW w \in Workers, Launch(w)
      PROVE  UNCHANGED queueVars /\ Index!Next
  <2>1. PICK s \in Slots : Starts(s, jobs[worker[w].job].type)
    BY <1>4 DEF Launch, Spare
  <2>2. Index!FullStep(s) \/ Index!IncrementalStep(s) \/ Index!VerifyStep(s)
    BY <2>1 DEF Starts, Index!FullStep, Index!IncrementalStep, Index!VerifyStep
  <2> QED
    BY <1>4, <2>2 DEF Launch, Index!Next
<1>5. ASSUME NEW w \in Workers, LaunchFails(w) \/ Record(w) \/ Die(w)
      PROVE  Queue!Next /\ UNCHANGED indexVars
  BY <1>5 DEF LaunchFails, Record, Die, Queue!Next, Queue!WorkerStep
<1>6. ASSUME NEW w \in Workers, DieWithRunner(w) PROVE Queue!Next /\ Index!Next
  <2>1. child[w] \in Slots
    BY <1>6 DEF DieWithRunner, Joined, Shape
  <2> QED
    BY <1>6, <2>1 DEF DieWithRunner, Queue!Next, Index!Next
<1>7. ASSUME NEW s \in Slots, RunnerStep(s) \/ Kill(s) PROVE UNCHANGED queueVars /\ Index!Next
  BY <1>7 DEF RunnerStep, Kill, Index!Next
<1> QED
  BY <1>1, <1>2, <1>3, <1>4, <1>5, <1>6, <1>7
  DEF Next, WorkerWaits, queueVars, indexVars, Queue!vars, Index!vars

\* Joined as they are, the two parts do nothing that they do not do alone:
\* what holds of the queue under any process, and of the index under any
\* process, holds of the platform.
THEOREM WholeImplementsParts == FairSpec => Queue!Spec /\ Index!Spec
<1>1. Init => Queue!Init /\ Index!Init
  BY DEF Init
<1>2. [Next]_vars /\ Joined => [Queue!Next]_(Queue!vars) /\ [Index!Next]_(Index!vars)
  BY StepOfParts
<1> QED
  BY InvariantOfWhole, <1>1, <1>2, PTL DEF FairSpec, Queue!Spec, Index!Spec

\* The index's constants are as its proofs assume.
LEMMA IndexAssumed ==
  IndexProved!RagIndexAssumption /\ IndexProved!NoneIsNoIndex /\ IndexProved!DamagedIsNoIndex
<1>1. {ModeOf[t] : t \in Types} \subseteq IndexProved!AllModes
  BY HarnessAssumption DEF ModeOf, IndexProved!AllModes
<1> QED
  BY <1>1, IndexAssumption DEF IndexProved!RagIndexAssumption, IndexProved!NoneIsNoIndex,
     IndexProved!DamagedIsNoIndex, Index!Index, Index!Entry, Index!Journal,
     IndexProved!Index, IndexProved!Entry, IndexProved!Journal

\* The runners of the whole are those of the proofs about the index: a full
\* reindex, ...
LEMMA FullOfIndex ==
  ASSUME NEW s \in Slots, Index!FullStep(s)
  PROVE  IndexProved!FullStep(s)
  BY DEF Index!FullStep, Index!StartFull, Index!Unlink, Index!ScanFull, Index!OpenTmp,
       Index!BeginPersist, Index!CommitPersist, Index!SelfCheck, Index!SelfCheckMissing,
       Index!Replace, Index!CleanUp, Index!Creates, Index!Free, Index!FreshInode, Index!EmptyIndex,
       Index!Names, Index!Nameless, Index!Embedded, Index!InUse, Index!NameOf, Index!Writing,
       Index!Locked, Index!Hot, Index!Overwritten, Index!Recovered, Index!Torn, Index!Readable,
       Index!HasChunks, Index!UnlinksJournal, Index!Transactions, Index!Flushing, Index!Settled,
       Index!AnyDim, Index!Becomes, Index!Begun, Index!Local, Index!NoScan, Index!Frame, Index!Sets,
       Index!Moves, Index!Ended, IndexProved!FullStep, IndexProved!StartFull, IndexProved!Unlink,
       IndexProved!ScanFull, IndexProved!OpenTmp, IndexProved!BeginPersist,
       IndexProved!CommitPersist, IndexProved!SelfCheck, IndexProved!SelfCheckMissing,
       IndexProved!Replace, IndexProved!CleanUp, IndexProved!Creates, IndexProved!Free,
       IndexProved!FreshInode, IndexProved!EmptyIndex, IndexProved!Names, IndexProved!Nameless,
       IndexProved!Embedded, IndexProved!InUse, IndexProved!NameOf, IndexProved!Writing,
       IndexProved!Locked, IndexProved!Hot, IndexProved!Overwritten, IndexProved!Recovered,
       IndexProved!Torn, IndexProved!Readable, IndexProved!HasChunks, IndexProved!UnlinksJournal,
       IndexProved!Transactions, IndexProved!Flushing, IndexProved!Settled, IndexProved!AnyDim,
       IndexProved!Becomes, IndexProved!Begun, IndexProved!Local, IndexProved!NoScan,
       IndexProved!Frame, IndexProved!Sets, IndexProved!Moves, IndexProved!Ended

\* ... an incremental one, ...
LEMMA IncrementalOfIndex ==
  ASSUME NEW s \in Slots, Index!IncrementalStep(s)
  PROVE  IndexProved!IncrementalStep(s)
  BY DEF Index!IncrementalStep, Index!StartIncremental, Index!OpenDb, Index!CommitNothing,
       Index!BeginWrite, Index!CommitWrite, Index!Report, Index!Hashes, Index!Changed, Index!Merged,
       Index!Creates, Index!Free, Index!FreshInode, Index!EmptyIndex, Index!Names, Index!Nameless,
       Index!Embedded, Index!NameOf, Index!Writing, Index!Locked, Index!Hot, Index!Overwritten,
       Index!Recovered, Index!Torn, Index!Readable, Index!HasChunks, Index!UnlinksJournal,
       Index!Transactions, Index!Flushing, Index!Settled, Index!AnyDim, Index!Becomes, Index!Begun,
       Index!Local, Index!NoScan, Index!Frame, Index!Sets, Index!Moves, Index!Ended,
       IndexProved!IncrementalStep, IndexProved!StartIncremental, IndexProved!OpenDb,
       IndexProved!CommitNothing, IndexProved!BeginWrite, IndexProved!CommitWrite,
       IndexProved!Report, IndexProved!Hashes, IndexProved!Changed, IndexProved!Merged,
       IndexProved!Creates, IndexProved!Free, IndexProved!FreshInode, IndexProved!EmptyIndex,
       IndexProved!Names, IndexProved!Nameless, IndexProved!Embedded, IndexProved!NameOf,
       IndexProved!Writing, IndexProved!Locked, IndexProved!Hot, IndexProved!Overwritten,
       IndexProved!Recovered, IndexProved!Torn, IndexProved!Readable, IndexProved!HasChunks,
       IndexProved!UnlinksJournal, IndexProved!Transactions, IndexProved!Flushing,
       IndexProved!Settled, IndexProved!AnyDim, IndexProved!Becomes, IndexProved!Begun,
       IndexProved!Local, IndexProved!NoScan, IndexProved!Frame, IndexProved!Sets,
       IndexProved!Moves, IndexProved!Ended

\* ... and a verify.
LEMMA VerifyOfIndex ==
  ASSUME NEW s \in Slots, Index!VerifyStep(s)
  PROVE  IndexProved!VerifyStep(s)
  BY DEF Index!VerifyStep, Index!StartVerify, Index!CountChunks, Index!CompareDims,
       Index!SampleQuery, Index!SkipSampleQuery, Index!DimsAsExpected, Index!NameOf, Index!Writing,
       Index!Locked, Index!Hot, Index!Overwritten, Index!Recovered, Index!Torn, Index!Readable,
       Index!HasChunks, Index!UnlinksJournal, Index!Transactions, Index!Flushing, Index!Settled,
       Index!AnyDim, Index!Becomes, Index!Begun, Index!Local, Index!NoScan, Index!Frame, Index!Sets,
       Index!Moves, Index!Ended, IndexProved!VerifyStep, IndexProved!StartVerify,
       IndexProved!CountChunks, IndexProved!CompareDims, IndexProved!SampleQuery,
       IndexProved!SkipSampleQuery, IndexProved!DimsAsExpected, IndexProved!NameOf,
       IndexProved!Writing, IndexProved!Locked, IndexProved!Hot, IndexProved!Overwritten,
       IndexProved!Recovered, IndexProved!Torn, IndexProved!Readable, IndexProved!HasChunks,
       IndexProved!UnlinksJournal, IndexProved!Transactions, IndexProved!Flushing,
       IndexProved!Settled, IndexProved!AnyDim, IndexProved!Becomes, IndexProved!Begun,
       IndexProved!Local, IndexProved!NoScan, IndexProved!Frame, IndexProved!Sets,
       IndexProved!Moves, IndexProved!Ended

\* So is what SQLite does for them, ...
LEMMA SQLiteOfIndex ==
  ASSUME NEW s \in Slots, Index!SQLiteStep(s)
  PROVE  IndexProved!SQLiteStep(s)
  BY DEF Index!SQLiteStep, Index!Flush, Index!TakeJournal, Index!NameOf, Index!Writing,
       Index!Locked, Index!Hot, Index!Overwritten, Index!Recovered, Index!Torn, Index!Readable,
       Index!HasChunks, Index!UnlinksJournal, Index!Transactions, Index!Flushing, Index!Settled,
       Index!AnyDim, Index!Becomes, Index!Begun, Index!Local, Index!NoScan, Index!Frame, Index!Sets,
       Index!Moves, Index!Ended, IndexProved!SQLiteStep, IndexProved!Flush, IndexProved!TakeJournal,
       IndexProved!NameOf, IndexProved!Writing, IndexProved!Locked, IndexProved!Hot,
       IndexProved!Overwritten, IndexProved!Recovered, IndexProved!Torn, IndexProved!Readable,
       IndexProved!HasChunks, IndexProved!UnlinksJournal, IndexProved!Transactions,
       IndexProved!Flushing, IndexProved!Settled, IndexProved!AnyDim, IndexProved!Becomes,
       IndexProved!Begun, IndexProved!Local, IndexProved!NoScan, IndexProved!Frame,
       IndexProved!Sets, IndexProved!Moves, IndexProved!Ended

\* ... their ends, ...
LEMMA EndOfIndex ==
  ASSUME NEW s \in Slots, Index!Fail(s) \/ Index!Crash(s)
  PROVE  IndexProved!Fail(s) \/ IndexProved!Crash(s)
  BY DEF Index!Fail, Index!FailsWith, Index!MayFail, Index!RollsBack, Index!Restorable, Index!Crash,
       Index!FullPhases, Index!CleanUpPhases, Index!IncrementalPhases, Index!VerifyPhases,
       Index!NameOf, Index!Writing, Index!Locked, Index!Hot, Index!Overwritten, Index!Recovered,
       Index!Torn, Index!Readable, Index!HasChunks, Index!UnlinksJournal, Index!Transactions,
       Index!Flushing, Index!Settled, Index!AnyDim, Index!Becomes, Index!Begun, Index!Local,
       Index!NoScan, Index!Frame, Index!Sets, Index!Moves, Index!Ended, IndexProved!Fail,
       IndexProved!FailsWith, IndexProved!MayFail, IndexProved!RollsBack, IndexProved!Restorable,
       IndexProved!Crash, IndexProved!FullPhases, IndexProved!CleanUpPhases,
       IndexProved!IncrementalPhases, IndexProved!VerifyPhases, IndexProved!NameOf,
       IndexProved!Writing, IndexProved!Locked, IndexProved!Hot, IndexProved!Overwritten,
       IndexProved!Recovered, IndexProved!Torn, IndexProved!Readable, IndexProved!HasChunks,
       IndexProved!UnlinksJournal, IndexProved!Transactions, IndexProved!Flushing,
       IndexProved!Settled, IndexProved!AnyDim, IndexProved!Becomes, IndexProved!Begun,
       IndexProved!Local, IndexProved!NoScan, IndexProved!Frame, IndexProved!Sets,
       IndexProved!Moves, IndexProved!Ended

\* ... and what happens around them.
LEMMA SurroundingsOfIndex ==
  /\ \A d \in Docs, v \in Versions \cup {None} : Index!EditDoc(d, v) => IndexProved!EditDoc(d, v)
  /\ \A m \in Dims : Index!ChangeModel(m) => IndexProved!ChangeModel(m)
  /\ \A n \in Index!Names : n \in IndexProved!Names /\ (Index!Recover(n) => IndexProved!Recover(n))
  BY DEF Index!EditDoc, Index!ChangeModel, Index!Recover, Index!Recovered, Index!Overwritten,
       Index!Hot, Index!Writing, Index!Transactions, Index!Flushing, Index!Names, Index!Frame,
       IndexProved!EditDoc, IndexProved!ChangeModel, IndexProved!Recover, IndexProved!Recovered,
       IndexProved!Overwritten, IndexProved!Hot, IndexProved!Writing, IndexProved!Transactions,
       IndexProved!Flushing, IndexProved!Names, IndexProved!Frame

\* So a step of the index is one of the proofs'.
LEMMA StepOfIndex == [Index!Next]_(Index!vars) => [IndexProved!Next]_(IndexProved!vars)
  BY FullOfIndex, IncrementalOfIndex, VerifyOfIndex, SQLiteOfIndex, EndOfIndex, SurroundingsOfIndex
  DEF Index!Next, Index!vars, IndexProved!Next, IndexProved!vars

\* What the proofs about the index say, they say of the whole.
LEMMA WholeIsIndex == FairSpec => IndexProved!Spec
<1>1. Index!Init => IndexProved!Init
  BY DEF Index!Init, Index!Scans, Index!EmptyIndex, Index!Ended, Index!Begun, Index!Local,
       Index!NoScan, Index!AnyDim, Index!Names, IndexProved!Init, IndexProved!Scans,
       IndexProved!EmptyIndex, IndexProved!Ended, IndexProved!Begun, IndexProved!Local,
       IndexProved!NoScan, IndexProved!AnyDim, IndexProved!Names
<1>2. [Index!Next]_(Index!vars) => [IndexProved!Next]_(IndexProved!vars)
  BY StepOfIndex
<1> QED
  BY WholeImplementsParts, <1>1, <1>2, PTL DEF Index!Spec, IndexProved!Spec

\* The whole platform serves the index that was committed last, whatever
\* workers and runners die, as long as nothing is overrun;
\* and without kills a temporary file is that of a full reindex at work.
THEOREM WholeServesUnlessOverrun ==
  FairSpec => []Index!ServesUnlessOverrun /\ []Index!TmpOnlyDuringFull
<1>1. IndexProved!ServesUnlessOverrun => Index!ServesUnlessOverrun
  BY DEF Index!ServesUnlessOverrun, Index!ServesLastCommit, Index!Recovered, Index!Overwritten,
       Index!Hot, Index!Writing, Index!Transactions, Index!Flushing, IndexProved!ServesUnlessOverrun,
       IndexProved!ServesLastCommit, IndexProved!Recovered, IndexProved!Overwritten,
       IndexProved!Hot, IndexProved!Writing, IndexProved!Transactions, IndexProved!Flushing
<1>2. IndexProved!TmpOnlyDuringFull => Index!TmpOnlyDuringFull
  BY DEF Index!TmpOnlyDuringFull, Index!FullPhases, Index!CleanUpPhases,
       IndexProved!TmpOnlyDuringFull, IndexProved!FullPhases, IndexProved!CleanUpPhases
<1>3. IndexProved!Spec => []IndexProved!ServesUnlessOverrun /\ []IndexProved!TmpOnlyDuringFull
  BY IndexAssumed, IndexProved!ServesUnlessOverrunHolds, IndexProved!TmpOnlyDuringFullHolds, PTL
  DEF IndexProved!ServesUnlessOverrunHolds, IndexProved!TmpOnlyDuringFullHolds
<1> QED
  BY WholeIsIndex, <1>1, <1>2, <1>3, PTL

---------------------------------------------------------------------------
(* What a row says of the index                                            *)

Unmoded == {"idle", "failed", "clean up failed", "unlink failed"}
Shows == {"clean up ok", "unlink ok", "stats"}
Verifying == {"validate", "dims", "sample query"}

\* A runner does what its job's type says ...
Fits(s) == runner[s].pc \notin Unmoded =>
  /\ serves[s] \in DOMAIN jobs
  /\ runner[s].mode = ModeOf[jobs[serves[s]].type]

\* ... and has committed where it says so, as long as nothing is overrun.
Marked(s) ==
  /\ runner[s].pc \in Shows => serves[s] \in installed
  /\ runner[s].pc = "succeeded" => serves[s] \in installed \/ runner[s].mode = "verify"
  /\ runner[s].pc \in Verifying => runner[s].mode = "verify"

Recorded == /\ \A s \in Slots : Fits(s)
            /\ ~overrun => \A s \in Slots : Marked(s)
            /\ SucceededIsInstalled

\* A commit to a file that is no longer rag.db.
Astray(s) == runner[s].pc = "flush db" /\ runner[s].ino # path["db"]

\* The way of a runner that has begun.
Way(s) ==
  /\ runner'[s].mode = runner[s].mode /\ runner[s].pc \notin Unmoded
  /\ runner'[s].pc \in Shows => Commits(s) \/ runner[s].pc \in Shows \/ Astray(s)
  /\ runner'[s].pc = "succeeded" => runner[s].pc \in Shows \cup {"sample query"}
  /\ runner'[s].pc \in Verifying => runner[s].pc \in Verifying

\* It goes this way, or has nothing to show in the end.
LEMMA WayOfRunner ==
  ASSUME OnSlots, NEW s \in Slots, RunnerMoves(s), ~Ended(s)
  PROVE  runner'[s].pc \in Unmoded \/ Way(s)
<1> DEFINE Goal == runner'[s].pc \in Unmoded \/ Way(s)
<1> SUFFICES Goal
  OBVIOUS
<1>1. ASSUME NEW pc, NEW scan, NEW ino, NEW seen, Index!Sets(s, pc, scan, ino, seen)
      PROVE  runner'[s].pc = pc /\ runner'[s].mode = runner[s].mode
  <2>1. runner'[s] = Index!Local(pc, runner[s].mode, scan, runner[s].dim, ino, seen)
    BY <1>1 DEF Index!Sets, Index!Becomes, OnSlots
  <2> QED
    BY <2>1 DEF Index!Local
<1>2. ASSUME NEW pc, Index!Becomes(s, Index!Ended(pc)) PROVE runner'[s].pc = pc
  <2>1. runner'[s] = Index!Ended(pc)
    BY <1>2 DEF Index!Becomes, OnSlots
  <2> QED
    BY <2>1 DEF Index!Ended, Index!Begun, Index!Local
<1>3. runner[s].pc \notin Index!Settled
  BY DEF Ended
<1>4. ASSUME NEW pc, Index!Moves(s, pc) PROVE runner'[s].pc = pc /\ runner'[s].mode = runner[s].mode
  BY <1>1, <1>4 DEF Index!Moves
<1>5. CASE \/ Index!ScanFull(s) \/ Index!OpenTmp(s) \/ Index!BeginPersist(s)
           \/ Index!CommitPersist(s) \/ Index!SelfCheck(s)
  <2>1. /\ runner[s].pc \in {"scan", "open tmp", "begin", "flush tmp", "self-check"}
        /\ \E pc \in {"open tmp", "begin", "persist", "self-check", "replace"} : \E scan, ino, seen :
             Index!Sets(s, pc, scan, ino, seen)
    BY <1>5 DEF Index!ScanFull, Index!OpenTmp, Index!BeginPersist, Index!CommitPersist, Index!SelfCheck,
       Index!Moves
  <2>2. runner'[s].pc \in {"open tmp", "begin", "persist", "self-check", "replace"}
        /\ runner'[s].mode = runner[s].mode
    BY <1>1, <2>1
  <2> QED
    BY <2>1, <2>2 DEF Unmoded, Way, Shows, Verifying
<1>6. CASE Index!Replace(s) \/ Index!CommitNothing(s)
  <2>1. \/ runner[s].pc = "replace" /\ Index!Moves(s, "clean up ok")
        \/ runner[s].pc = "classified" /\ Index!Moves(s, "stats")
    BY <1>6 DEF Index!Replace, Index!CommitNothing
  <2>2. /\ \/ runner[s].pc = "replace" /\ runner'[s].pc = "clean up ok"
           \/ runner[s].pc = "classified" /\ runner'[s].pc = "stats"
        /\ runner'[s].mode = runner[s].mode
    BY <1>4, <2>1
  <2> QED
    BY <2>2 DEF Unmoded, Way, Shows, Verifying, Commits
<1>7. CASE Index!CommitWrite(s)
  <2>1. runner[s].pc = "flush db" /\ Index!Moves(s, "stats")
    BY <1>7 DEF Index!CommitWrite
  <2>2. runner'[s].pc = "stats" /\ runner'[s].mode = runner[s].mode
    BY <1>4, <2>1
  <2> QED
    BY <2>1, <2>2 DEF Unmoded, Way, Shows, Verifying, Commits, Astray
<1>8. CASE Index!CleanUp(s) \/ Index!Unlink(s)
  <2>1. \/ \E pc \in {"failed", "unlink failed"} : Index!Becomes(s, Index!Ended(pc))
        \/ runner[s].pc = "unlink first" /\ Index!Moves(s, "scan")
        \/ runner[s].pc \in {"clean up ok", "unlink ok"}
             /\ \E pc \in {"unlink ok", "succeeded"} : Index!Moves(s, pc)
    BY <1>8 DEF Index!CleanUp, Index!Unlink
  <2>2. CASE \E pc \in {"failed", "unlink failed"} : Index!Becomes(s, Index!Ended(pc))
    BY <1>2, <2>2 DEF Unmoded
  <2>3. CASE runner[s].pc = "unlink first" /\ Index!Moves(s, "scan")
    <3>1. runner'[s].pc = "scan" /\ runner'[s].mode = runner[s].mode
      BY <1>4, <2>3
    <3> QED
      BY <2>3, <3>1 DEF Unmoded, Way, Shows, Verifying
  <2>4. CASE runner[s].pc \in {"clean up ok", "unlink ok"}
               /\ \E pc \in {"unlink ok", "succeeded"} : Index!Moves(s, pc)
    <3>1. runner'[s].pc \in {"unlink ok", "succeeded"} /\ runner'[s].mode = runner[s].mode
      BY <1>4, <2>4
    <3> QED
      BY <2>4, <3>1 DEF Unmoded, Way, Shows, Verifying
  <2> QED
    BY <2>1, <2>2, <2>3, <2>4
<1>9. CASE Index!OpenDb(s) \/ Index!BeginWrite(s)
  <2>1. /\ runner[s].pc \in {"open db", "classified"}
        /\ \E pc \in {"classified", "writing"} : \E scan, ino, seen : Index!Sets(s, pc, scan, ino, seen)
    BY <1>9 DEF Index!OpenDb, Index!BeginWrite, Index!Moves
  <2>2. runner'[s].pc \in {"classified", "writing"} /\ runner'[s].mode = runner[s].mode
    BY <1>1, <2>1
  <2> QED
    BY <2>1, <2>2 DEF Unmoded, Way, Shows, Verifying
<1>10. CASE Index!Report(s)
  <2>1. runner[s].pc = "stats" /\ \E scan, ino, seen : Index!Sets(s, "succeeded", scan, ino, seen)
    BY <1>10 DEF Index!Report
  <2>2. runner'[s].pc = "succeeded" /\ runner'[s].mode = runner[s].mode
    BY <1>1, <2>1
  <2> QED
    BY <2>1, <2>2 DEF Unmoded, Way, Shows, Verifying
<1>11. CASE Index!CountChunks(s) \/ Index!CompareDims(s) \/ Index!SampleQuery(s) \/ Index!SkipSampleQuery(s)
  <2>1. \/ runner[s].pc \in Verifying
             /\ \E pc \in {"dims", "sample query"} : \E scan, ino, seen : Index!Sets(s, pc, scan, ino, seen)
        \/ runner[s].pc = "sample query" /\ Index!Moves(s, "succeeded")
    BY <1>11 DEF Index!CountChunks, Index!CompareDims, Index!SampleQuery, Index!SkipSampleQuery, Verifying
  <2>2. /\ \/ runner[s].pc \in Verifying /\ runner'[s].pc \in {"dims", "sample query"}
           \/ runner[s].pc = "sample query" /\ runner'[s].pc = "succeeded"
        /\ runner'[s].mode = runner[s].mode
    BY <1>1, <1>4, <2>1
  <2> QED
    BY <2>2 DEF Unmoded, Way, Shows, Verifying
<1>12. CASE Index!SQLiteStep(s)
  <2>1. CASE Index!Flush(s)
    <3>1. /\ runner[s].pc \in {"persist", "writing"}
          /\ \E pc \in {"flush tmp", "flush db"} : Index!Moves(s, pc)
      BY <2>1 DEF Index!Flush
    <3>2. runner'[s].pc \in {"flush tmp", "flush db"} /\ runner'[s].mode = runner[s].mode
      BY <1>4, <3>1
    <3> QED
      BY <3>1, <3>2 DEF Unmoded, Way, Shows, Verifying
  <2>2. CASE Index!TakeJournal(s)
    <3>1. runner[s].pc \in {"begin", "classified", "stats", "dims"} /\ runner' = runner
      BY <2>2 DEF Index!TakeJournal
    <3> QED
      BY <3>1 DEF Unmoded, Way, Shows, Verifying
  <2> QED
    BY <1>12, <2>1, <2>2 DEF Index!SQLiteStep
<1>13. CASE Index!SelfCheckMissing(s) \/ Index!Fail(s) \/ Index!Crash(s)
  <2>1. \E pc \in Unmoded : Index!Becomes(s, Index!Ended(pc))
    BY <1>13 DEF Index!SelfCheckMissing, Index!Fail, Index!FailsWith, Index!Crash, Unmoded
  <2> QED
    BY <1>2, <2>1
<1>14. /\ ~Index!StartFull(s) /\ ~Index!StartIncremental(s)
       /\ \A e \in Dims \cup {Index!AnyDim} : ~Index!StartVerify(s, e)
  BY <1>3 DEF Index!StartFull, Index!StartIncremental, Index!StartVerify
<1> HIDE DEF Goal
<1> QED
  BY <1>5, <1>6, <1>7, <1>8, <1>9, <1>10, <1>11, <1>12, <1>13, <1>14
  DEF RunnerMoves, Index!FullStep, Index!IncrementalStep, Index!VerifyStep

\* Rows keep their type, and one becomes succeeded by the report of a runner.
LEMMA RowsStay ==
  ASSUME Proved!IInv, Joined, [Next]_vars
  PROVE  /\ DOMAIN jobs \subseteq DOMAIN jobs'
         /\ \A i \in DOMAIN jobs : jobs'[i].type = jobs[i].type
         /\ \A i \in DOMAIN jobs' : jobs'[i].status = "succeeded" =>
              \/ i \in DOMAIN jobs /\ jobs[i].status = "succeeded"
              \/ \E w \in Workers : /\ child[w] # None /\ worker[w].job = i
                                    /\ runner[child[w]].pc = "succeeded"
<1> DEFINE Reported(i) == \E w \in Workers : /\ child[w] # None /\ worker[w].job = i
                                             /\ runner[child[w]].pc = "succeeded"
           Goal == /\ DOMAIN jobs \subseteq DOMAIN jobs'
                   /\ \A i \in DOMAIN jobs : jobs'[i].type = jobs[i].type
                   /\ \A i \in DOMAIN jobs' : jobs'[i].status = "succeeded" =>
                        (i \in DOMAIN jobs /\ jobs[i].status = "succeeded") \/ Reported(i)
<1> SUFFICES Goal
  OBVIOUS
<1>1. CASE UNCHANGED jobs
  BY <1>1
<1>2. CASE QueueAlone
  <2>1. ASSUME NEW c \in Clients, Queue!ClientStep(c) PROVE Goal
    BY <2>1, HandlerStep
  <2>2. ASSUME NEW w \in Workers, Queue!SelectJob(w) \/ Queue!Sleep(w) \/ Queue!Restart(w) PROVE UNCHANGED jobs
    BY <2>2, IdleStep
  <2>3. ASSUME NEW w \in Workers, Queue!ClaimJob(w) PROVE Goal
    BY <2>3, WritingStep DEF RowSet
  <2> HIDE DEF Goal
  <2> QED
    BY <1>1, <1>2, <2>1, <2>2, <2>3 DEF QueueAlone
<1>3. ASSUME NEW w \in Workers, LaunchFails(w) \/ Record(w) PROVE Goal
  <2>1. Queue!MarkFailure(w) \/ (Queue!MarkSucceeded(w) /\ Reported(worker[w].job))
    BY <1>3 DEF LaunchFails, Record
  <2> HIDE DEF Reported
  <2>2. CASE Queue!MarkFailure(w)
    BY <2>2, WritingStep DEF RowSet
  <2>3. CASE Queue!MarkSucceeded(w) /\ Reported(worker[w].job)
    BY <2>3, WritingStep DEF RowSet
  <2> QED
    BY <2>1, <2>2, <2>3
<1>4. ASSUME NEW w \in Workers, Launch(w) \/ Die(w) \/ DieWithRunner(w) PROVE UNCHANGED jobs
  BY <1>4, DeathStep DEF Launch, Die, DieWithRunner, queueVars
<1>5. IndexAlone \/ (\E s \in Slots : RunnerStep(s) \/ Kill(s)) \/ UNCHANGED vars => UNCHANGED jobs
  BY DEF IndexAlone, RunnerStep, Kill, vars, queueVars
<1> HIDE DEF Goal
<1> QED
  BY <1>1, <1>2, <1>3, <1>4, <1>5 DEF Next, WorkerWaits

\* What happens to a runner process in a step of the whole.
LEMMA RunnersBetween ==
  ASSUME Proved!IInv, Joined, [Next]_vars, NEW s \in Slots
  PROVE  \/ UNCHANGED <<runner[s], serves[s]>>
         \/ RunnerMoves(s) /\ ~Ended(s) /\ serves'[s] = serves[s]
              /\ (Commits(s) => serves[s] \in installed' \/ runner'[s].pc \in Unmoded)
         \/ \E w \in Workers : /\ Starts(s, jobs[worker[w].job].type)
                               /\ worker[w].job \in DOMAIN jobs /\ serves'[s] = worker[w].job
<1> DEFINE Goal == \/ UNCHANGED <<runner[s], serves[s]>>
                   \/ RunnerMoves(s) /\ ~Ended(s) /\ serves'[s] = serves[s]
                        /\ (Commits(s) => serves[s] \in installed' \/ runner'[s].pc \in Unmoded)
                   \/ \E w \in Workers : /\ Starts(s, jobs[worker[w].job].type)
                                         /\ worker[w].job \in DOMAIN jobs /\ serves'[s] = worker[w].job
<1> SUFFICES Goal
  OBVIOUS
<1>1. OnSlots /\ serves \in [Slots -> Nat] /\ child \in [Workers -> Slots \cup {None}]
  BY DEF Joined, Shape
<1>2. CASE UNCHANGED <<runner, serves>>
  BY <1>2
<1>3. UNCHANGED vars \/ IndexAlone \/ QueueAlone => UNCHANGED <<runner, serves>>
  BY DEF vars, indexVars, processes, IndexAlone, QueueAlone, Index!EditDoc, Index!ChangeModel, Index!Recover
<1>4. ASSUME NEW w \in Workers, LaunchFails(w) \/ Record(w) \/ Die(w) PROVE UNCHANGED <<runner, serves>>
  BY <1>4 DEF LaunchFails, Record, Die, indexVars, processes
<1>5. ASSUME NEW w \in Workers, DieWithRunner(w) PROVE Goal
  <2>1. child[w] \in Slots /\ Index!Crash(child[w]) /\ ~Ended(child[w]) /\ UNCHANGED serves
    BY <1>1, <1>5 DEF DieWithRunner, Index!Crash, Ended
  <2>2. CASE child[w] = s
    <3>1. runner'[s].pc = "idle"
      BY <1>1, <2>1, <2>2 DEF Index!Crash, Index!Becomes, Index!Ended, Index!Begun, Index!Local, OnSlots
    <3> QED
      BY <2>1, <2>2, <3>1 DEF RunnerMoves, Unmoded
  <2>3. CASE child[w] # s
    BY <1>1, <2>1, <2>3, OthersStay DEF RunnerMoves
  <2> QED
    BY <2>2, <2>3
<1>6. ASSUME NEW t \in Slots, RunnerStep(t) \/ Kill(t) PROVE Goal
  <2>1. RunnerMoves(t) /\ ~Ended(t) /\ UNCHANGED serves
    BY <1>6 DEF RunnerStep, Kill, RunnerMoves, processes, Index!Crash, Ended
  <2>2. CASE t = s
    <3>1. Commits(s) => serves[s] \in installed' \/ runner'[s].pc \in Unmoded
      <4>1. CASE RunnerStep(t)
        BY <2>2, <4>1 DEF RunnerStep
      <4>2. CASE Kill(t)
        <5>1. runner'[s].pc = "idle"
          BY <1>1, <2>2, <4>2 DEF Kill, Index!Crash, Index!Becomes, Index!Ended, Index!Begun, Index!Local, OnSlots
        <5> QED
          BY <5>1 DEF Unmoded
      <4> QED
        BY <1>6, <4>1, <4>2
    <3> QED
      BY <2>1, <2>2, <3>1
  <2>3. CASE t # s
    BY <1>1, <2>1, <2>3, OthersStay
  <2> QED
    BY <2>2, <2>3
<1>7. ASSUME NEW w \in Workers, Launch(w) PROVE Goal
  <2>1. PICK t \in Spare : /\ Starts(t, jobs[worker[w].job].type)
                           /\ serves' = [serves EXCEPT ![t] = worker[w].job]
    BY <1>7 DEF Launch
  <2>2. t \in Slots /\ worker[w].job \in DOMAIN jobs
    BY <1>7, QueueFacts DEF Launch, Spare
  <2>3. CASE t = s
    BY <1>1, <2>1, <2>2, <2>3
  <2>4. CASE t # s
    <3>1. RunnerMoves(t)
      BY <2>1 DEF Starts, RunnerMoves, Index!FullStep, Index!IncrementalStep, Index!VerifyStep
    <3> QED
      BY <1>1, <2>1, <2>2, <2>4, <3>1, OthersStay
  <2> QED
    BY <2>3, <2>4
<1> HIDE DEF Goal
<1>8. ASSUME UNCHANGED <<runner, serves>> PROVE Goal
  BY <1>2, <1>8
<1> QED
  BY <1>3, <1>4, <1>5, <1>6, <1>7, <1>8 DEF Next, WorkerWaits

\* Nothing is taken back from the history.
LEMMA InstalledGrows == [Next]_vars => installed \subseteq installed'
  BY DEF Next, vars, processes, QueueAlone, IndexAlone, WorkerWaits, Launch, LaunchFails, Record,
       Die, DieWithRunner, RunnerStep, Kill

\* A runner that begins does what the type says, and has committed nothing.
LEMMA BeginsAsTyped ==
  ASSUME OnSlots, NEW s \in Slots, NEW type \in Types, Starts(s, type)
  PROVE  /\ runner'[s].mode = ModeOf[type]
         /\ runner'[s].pc \in {"scan", "unlink first", "open db", "validate"}
         /\ runner'[s].pc = "validate" => runner'[s].mode = "verify"
<1>1. ASSUME NEW pc, NEW mode, NEW scan, NEW dim, Index!Becomes(s, Index!Begun(pc, mode, scan, dim))
      PROVE  runner'[s].pc = pc /\ runner'[s].mode = mode
  <2>1. runner'[s] = Index!Begun(pc, mode, scan, dim)
    BY <1>1 DEF Index!Becomes, OnSlots
  <2> QED
    BY <2>1 DEF Index!Begun, Index!Local
<1>2. CASE ModeOf[type] = "full" /\ Index!StartFull(s)
  BY <1>1, <1>2 DEF Index!StartFull
<1>3. CASE ModeOf[type] = "incremental" /\ Index!StartIncremental(s)
  BY <1>1, <1>3 DEF Index!StartIncremental
<1>4. CASE ModeOf[type] = "verify" /\ Index!StartVerify(s, Index!AnyDim)
  BY <1>1, <1>4 DEF Index!StartVerify
<1> QED
  BY <1>2, <1>3, <1>4 DEF Starts

\* What is recorded of runners stays right.
LEMMA RunnersRecorded ==
  ASSUME Proved!IInv, Joined, [Next]_vars, NEW s \in Slots, Fits(s)
  PROVE  /\ Fits(s)'
         /\ Marked(s) /\ ~Astray(s) => Marked(s)'
<1>1. /\ OnSlots /\ installed \subseteq installed'
      /\ DOMAIN jobs \subseteq DOMAIN jobs' /\ \A i \in DOMAIN jobs : jobs'[i].type = jobs[i].type
  BY InstalledGrows, RowsStay DEF Joined, Shape
<1>2. CASE UNCHANGED <<runner[s], serves[s]>>
  BY <1>1, <1>2 DEF Fits, Marked
<1>3. CASE RunnerMoves(s) /\ ~Ended(s) /\ serves'[s] = serves[s]
             /\ (Commits(s) => serves[s] \in installed' \/ runner'[s].pc \in Unmoded)
  <2>1. CASE runner'[s].pc \in Unmoded
    BY <2>1 DEF Fits, Marked, Unmoded, Shows, Verifying
  <2>2. CASE runner'[s].pc \notin Unmoded
    <3>1. Way(s)
      BY <1>1, <1>3, <2>2, WayOfRunner
    <3>2. Fits(s)'
      BY <1>1, <1>3, <3>1 DEF Fits, Way
    <3>3. ASSUME Marked(s), ~Astray(s) PROVE Marked(s)'
      BY <1>1, <1>3, <2>2, <3>1, <3>3 DEF Marked, Way, Shows, Verifying
    <3> QED
      BY <3>2, <3>3
  <2> QED
    BY <2>1, <2>2
<1>4. ASSUME NEW w \in Workers, Starts(s, jobs[worker[w].job].type),
             worker[w].job \in DOMAIN jobs, serves'[s] = worker[w].job
      PROVE  Fits(s)' /\ Marked(s)'
  <2>1. jobs[worker[w].job].type \in Types
    BY <1>4, QueueFacts DEF Proved!Row
  <2>2. /\ runner'[s].mode = ModeOf[jobs[worker[w].job].type]
        /\ runner'[s].pc \in {"scan", "unlink first", "open db", "validate"}
        /\ runner'[s].pc = "validate" => runner'[s].mode = "verify"
    BY <1>1, <1>4, <2>1, BeginsAsTyped
  <2>3. serves'[s] \in DOMAIN jobs' /\ jobs'[serves'[s]].type = jobs[worker[w].job].type
    BY <1>1, <1>4
  <2> QED
    BY <2>2, <2>3 DEF Fits, Marked, Shows, Verifying
<1> QED
  BY <1>2, <1>3, <1>4, RunnersBetween

\* What rows say of the index stays true.
LEMMA RowsRecorded ==
  ASSUME Proved!IInv, Joined, Recorded, ~overrun, [Next]_vars
  PROVE  SucceededIsInstalled'
<1>1. /\ installed \subseteq installed'
      /\ \A i \in DOMAIN jobs : jobs'[i].type = jobs[i].type /\ jobs[i].type \in Types
  BY InstalledGrows, RowsStay, QueueFacts DEF Proved!Row
<1> SUFFICES ASSUME NEW i \in DOMAIN jobs', jobs'[i].status = "succeeded",
                    jobs'[i].type # "rag_verify_index"
             PROVE  i \in installed'
  BY DEF SucceededIsInstalled
<1>2. CASE i \in DOMAIN jobs /\ jobs[i].status = "succeeded"
  BY <1>1, <1>2 DEF Recorded, SucceededIsInstalled
<1>3. ASSUME NEW w \in Workers, child[w] # None, worker[w].job = i, runner[child[w]].pc = "succeeded"
      PROVE  i \in installed'
  <2> DEFINE s == child[w]
  <2>1. s \in Slots /\ serves[s] = i
    BY <1>3 DEF Joined, Shape, Waits
  <2>2. i \in DOMAIN jobs /\ runner[s].mode = ModeOf[jobs[i].type]
    BY <1>3, <2>1 DEF Recorded, Fits, Unmoded
  <2>3. jobs[i].type \in {"rag_reindex", "rag_reindex_incremental"}
    BY <1>1, <2>2, HarnessAssumption DEF ModeOf
  <2>4. runner[s].mode # "verify"
    BY <2>2, <2>3 DEF ModeOf
  <2> QED
    BY <1>1, <1>3, <2>1, <2>4 DEF Recorded, Marked
<1> QED
  BY <1>2, <1>3, RowsStay

\* As long as nothing is overrun no commit goes astray.
LEMMA NoneAstray ==
  IndexProved!IInv /\ Joined /\ [Next]_vars /\ ~overrun' => ~overrun /\ \A s \in Slots : ~Astray(s)
<1> SUFFICES ASSUME IndexProved!IInv, Joined, [Next]_vars, ~overrun'
             PROVE  ~overrun /\ \A s \in Slots : ~Astray(s)
  OBVIOUS
<1>1. [IndexProved!Next]_(IndexProved!vars)
  BY StepOfParts, StepOfIndex
<1>2. ~overrun /\ IndexProved!Kept
  BY <1>1, IndexAssumed, IndexProved!KeptBefore DEF IndexProved!KeptBefore
<1> QED
  BY <1>2 DEF IndexProved!Kept, IndexProved!Holds, Astray

\* What is recorded, of rows and runners, is right throughout.
LEMMA RecordedHolds == FairSpec => []Recorded
<1>1. Init => Recorded
  <2> SUFFICES ASSUME Init PROVE Recorded
    OBVIOUS
  <2>1. DOMAIN jobs = {} /\ \A s \in Slots : runner[s].pc = "idle"
    BY DEF Init, Queue!Init, Index!Init, Index!Ended, Index!Begun, Index!Local
  <2> QED
    BY <2>1 DEF Recorded, SucceededIsInstalled, Fits, Marked, Unmoded, Shows, Verifying
<1>2. Proved!IInv /\ Joined /\ IndexProved!IInv /\ Recorded /\ [Next]_vars => Recorded'
  <2> SUFFICES ASSUME Proved!IInv, Joined, IndexProved!IInv, Recorded, [Next]_vars PROVE Recorded'
    OBVIOUS
  <2>1. \A s \in Slots : Fits(s)'
    BY RunnersRecorded DEF Recorded
  <2>2. ASSUME ~overrun' PROVE SucceededIsInstalled' /\ \A s \in Slots : Marked(s)'
    BY <2>2, NoneAstray, RunnersRecorded, RowsRecorded DEF Recorded
  <2>3. overrun' => SucceededIsInstalled'
    BY DEF SucceededIsInstalled
  <2> QED
    BY <2>1, <2>2, <2>3 DEF Recorded
<1>3. IndexProved!Spec => []IndexProved!IInv
  BY IndexAssumed, IndexProved!Invariance DEF IndexProved!Invariance
<1> QED
  BY InvariantOfWhole, WholeIsIndex, <1>1, <1>2, <1>3, PTL DEF FairSpec

\* As long as nothing is overrun, a reindex whose row says succeeded has been
\* committed to rag.db by a runner started for that row, or found nothing to
\* change, however workers and runners died.
THEOREM SucceededIsInstalledHolds == FairSpec => []SucceededIsInstalled
<1>1. Recorded => SucceededIsInstalled
  BY DEF Recorded
<1> QED
  BY RecordedHolds, <1>1, PTL

---------------------------------------------------------------------------
(* Runners that take turns                                                 *)

\* One runner is at the index at a time, and nobody waits for a runner that
\* has ended while another is at work.
Turns == /\ \A s, t \in Live : s = t
         /\ \A w \in Workers : child[w] # None => \A t \in Live : t = child[w]

\* No runner is killed while it writes pages to rag.db, alone or with its
\* worker.
Spared == \A s \in Slots : runner[s].pc = "flush db" => runner'[s].pc # "idle"

\* That is what the proofs about the index ask for.
LEMMA TurnsAreInTurn ==
  Turns /\ Turns' /\ [Spared]_vars => [IndexProved!InTurn]_(IndexProved!vars)
<1>1. (Turns => IndexProved!Alone) /\ (Turns' => IndexProved!Alone')
  BY DEF Turns, Live, Ended, IndexProved!Alone, Index!Settled, IndexProved!Settled
<1>2. Spared => IndexProved!Spared
  BY DEF Spared, IndexProved!Spared
<1>3. UNCHANGED vars => UNCHANGED IndexProved!vars
  BY DEF vars, indexVars, IndexProved!vars
<1> QED
  BY <1>1, <1>2, <1>3 DEF IndexProved!InTurn

\* While runners take turns rag.db serves what was committed last, and an
\* index without chunks is never published.
LEMMA TurnsKeepThePromise ==
  FairSpec /\ []Turns /\ [][Spared]_vars
    => []Index!ServesLastCommit /\ []Index!PublishedHasChunks
<1>1. IndexProved!ServesLastCommit => Index!ServesLastCommit
  BY DEF Index!ServesLastCommit, Index!Recovered, Index!Overwritten, Index!Hot, Index!Writing,
       Index!Transactions, Index!Flushing, IndexProved!ServesLastCommit, IndexProved!Recovered,
       IndexProved!Overwritten, IndexProved!Hot, IndexProved!Writing, IndexProved!Transactions,
       IndexProved!Flushing
<1>2. IndexProved!PublishedHasChunks => Index!PublishedHasChunks
  BY DEF Index!PublishedHasChunks, Index!HasChunks, IndexProved!PublishedHasChunks, IndexProved!HasChunks
<1>3. IndexProved!Spec /\ [][IndexProved!InTurn]_(IndexProved!vars)
        => []IndexProved!ServesLastCommit /\ []IndexProved!PublishedHasChunks
  BY IndexAssumed, IndexProved!RunsInTurnKeepThePromise, PTL DEF IndexProved!RunsInTurnKeepThePromise
<1> QED
  BY WholeIsIndex, TurnsAreInTurn, <1>1, <1>2, <1>3, PTL

\* What the runner a worker waits for has achieved is still so.
Ready == \A w \in Workers : child[w] # None => IndexProved!Reached(runner[child[w]])

\* A runner just started has achieved nothing yet.
LEMMA LaunchIsReady ==
  ASSUME Proved!IInv, Joined, IndexProved!SoleInv', NEW w \in Workers, Launch(w)
  PROVE  IndexProved!Reached(runner[child[w]])'
<1>1. PICK s \in Spare : /\ Starts(s, jobs[worker[w].job].type)
                         /\ child' = [child EXCEPT ![w] = s]
  BY DEF Launch
<1>2. s \in Slots /\ child'[w] = s /\ jobs[worker[w].job].type \in Types /\ OnSlots
  BY <1>1, QueueFacts DEF Spare, Joined, Shape, Launch, Proved!Row
<1>3. runner'[s].pc # "succeeded"
  BY <1>1, <1>2, BeginsAsTyped
<1> QED
  BY <1>2, <1>3 DEF IndexProved!SoleInv

\* Nobody else disturbs what the runner has achieved.
LEMMA StaysReady ==
  ASSUME Proved!IInv, Joined, IndexProved!IInv, IndexProved!SoleInv, IndexProved!SoleInv',
         Turns, Turns', Ready, [Next]_vars
  PROVE  Ready'
<1> SUFFICES ASSUME NEW w \in Workers, child'[w] # None
             PROVE  IndexProved!Reached(runner[child[w]])'
  BY DEF Ready
<1>1. child \in [Workers -> Slots \cup {None}]
  BY DEF Joined, Shape
<1>2. CASE Launch(w)
  BY <1>2, LaunchIsReady
<1>3. CASE ~Launch(w)
  <2>1. child'[w] = child[w]
    <3>1. ASSUME NEW v \in Workers, LaunchFails(v) \/ Record(v) \/ Die(v) \/ DieWithRunner(v)
          PROVE  child'[w] = child[w]
      BY <1>1, <3>1 DEF LaunchFails, Record, Die, DieWithRunner, processes
    <3>2. CASE UNCHANGED child
      BY <3>2
    <3>3. ASSUME NEW v \in Workers, Launch(v) PROVE child'[w] = child[w]
      <4>1. v # w /\ \E s \in Spare : child' = [child EXCEPT ![v] = s]
        BY <1>3, <3>3 DEF Launch
      <4> QED
        BY <1>1, <4>1
    <3> QED
      BY <3>1, <3>2, <3>3 DEF Next, vars, processes, WorkerWaits, QueueAlone, IndexAlone, RunnerStep, Kill
  <2>2. child[w] \in Slots /\ IndexProved!Reached(runner[child[w]])
    BY <1>1, <2>1 DEF Ready
  <2>3. ASSUME NEW t \in Slots, t # child[w] PROVE t \notin Live /\ t \notin Live'
    BY <2>1, <2>3 DEF Turns
  <2>4. ASSUME NEW t \in Slots, t # child[w]
        PROVE  runner[t].pc \in IndexProved!Settled /\ runner'[t].pc \in IndexProved!Settled
    BY <2>3, <2>4 DEF Live, Ended, Index!Settled, IndexProved!Settled
  <2>5. IndexProved!IInv /\ IndexProved!SoleInv /\ [IndexProved!Next]_(IndexProved!vars)
    BY StepOfParts, StepOfIndex
  <2>6. IndexProved!Reached(runner[child[w]])'
    BY <2>1, <2>2, <2>4, <2>5, IndexAssumed, IndexProved!SoleReached DEF IndexProved!SoleReached
  <2> QED
    BY <2>6
<1> QED
  BY <1>2, <1>3

\* When a row is first called succeeded, a runner of that very job is what
\* says so, and what it reports is so of the index at that moment: a reindex,
\* that the index holds the documents it scanned and no others; a verify,
\* that the index has chunks of the dimension expected.
RowsReportTruly == [][\A i \in DOMAIN jobs :
  jobs[i].status # "succeeded" /\ jobs'[i].status = "succeeded" =>
    \E s \in Slots : /\ serves[s] = i
                     /\ runner[s].mode = ModeOf[jobs[i].type]
                     /\ IndexProved!Truth(runner[s])]_vars

\* While runners take turns the rows tell the truth, though the worker reads
\* the runner's report only after it has ended.
LEMMA TurnsReportTruly == FairSpec /\ []Turns /\ [][Spared]_vars => RowsReportTruly
<1> DEFINE Reports == \A i \in DOMAIN jobs :
             jobs[i].status # "succeeded" /\ jobs'[i].status = "succeeded" =>
               \E s \in Slots : /\ serves[s] = i
                                /\ runner[s].mode = ModeOf[jobs[i].type]
                                /\ IndexProved!Truth(runner[s])
<1>1. IndexProved!Spec /\ [][IndexProved!InTurn]_(IndexProved!vars)
        => [](IndexProved!IInv /\ IndexProved!SoleInv)
  BY IndexAssumed, IndexProved!SoleInvariance DEF IndexProved!SoleInvariance
<1>2. Turns /\ Turns' /\ [Spared]_vars => [IndexProved!InTurn]_(IndexProved!vars)
  BY TurnsAreInTurn
<1>3. Init => Ready
  BY DEF Init, Ready
<1>4. /\ Proved!IInv /\ Joined /\ IndexProved!IInv /\ IndexProved!SoleInv /\ IndexProved!SoleInv'
      /\ Turns /\ Turns' /\ Ready /\ [Next]_vars
      => Ready'
  BY StaysReady
<1>5. /\ Proved!IInv /\ Joined /\ Recorded /\ IndexProved!IInv /\ Ready /\ [Next]_vars
      => [Reports]_vars
  <2> SUFFICES ASSUME Proved!IInv, Joined, Recorded, IndexProved!IInv, Ready, [Next]_vars,
                      NEW i \in DOMAIN jobs, jobs[i].status # "succeeded", jobs'[i].status = "succeeded"
               PROVE  \E s \in Slots : /\ serves[s] = i
                                       /\ runner[s].mode = ModeOf[jobs[i].type]
                                       /\ IndexProved!Truth(runner[s])
    OBVIOUS
  <2>1. PICK w \in Workers : child[w] # None /\ worker[w].job = i /\ runner[child[w]].pc = "succeeded"
    BY RowsStay
  <2>2. child[w] \in Slots /\ serves[child[w]] = i /\ IndexProved!Reached(runner[child[w]])
    BY <2>1 DEF Joined, Shape, Waits, Ready
  <2>3. runner[child[w]].mode = ModeOf[jobs[i].type]
    BY <2>1, <2>2 DEF Recorded, Fits, Unmoded
  <2>4. IndexProved!Truth(runner[child[w]])
    BY <2>1, <2>2, IndexAssumed, IndexProved!ReachedIsTrue DEF IndexProved!ReachedIsTrue
  <2> QED
    BY <2>2, <2>3, <2>4
<1> QED
  BY WholeIsIndex, InvariantOfWhole, RecordedHolds, <1>1, <1>2, <1>3, <1>4, <1>5, PTL DEF FairSpec, RowsReportTruly

---------------------------------------------------------------------------
(* When runners take turns                                                 *)

\* A worker that dies takes its runner with it, as when its container is
\* stopped.
NoOrphans == \A s \in Live : \E w \in Workers : child[w] = s

\* As long as no worker dies that is so.
LEMMA UndisturbedLeavesNone == Joined /\ deaths = 0 => NoOrphans
  BY DEF Joined, Attended, NoOrphans

\* compose.yml starts one worker.  If it leaves no runner behind and no runner
\* is killed while it writes pages to rag.db, rag.db always serves
\* what was committed last, never an index without chunks, and rows report what
\* is so: whatever is requested, in whatever mixture of types, whatever fails,
\* and whenever else worker and runner are killed together.
THEOREM OneWorkerSuffices ==
  ASSUME \A v, w \in Workers : v = w
  PROVE  FairSpec /\ []NoOrphans /\ [][Spared]_vars
           => []Index!ServesLastCommit /\ []Index!PublishedHasChunks /\ RowsReportTruly
<1>1. NoOrphans => Turns
  BY DEF NoOrphans, Turns, Live
<1> QED
  BY TurnsKeepThePromise, TurnsReportTruly, <1>1, PTL

\* No job is queued while another is queued or running: a look at the rows
\* before each request.
OneActive == \A i, k \in DOMAIN jobs :
  jobs[i].status \in Queue!ActiveStatuses /\ jobs[k].status \in Queue!ActiveStatuses => i = k

\* A runner's row says running until the runner has ended and its worker has
\* recorded so, or for ever if the worker is dead.
LEMMA OneActiveTakesTurns == Proved!IInv /\ Joined /\ OneActive => Turns
<1> SUFFICES ASSUME Proved!IInv, Joined, OneActive PROVE Turns
  OBVIOUS
<1>1. \A s \in Live : serves[s] \in DOMAIN jobs /\ jobs[serves[s]].status \in Queue!ActiveStatuses
  BY DEF Joined, AtWork, RunnersAreRunningJobs, Queue!ActiveStatuses
<1>2. \A s, t \in Live : s = t
  BY <1>1 DEF OneActive, Joined, RunnersAreRunningJobs
<1>3. ASSUME NEW w \in Workers, child[w] # None, NEW t \in Live PROVE t = child[w]
  <2>1. /\ worker[w].pc = "running" /\ worker[w].job \in DOMAIN jobs
        /\ jobs[worker[w].job].status \in Queue!ActiveStatuses
    BY <1>3, QueueFacts DEF Joined, Waits, Queue!ActiveStatuses
  <2>2. worker[w].job = serves[t]
    BY <1>1, <2>1 DEF OneActive
  <2> QED
    BY <2>1, <2>2 DEF Joined, AtWork
<1> QED
  BY <1>2, <1>3 DEF Turns

\* However many workers there are and however they die, runners left behind
\* included: while at most one job is active in the table, and no runner is
\* killed while it writes pages to rag.db, the index keeps its
\* promise and rows report what is so.
THEOREM OneActiveJobSuffices ==
  FairSpec /\ []OneActive /\ [][Spared]_vars
    => []Index!ServesLastCommit /\ []Index!PublishedHasChunks /\ RowsReportTruly
  BY InvariantOfWhole, OneActiveTakesTurns, TurnsKeepThePromise, TurnsReportTruly, PTL

\* What the duplicate check keeps apart: runners of one type.
ApartByType == \A s, t \in Live : s # t => jobs[serves[s]].type # jobs[serves[t]].type

\* As long as no two requests for one type overlap there is never more than
\* one runner of a type at work, counting those of dead workers: the row of
\* such a job says running for ever, and refuses every other of its type.
THEOREM RunnersApartByType == FairSpec /\ []Proved!NoOverlap => []ApartByType
<1>1. FairSpec => Proved!Spec
  <2>1. Init => Proved!Init
    BY DEF Init, Queue!Init, Queue!Blank, Queue!NoType, Queue!NoJob, Queue!Empty,
         Proved!Init, Proved!Blank, Proved!NoType, Proved!NoJob, Proved!Empty
  <2> QED
    BY <2>1, StepOfQueue, PTL DEF FairSpec, Proved!Spec
<1>2. Proved!Spec /\ []Proved!NoOverlap => []Proved!AtMostOneActivePerType
  BY QueueAssumed, Proved!OneActiveUnlessOverlap DEF Proved!OneActiveUnlessOverlap
<1>3. Joined /\ Proved!AtMostOneActivePerType => ApartByType
  BY DEF Joined, AtWork, RunnersAreRunningJobs, ApartByType, Proved!AtMostOneActivePerType, Proved!ActiveStatuses
<1> QED
  BY InvariantOfWhole, <1>1, <1>2, <1>3, PTL
=============================================================================
