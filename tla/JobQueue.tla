----------------------------- MODULE JobQueue -----------------------------
(* The jobs table of the platform, the API handlers that enqueue into it   *)
(* (apps/api/src/api/main.py) and the worker processes that claim jobs,    *)
(* run them and record the outcome (apps/worker/src/worker/main.py).       *)
(*                                                                         *)
(* A client's POST is split where the handler's database statements are:   *)
(* under READ COMMITTED each of them sees what other sessions have         *)
(* committed meanwhile.  The worker's claim is split between its SELECT    *)
(* and its UPDATE.                                                         *)
EXTENDS Integers

CONSTANTS Clients,       \* concurrent POST /rag/... requests
          Workers,       \* worker processes polling the table
          JobTypes,      \* the job types the API enqueues
          MaxAttempts,   \* jobs.max_attempts
          SkipLocked,    \* the claim's branch: FOR UPDATE SKIP LOCKED or not
          MaxRequests,   \* bound: requests that get past the duplicate check
          MaxCrashes     \* bound: deaths of worker processes

ASSUME JobQueueAssumption ==
  /\ MaxAttempts \in Nat \ {0}
  /\ SkipLocked \in BOOLEAN
  /\ MaxRequests \in Nat
  /\ MaxCrashes \in Nat

VARIABLES jobs,          \* the table: a function from the ids present to rows
          request,       \* per client, where its handler is and what it answered
          worker,        \* per worker, where its loop is and the job it holds
          now,           \* clock of transaction starts (jobs.created_at)
          crashes,       \* worker deaths so far
          committedAt,   \* history: the clock when each row was committed
          claims         \* history: how often each row was set to running

vars == <<jobs, request, worker, now, crashes, committedAt, claims>>

---------------------------------------------------------------------------
(* State                                                                   *)

Statuses == {"queued", "running", "succeeded", "failed"}
ActiveStatuses == {"queued", "running"}
Terminal == {"succeeded", "failed"}

NoJob == 0               \* ids start at 1
Ids == Nat \ {0}
NoType == "none"

\* Timestamps other than created_at, the error text and the result matter
\* only as NULL or not NULL.
Row == [type : JobTypes, status : Statuses, attempts : 0..MaxAttempts,
        created : Nat, started : BOOLEAN, finished : BOOLEAN,
        error : BOOLEAN, result : BOOLEAN]

Settled == {"idle", "accepted", "refused", "error"}
Request == [pc : Settled \cup {"numbering", "inserting", "refreshing"},
            type : JobTypes \cup {NoType}, created : Nat, id : Nat,
            status : Statuses \cup {"unknown"}]

Worker == [pc : {"polling", "claiming", "running", "down"}, job : Nat,
           attempts : 0..MaxAttempts]

\* A handler that holds nothing: before it starts, and after a 500.
Blank(pc) == [pc |-> pc, type |-> NoType, created |-> 0, id |-> NoJob,
              status |-> "unknown"]
\* A worker that holds nothing.
Empty(pc) == [pc |-> pc, job |-> NoJob, attempts |-> 0]

\* One type invariant for the module: the range of every column and of the
\* local state of every handler and worker loop.
TypeOK ==
  /\ DOMAIN jobs \subseteq Ids
  /\ jobs \in [DOMAIN jobs -> Row]
  /\ request \in [Clients -> Request]
  /\ worker \in [Workers -> Worker]
  /\ now \in 0..MaxRequests
  /\ crashes \in 0..MaxCrashes
  /\ committedAt \in [DOMAIN jobs -> Nat]
  /\ claims \in [DOMAIN jobs -> Nat]

Init ==
  /\ jobs = [i \in {} |-> NoJob]
  /\ request = [c \in Clients |-> Blank("idle")]
  /\ worker = [w \in Workers |-> Empty("polling")]
  /\ now = 0
  /\ crashes = 0
  /\ committedAt = [i \in {} |-> 0]
  /\ claims = [i \in {} |-> 0]

---------------------------------------------------------------------------
(* API: _enqueue_job                                                       *)

\* Fault: the duplicate check looks at queued jobs only.
ActiveQueuedOnly(t) == {i \in DOMAIN jobs : jobs[i].type = t /\ jobs[i].status = "queued"}

Active(t) == {i \in DOMAIN jobs : jobs[i].type = t /\ jobs[i].status \in ActiveStatuses}

\* ORDER BY created_at ASC, id ASC LIMIT 1.
IsOldest(i, S) ==
  /\ i \in S
  /\ \A k \in S : \/ jobs[i].created < jobs[k].created
                  \/ (jobs[i].created = jobs[k].created /\ i <= k)

\* _next_job_id: one more than the largest id the statement sees.
LastJobId == CHOOSE m \in DOMAIN jobs \cup {NoJob} : \A i \in DOMAIN jobs : i <= m
NextJobId == LastJobId + 1

\* The duplicate check finds an active job of the type: 409.
Refuse(c, t) ==
  /\ request[c].pc \in Settled
  /\ \E i \in Active(t) :
       /\ IsOldest(i, Active(t))
       /\ request' = [request EXCEPT ![c] =
            [pc |-> "refused", type |-> t, created |-> 0, id |-> i, status |-> "unknown"]]
  /\ UNCHANGED <<jobs, worker, now, crashes, committedAt, claims>>

\* The duplicate check finds none.  The session's transaction, whose start
\* becomes created_at, begins with this SELECT.
CheckDuplicate(c, t) ==
  /\ request[c].pc \in Settled
  /\ now < MaxRequests
  /\ Active(t) = {}
  /\ now' = now + 1
  /\ request' = [request EXCEPT ![c] =
       [pc |-> "numbering", type |-> t, created |-> now + 1, id |-> NoJob,
        status |-> "unknown"]]
  /\ UNCHANGED <<jobs, worker, crashes, committedAt, claims>>

\* The handler of c moves on with its type and its transaction's start.
Move(c, pc, id, status) ==
  request' = [request EXCEPT ![c] = [pc |-> pc, type |-> request[c].type,
                created |-> request[c].created, id |-> id, status |-> status]]

AssignId(c) ==
  /\ request[c].pc = "numbering"
  /\ Move(c, "inserting", NextJobId, "unknown")
  /\ UNCHANGED <<jobs, worker, now, crashes, committedAt, claims>>

NewRow(r) == [type |-> r.type, status |-> "queued", attempts |-> 0,
              created |-> r.created, started |-> FALSE, finished |-> FALSE,
              error |-> FALSE, result |-> FALSE]

Extend(f, i, v) == [k \in DOMAIN f \cup {i} |-> IF k = i THEN v ELSE f[k]]

\* Fault: the row is merged instead of inserted, so a taken id is overwritten.
MergeJob(c) ==
  /\ request[c].pc = "inserting"
  /\ jobs' = Extend(jobs, request[c].id, NewRow(request[c]))
  /\ committedAt' = Extend(committedAt, request[c].id, now)
  /\ claims' = Extend(claims, request[c].id, 0)
  /\ Move(c, "refreshing", request[c].id, "unknown")
  /\ UNCHANGED <<worker, now, crashes>>

\* session.commit() flushes the INSERT and commits it.
InsertJob(c) ==
  /\ request[c].pc = "inserting"
  /\ request[c].id \notin DOMAIN jobs
  /\ jobs' = Extend(jobs, request[c].id, NewRow(request[c]))
  /\ committedAt' = Extend(committedAt, request[c].id, now)
  /\ claims' = Extend(claims, request[c].id, 0)
  /\ Move(c, "refreshing", request[c].id, "unknown")
  /\ UNCHANGED <<worker, now, crashes>>

\* The id has been taken meanwhile: the primary key refuses the INSERT and
\* the handler's IntegrityError becomes a 500.
DuplicateKey(c) ==
  /\ request[c].pc = "inserting"
  /\ request[c].id \in DOMAIN jobs
  /\ request' = [request EXCEPT ![c] = Blank("error")]
  /\ UNCHANGED <<jobs, worker, now, crashes, committedAt, claims>>

\* The commit expired the attributes of `job`, so job.id and job.status are
\* SELECTed again, in a new transaction, before the 202 is built.
Accept(c) ==
  /\ request[c].pc = "refreshing"
  /\ Move(c, "accepted", request[c].id, jobs[request[c].id].status)
  /\ UNCHANGED <<jobs, worker, now, crashes, committedAt, claims>>

\* Any statement of the handler may fail (lost connection, API restart).
\* What it committed stays; the client sees a 500 or no answer.
FailRequest(c) ==
  /\ request[c].pc \notin Settled
  /\ request' = [request EXCEPT ![c] = Blank("error")]
  /\ UNCHANGED <<jobs, worker, now, crashes, committedAt, claims>>

---------------------------------------------------------------------------
(* Worker: main, _claim_next_job, _process_claimed_job                     *)

\* Fault: the claim's SELECT takes no row lock.
NeverLocked(i) == FALSE

\* On PostgreSQL a selected row stays locked until the claim commits or the
\* worker's connection goes away; SKIP LOCKED hides it from other claims.
Locked(i) == SkipLocked /\ \E w \in Workers : worker[w].pc = "claiming" /\ worker[w].job = i

\* Fault: failed jobs are picked up again.
ClaimableFailed ==
  {i \in DOMAIN jobs : jobs[i].status \in {"queued", "failed"} /\ ~Locked(i)}

Claimable == {i \in DOMAIN jobs : jobs[i].status = "queued" /\ ~Locked(i)}

\* Fault: the SELECT forgets the attempts column, which then defaults to 0.
SelectJobWithoutAttempts(w) ==
  /\ worker[w].pc = "polling"
  /\ \E i \in Claimable :
       /\ IsOldest(i, Claimable)
       /\ worker' = [worker EXCEPT ![w] = [pc |-> "claiming", job |-> i, attempts |-> 0]]
  /\ UNCHANGED <<jobs, request, now, crashes, committedAt, claims>>

\* The claim's SELECT.  The attempts count travels in the job dictionary.
SelectJob(w) ==
  /\ worker[w].pc = "polling"
  /\ \E i \in Claimable :
       /\ IsOldest(i, Claimable)
       /\ worker' = [worker EXCEPT ![w] = [pc |-> "claiming", job |-> i,
                                           attempts |-> jobs[i].attempts]]
  /\ UNCHANGED <<jobs, request, now, crashes, committedAt, claims>>

\* Nothing to claim: sleep(poll_seconds).
Sleep(w) ==
  /\ worker[w].pc = "polling"
  /\ Claimable = {}
  /\ UNCHANGED vars

\* SET status = 'running', started_at = now, finished_at = NULL, error = NULL.
Claimed(r) == [type |-> r.type, status |-> "running", attempts |-> r.attempts,
               created |-> r.created, started |-> TRUE, finished |-> FALSE,
               error |-> FALSE, result |-> r.result]

\* Fault: the UPDATE names the row by id only, whatever the dialect.
ClaimJobUnguarded(w) == LET i == worker[w].job IN
  /\ worker[w].pc = "claiming"
  /\ jobs' = [jobs EXCEPT ![i] = Claimed(jobs[i])]
  /\ claims' = [claims EXCEPT ![i] = @ + 1]
  /\ worker' = [worker EXCEPT ![w] = [pc |-> "running", job |-> i,
                                      attempts |-> worker[w].attempts]]
  /\ UNCHANGED <<request, now, crashes, committedAt>>

\* The claim's UPDATE and commit.
ClaimJob(w) == LET i == worker[w].job IN
  /\ worker[w].pc = "claiming"
  /\ SkipLocked \/ jobs[i].status = "queued"
  /\ jobs' = [jobs EXCEPT ![i] = Claimed(jobs[i])]
  /\ claims' = [claims EXCEPT ![i] = @ + 1]
  /\ worker' = [worker EXCEPT ![w] = [pc |-> "running", job |-> i,
                                      attempts |-> worker[w].attempts]]
  /\ UNCHANGED <<request, now, crashes, committedAt>>

\* Without row locks the UPDATE is guarded by the status; rowcount # 1
\* sends the worker back to polling.
LoseClaim(w) ==
  /\ worker[w].pc = "claiming"
  /\ ~SkipLocked
  /\ jobs[worker[w].job].status # "queued"
  /\ worker' = [worker EXCEPT ![w] = Empty("polling")]
  /\ UNCHANGED <<jobs, request, now, crashes, committedAt, claims>>

Succeeded(r) == [type |-> r.type, status |-> "succeeded", attempts |-> r.attempts,
                 created |-> r.created, started |-> r.started, finished |-> TRUE,
                 error |-> FALSE, result |-> TRUE]

\* The runner subprocess returned a JSON object.
MarkSucceeded(w) == LET i == worker[w].job IN
  /\ worker[w].pc = "running"
  /\ jobs' = [jobs EXCEPT ![i] = Succeeded(jobs[i])]
  /\ worker' = [worker EXCEPT ![w] = Empty("polling")]
  /\ UNCHANGED <<request, now, crashes, committedAt, claims>>

Requeue(w) == worker[w].attempts + 1 < MaxAttempts

\* Fault: a requeued job keeps its started_at.
FailedKeepsStart(r, attempts, requeue) ==
  [type |-> r.type, status |-> IF requeue THEN "queued" ELSE "failed",
   attempts |-> attempts, created |-> r.created, started |-> r.started,
   finished |-> ~requeue, error |-> TRUE, result |-> r.result]

\* One more attempt spent; queued again without started_at, or failed.
Failed(r, attempts, requeue) ==
  [type |-> r.type, status |-> IF requeue THEN "queued" ELSE "failed",
   attempts |-> attempts, created |-> r.created,
   started |-> IF requeue THEN FALSE ELSE r.started,
   finished |-> ~requeue, error |-> TRUE, result |-> r.result]

\* Fault: main swallows a database error of the outcome UPDATE and polls on.
MarkFailureLost(w) ==
  /\ worker[w].pc = "running"
  /\ worker' = [worker EXCEPT ![w] = Empty("polling")]
  /\ UNCHANGED <<jobs, request, now, crashes, committedAt, claims>>

\* The runner raised: non-zero exit, no output, or output that is not a
\* JSON object.  Queue the job again while attempts remain.
MarkFailure(w) == LET i == worker[w].job IN
  /\ worker[w].pc = "running"
  /\ jobs' = [jobs EXCEPT ![i] = Failed(jobs[i], worker[w].attempts + 1, Requeue(w))]
  /\ worker' = [worker EXCEPT ![w] = Empty("polling")]
  /\ UNCHANGED <<request, now, crashes, committedAt, claims>>

\* Fault: a dying worker puts its job back without counting the attempt.
DieRequeues(w) == LET i == worker[w].job IN
  /\ worker[w].pc # "down"
  /\ crashes < MaxCrashes
  /\ crashes' = crashes + 1
  /\ worker' = [worker EXCEPT ![w] = Empty("down")]
  /\ jobs' = IF worker[w].pc = "running" THEN [jobs EXCEPT ![i].status = "queued", ![i].started = FALSE] ELSE jobs
  /\ UNCHANGED <<request, now, committedAt, claims>>

\* The process is killed, or a database error in the claim or in recording
\* the outcome escapes main's loop.  An open transaction is rolled back, so
\* its row lock goes; a committed claim stays.
Die(w) ==
  /\ worker[w].pc # "down"
  /\ crashes < MaxCrashes
  /\ crashes' = crashes + 1
  /\ worker' = [worker EXCEPT ![w] = Empty("down")]
  /\ UNCHANGED <<jobs, request, now, committedAt, claims>>

\* An operator starts the process again (compose.yml has no restart policy).
Restart(w) ==
  /\ worker[w].pc = "down"
  /\ worker' = [worker EXCEPT ![w] = Empty("polling")]
  /\ UNCHANGED <<jobs, request, now, crashes, committedAt, claims>>

---------------------------------------------------------------------------
ClientStep(c) ==
  \/ \E t \in JobTypes : Refuse(c, t) \/ CheckDuplicate(c, t)
  \/ AssignId(c)
  \/ InsertJob(c)
  \/ DuplicateKey(c)
  \/ Accept(c)
  \/ FailRequest(c)

WorkerStep(w) ==
  \/ SelectJob(w)
  \/ Sleep(w)
  \/ ClaimJob(w)
  \/ LoseClaim(w)
  \/ MarkSucceeded(w)
  \/ MarkFailure(w)

Next == \/ \E c \in Clients : ClientStep(c)
        \/ \E w \in Workers : WorkerStep(w) \/ Die(w) \/ Restart(w)

Spec == Init /\ [][Next]_vars

\* A live worker keeps looping and its runner terminates (subprocess.run has
\* no timeout: that the runner returns is an assumption); a dead worker is
\* restarted.  Clients owe nothing.
FairSpec == Spec /\ \A w \in Workers : WF_vars(WorkerStep(w)) /\ WF_vars(Restart(w))

---------------------------------------------------------------------------
(* Safety                                                                  *)

Holders(i) == {w \in Workers : worker[w].pc = "running" /\ worker[w].job = i}

\* A job is executed by one worker at a time, and only while its row says
\* running: the outcome UPDATEs of worker/main.py:333 and :362 name the row
\* by id only, so they are right just as long as nobody else holds the job.
ExclusiveRun ==
  /\ \A w \in Workers : worker[w].pc = "running" => jobs[worker[w].job].status = "running"
  /\ \A v, w \in Workers : v # w /\ worker[v].pc = "running" /\ worker[w].pc = "running"
                             => worker[v].job # worker[w].job

\* The columns of a row agree with its status whatever sequence of claims,
\* failures and requeues wrote them: started_at while it runs or is settled,
\* finished_at when settled only, an error only after a failed run, a result
\* only on success, attempts left while active and none left when failed.
RowConsistent == \A i \in DOMAIN jobs : LET r == jobs[i] IN
  /\ r.started <=> r.status # "queued"
  /\ r.finished <=> r.status \in Terminal
  /\ r.result <=> r.status = "succeeded"
  /\ r.error <=> (r.status = "failed" \/ (r.status = "queued" /\ r.attempts > 0))
  /\ r.status # "failed" => r.attempts < MaxAttempts
  /\ r.status = "failed" => r.attempts = MaxAttempts

\* A 202 names a row that this very request created, although two requests
\* may compute the same next id (api/main.py:164): the row has the type and
\* the transaction start of the request, so no two 202s share a job.
AcceptedOwnsRow == \A c \in Clients :
  request[c].pc = "accepted" =>
    /\ request[c].id \in DOMAIN jobs
    /\ jobs[request[c].id].type = request[c].type
    /\ jobs[request[c].id].created = request[c].created

\* What the duplicate check does guarantee without a lock: two jobs of one
\* type are active together only if the later request ran its check before
\* the earlier one had committed.
DuplicatesOnlyByOverlap == \A i, k \in DOMAIN jobs :
  /\ i # k
  /\ jobs[i].type = jobs[k].type
  /\ jobs[i].status \in ActiveStatuses
  /\ jobs[k].status \in ActiveStatuses
  /\ jobs[i].created <= jobs[k].created
  => committedAt[i] >= jobs[k].created

\* With row locks the attempts column counts exactly the runs that failed,
\* so a job is started at most MaxAttempts times, however often workers die.
RunsCounted == SkipLocked => \A i \in DOMAIN jobs :
  /\ claims[i] = jobs[i].attempts + (IF jobs[i].status \in {"running", "succeeded"} THEN 1 ELSE 0)
  /\ claims[i] <= MaxAttempts

\* A job that is running with no worker executing it is the trace of one
\* worker death, never of an ordinary interleaving.
Orphan(i) == i \in DOMAIN jobs /\ jobs[i].status = "running" /\ Holders(i) = {}

OrphansOnlyByDeath == crashes = 0 => \A i \in DOMAIN jobs : ~Orphan(i)

\* README.md:472 says of POST /rag/warmup and /rag/verify, which follow the
\* reindex endpoints: 409 when a queued or running job exists, i.e. at most
\* one active job of a type.
AtMostOneActivePerType == \A i, k \in DOMAIN jobs :
  i # k /\ jobs[i].type = jobs[k].type =>
    jobs[i].status \notin ActiveStatuses \/ jobs[k].status \notin ActiveStatuses

---------------------------------------------------------------------------
(* Inductive invariant: what the steps above preserve together.  Its parts *)
(* say what the handlers and the worker loops rely on between two of their *)
(* own statements, while everybody else moves.                             *)

\* The ids present are 1..n, and an id a handler is about to insert is one
\* of them or the next.
DenseIds ==
  /\ LastJobId \in Nat
  /\ DOMAIN jobs = 1..LastJobId
  /\ \A c \in Clients : request[c].pc = "inserting" => request[c].id \in 1..NextJobId

\* No row is younger than the clock; a handler past its duplicate check
\* knows that the jobs of its type committed before the check are settled.
CheckStillTrue ==
  /\ \A i \in DOMAIN jobs : jobs[i].created <= now /\ committedAt[i] <= now
  /\ \A c \in Clients : request[c].pc \notin Settled =>
       /\ request[c].type \in JobTypes
       /\ request[c].created <= now
  /\ \A c \in Clients : request[c].pc \in {"numbering", "inserting"} =>
       \A i \in DOMAIN jobs :
         jobs[i].type = request[c].type /\ committedAt[i] < request[c].created
           => jobs[i].status \in Terminal

\* A handler that has inserted its row still finds it.
InsertedRowThere == \A c \in Clients :
  request[c].pc \in {"refreshing", "accepted"} =>
    /\ request[c].id \in DOMAIN jobs
    /\ jobs[request[c].id].type = request[c].type
    /\ jobs[request[c].id].created = request[c].created

\* A worker's job exists and has attempts left; with row locks the row is
\* as the worker read it and no other worker is at it.
HoldsItsJob ==
  /\ \A w \in Workers : worker[w].pc \in {"claiming", "running"} =>
       worker[w].job \in DOMAIN jobs /\ worker[w].attempts < MaxAttempts
  /\ SkipLocked => \A w \in Workers :
       /\ worker[w].pc = "claiming" => jobs[worker[w].job].status = "queued"
       /\ worker[w].pc \in {"claiming", "running"} =>
            worker[w].attempts = jobs[worker[w].job].attempts
  /\ SkipLocked => \A v, w \in Workers :
       v # w /\ worker[v].pc = "claiming" /\ worker[w].pc = "claiming"
         => worker[v].job # worker[w].job

IInv == /\ TypeOK
        /\ DenseIds
        /\ CheckStillTrue
        /\ InsertedRowThere
        /\ HoldsItsJob
        /\ ExclusiveRun
        /\ RowConsistent
        /\ RunsCounted
        /\ DuplicatesOnlyByOverlap
        /\ OrphansOnlyByDeath

---------------------------------------------------------------------------
(* Action and temporal properties                                          *)

\* A settled row is never written again: no late outcome of another worker,
\* no second claim, no reused id reaches it.
TerminalFinal == [][\A i \in DOMAIN jobs :
  jobs[i].status \in Terminal => i \in DOMAIN jobs' /\ jobs'[i] = jobs[i]]_vars

\* Every step of the table is a step of the lifecycle of one job.
Lifecycle == INSTANCE JobLifecycle WITH
  count <- LastJobId,
  job <- [i \in 1..LastJobId |-> [status |-> jobs[i].status, attempts |-> jobs[i].attempts]]

ImplementsLifecycle == Lifecycle!Spec

HasStatus(i, S) == i \in DOMAIN jobs /\ jobs[i].status \in S

\* A queued job is eventually settled, or its worker died and left it
\* running: retries are bounded, so younger jobs are not starved by one that
\* keeps failing at the head of the queue.
QueuedSettlesOrOrphans == \A i \in 1..MaxRequests :
  HasStatus(i, {"queued"}) ~> HasStatus(i, Terminal) \/ Orphan(i)

\* README.md:49: a job created with 202 then goes running ->
\* succeeded/failed.  Nothing returns a job whose worker died to the queue.
RunningSettles == \A i \in 1..MaxRequests :
  HasStatus(i, {"running"}) ~> HasStatus(i, Terminal)
===========================================================================
