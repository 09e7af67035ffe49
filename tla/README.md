# Formal models of the Industrial AI Harness Platform

TLA+ specifications, TLC configurations and TLAPS proofs for the parts of this
repository whose correctness depends on the order of steps: the job queue in
PostgreSQL, the SQLite retrieval index and the searches that read it, the two
together as the worker joins them, the heartbeat, the calls to the models, and
the loop that cuts texts into chunks. Paths below are relative to the
repository root (`apps/...`).

## 1. The system

| part | code | state | operations |
|---|---|---|---|
| API: enqueue | `apps/api/src/api/main.py:36-81,157-196` | row in `jobs` | `POST /rag/reindex`, `/rag/warmup`, `/rag/verify` |
| API: reads | `main.py:122-154,199-225` | none | `GET /jobs`, `GET /jobs/{id}` |
| API: search, ask | `main.py:228-318`, `services/rag/query.py`, `llm.py` | none | reads `rag.db` (or `index.json`), calls Ollama |
| jobs table | `models.py:10-44`, `alembic/versions` | rows with status, attempts, timestamps, error, result | SQL |
| worker: queue loop | `apps/worker/src/worker/main.py:152-444` | the claimed job | claim, run the runner as a subprocess, record the outcome |
| worker: heartbeat | `worker/main.py:73-117` | row in `worker_heartbeats` | upsert with retry and back-off |
| full reindex | `services/rag/reindex_job_runner.py`, `ingest.py`, also the `rag-ingest` command | `rag.db.tmp`, `rag.db` | build, self-check, `os.replace` |
| incremental reindex | `incremental_reindex_job_runner.py` | `rag.db` | classify by content hash, one transaction |
| verify | `verify_index_job_runner.py` | none | validate, sample query |
| warmup | `warmup_job_runner.py` | none | two HTTP probes |
| store, loader, chunker | `sqlite_store.py`, `loader.py`, `chunker.py` | documents and chunks | SQL, files, text arithmetic |

Interaction: clients call the API; the API and any number of workers meet only
in the `jobs` table (statements of READ COMMITTED transactions); a worker and
its runner meet at a process boundary (exit code, last line of output); runners
and searches meet only in the file system (the names `rag.db`, `rag.db.tmp`
and the journals SQLite finds by these names).

What is hard, and what has to hold:

* Enqueue reads (duplicate check, largest id) and later inserts, with other
  requests and claims in between. A 202 must name a row of that request; the
  duplicate check should keep one active job per type.
* A claim must give a job to one worker; outcome UPDATEs name the row by id
  only, so they are right only while that holds. Retries must be bounded, the
  columns must agree with the status, a settled row must never change.
* A worker may die at any point and be started again. What is left running?
* A heartbeat is retried for as long as the database is away, with the time taken
  before the first try. How old may a live worker's row be?
* A search tests for a file, opens it and calls another server while the file is
  replaced. Its answer must be that of one index.
* A question meets up to three models that fail in different ways; the fallback
  must help where it can, and the answer must say who gave it.
* An index rebuild fails or is killed at any step, shares a temporary path with
  other rebuilds, and replaces a file other processes have open. A search must
  read a whole index, the one last installed.

`PROJECT.json` lists every component and every hazard with its line.

## 2. The modules

| module | what it is |
|---|---|
| `JobLifecycle` | abstract: numbered jobs; queued, running, then settled for good; at most `MaxAttempts` runs |
| `JobQueue` | API handlers, `jobs` table, worker loops, worker deaths |
| `JobQueueProofs` | theorems about `JobQueue` |
| `MCJobQueue` | model values and symmetry for TLC |
| `IndexSnapshot` | abstract: an index that never goes away and changes by the whole effect of one reindex at a time |
| `RagIndex` | files, SQLite journals, full/incremental/verify runners, kills, edits, model changes |
| `RagIndexProofs` | theorems about `RagIndex` |
| `VerifyIndex`, `VerifyIndexProofs` | extends `RagIndex` with the history a verify run is judged by; theorem |
| `Retrieval`, `RetrievalProofs` | extends `RagIndex`: searches interleaved with the runners; theorems |
| `HarnessSystem`, `HarnessProofs` | `JobQueue` and `RagIndex` composed: a worker's job is a runner process; theorems |
| `Heartbeat`, `HeartbeatProofs` | heartbeat threads, their rows, outages; theorems |
| `Answering`, `AnsweringProofs` | `POST /ask` after its search, the warmup runner, a model server that changes; theorems |
| `Chunker`, `ChunkerProofs` | `_chunk_text` window by window; theorems |
| `MCRagIndex`, `MCVerifyIndex`, `MCRetrieval`, `MCHarnessSystem`, `MCHeartbeat`, `MCAnswering`, `MCChunker` | model values, symmetry and input sets for TLC |

Operators whose comment starts with "Fault:" are faulty variants of the operator
that follows. No specification uses them; substituting one for its original
must make a property fail, which shows that the property depends on that code.

### 2.1 JobQueue

State and code:

| variable | code |
|---|---|
| `jobs` | the table. ids are the numbers that `_next_job_id` writes as text; `created_at` is the clock value of the transaction start; the other timestamps, the error and the result are NULL or not NULL |
| `request[c]` | the local state of one `_enqueue_job` call and, when it has ended, its answer |
| `worker[w]` | where `main` is, and the job dictionary (`id`, `attempts`) it got from the claim |
| `now`, `deaths` | clock of transaction starts; number of deaths |
| `committedAt`, `claims` | history for the properties only |

Actions, one per database statement that other sessions can see a difference
around: `Refuse`/`CheckDuplicate` (duplicate SELECT), `AssignId`
(`_next_job_id`), `InsertJob`/`DuplicateKey` (commit), `Accept` (the refresh of
expired attributes and the 202), `FailRequest`; `SelectJob`, `ClaimJob`,
`LoseClaim`, `Sleep` (`_claim_next_job`), `MarkSucceeded`, `MarkFailure`
(runner and outcome UPDATE), `Die`, `Restart`. The clock gives each
transaction its own `created_at`, in the order of the first SELECTs.

`SkipLocked` chooses the branch of `_claim_next_job`: TRUE is PostgreSQL
(FOR UPDATE SKIP LOCKED, the row stays locked until commit, the UPDATE has no
status guard); FALSE is the other branch, which the worker's tests use, with a
guarded UPDATE and a look at `rowcount`. In the second branch, with two workers, the
properties `RunsCounted` and `ImplementsLifecycle` are not claimed: a job that is claimed,
failed and queued again between another worker's SELECT and UPDATE is claimed
with the attempts count of the SELECT (`worker/main.py:240`), so it can be run
more often than `max_attempts`. With one worker both are proved (section 4).

### 2.2 RagIndex

State and code: `source` is the directory of documents, `model` the dimension
of the configured embedding model; `path` says which file (inode) is called
`rag.db` and `rag.db.tmp`; `file` is the content of each file, one entry per
document (content hash and embedding dimension; its chunks are written by the same
transaction); `journal` is the hot journal of each name, `rag.db-journal` and
`rag.db.tmp-journal`, with the file it belongs to and what a rollback restores; `runner[r]`
is a runner process with its local variables; `committed` and `overrun` are history:
what the last commit or replace installed, and whether something was overrun: an
`os.replace` has met a writer or a hot journal of either name, or a connection that
outlived its file has taken, or ended its transaction by unlinking, the journal of the next
file of that name.

SQLite is external and is modelled by what the runners rely on: one writer per
file, atomic commit, a transaction refused on a file that has been unlinked or
renamed (SQLITE_READONLY_DBMOVED) unless it had begun, and recovery. All of recovery
goes by *name*:

* `Flush` is the moment a journal becomes hot: when the page cache spills during a
  large transaction, or in the first phase of a commit. From then on pages are
  written to the file, and it is locked to everybody (`Locked`).
* A connection that finds the journal of its name hot while nobody locks the file now
  called so rolls it back into that file (`Recover`). For its own file this restores the
  last commit. For another file it leaves the old index (when the journal held every
  page) or a malformed file (`Damaged`).
* A connection that was opened before another file got the name does the same at its
  next statement, to its own file (`TakeJournal`), and whoever ends a transaction unlinks
  the journal of the name, whosever it is (`UnlinksJournal`).
* A writer that is killed leaves pages of an unfinished transaction. If the journal is not
  where the next connection to the file will look (`Restorable`), they stay: `Crash`, and
  `Replace` of a file whose writer was killed, leave the file as it was or `Damaged`.
* A file that loses its name loses its journal (`Nameless`): the next file of the name is
  empty, and SQLite discards a journal it finds next to an empty database.

Actions follow the calls of the runners: `StartFull` (looks for a left-over) and `Unlink`,
`ScanFull` (load, chunk, embed), `OpenTmp` (connect and schema), `BeginPersist`, `Flush`,
`CommitPersist`, `SelfCheck`, `SelfCheckMissing`, `Replace`, and the finally clause as
`CleanUp` (`exists()`) and `Unlink` (`unlink()`, which raises if another run has taken the
file away since, so that a run may fail after its replace); `StartIncremental`, `OpenDb`
(connect, schema, documents map), `CommitNothing`, `BeginWrite`, `Flush`, `CommitWrite`,
`Report`; `StartVerify`, `CountChunks` and `CompareDims` (two SELECTs outside a
transaction, on one connection), `SampleQuery` (another connection), `SkipSampleQuery`;
`Fail` (any exception, with its rollback) and `Crash` (the process is killed).

Taken as one step: a scan (a document edited while files are being read counts as edited
before or after); a connect together with its first statement (a file that loses its name
between the two is read as one that loses it after them); and a statement with its lock. Of the races between `exists()` and
`unlink()` all three (before the run, after a success, after a failure) are modelled; a
`.tmp` that vanishes between the look and the connect of a self-check is created empty, as
SQLite does (`SelfCheckMissing`). A malformed file is one no statement succeeds on;
pages that happen to look well are left out. Payload overrides of paths are left out: all
runners use one source and one `rag.db`.

`VerifyIndex` adds `sighted[r]`: whether, since verify run `r` began, an index has been in
place that is what the run asks for (`Fit`).

### 2.3 Retrieval

Extends `RagIndex` with `search[c]`, one request each: `Ask`, `FindDb` (the test
for `rag.db`), `Load` (the one SELECT of `load_sqlite_chunks`), `Rank` (the query
is embedded by the model configured then, and the chunks loaded before are
ranked), and the other ends: `FallBack` to an `index.json` of an earlier release,
`NoIndex` (503), `LoadFails` and `EmbedFails` (500). Any step of the index may
come between two of them. `LoadFails` covers a malformed file and one that a
spilled transaction holds exclusively; `sqlite3.Error` is translated by no
handler. `during` and `clean` are history: which indexes there were since the
request began, and whether the model is the one of the last full reindex.

### 2.4 HarnessSystem

One instance of `JobQueue` (with row locks) and one of `RagIndex`, whose runners
are process slots. `child[w]` is the process `subprocess.run` waits for,
`serves[s]` the job a process was started for. `Launch` starts the runner of the
job's type, `Record` turns its exit into the outcome UPDATE, `LaunchFails` is a
runner that cannot be started. `Die` kills a worker and leaves its runner at
work, `DieWithRunner` stops both (the container), `Kill` a runner alone. All other
steps are those of one part (`QueueAlone`, `IndexAlone`, `RunnerStep`).
`JobQueue` and `RagIndex` alone each assume something of the other (a runner
returns; at most so many runners are alive); here both follow from the code of the
other part. The warmup job does not touch the index and is left to `JobQueue`. `installed` is history:
the jobs one of whose runners has put its result into the file readers open (`Commits`),
or found nothing to change; a commit into a file that has lost its name does not count.

### 2.5 Heartbeat

`thread[p]` is where the thread of a process is, the age of the time it holds,
the next delay and what is left of its sleep; `row[i]` is a row of
`worker_heartbeats` as the age of its two timestamps; `dbUp` says whether
an upsert succeeds. `Stamp`, `Upsert`, `FailUpsert` and `Wake` are the statements of
`send_heartbeat_once` and `_heartbeat_loop`, `Start` and `Stop` the life of the
process (the thread is a daemon), `Outage` and `Return` the database. Time is
discrete: `Tick` makes everything older and is possible when all threads sleep,
so statements take no time. Delays are whole ticks; the jitter is any number of
ticks up to a fifth, rounded up. `main.py` bounds the settings from below
(`HeartbeatAssumption`) and lets the base delay exceed the maximal one, which
`LargestDelay` allows for. The age of a timestamp is by one clock: workers whose
clocks disagree are left out.

### 2.6 Answering

`ollama` gives each model a conduct: good, strained, an HTTP error or timeout, a 200 without
the field asked for, or a 200 with JSON that is no object. A strained model answers the
warmup's probes in time (`"hello"`; one token to `"warmup ping"`), and of questions, which come
with their context and no limit on the answer under the same timeout, some and not others:
`Outcomes` says what one call with a question may end in. JSON that is no object is a case of its own because `.get` then raises an `AttributeError`, which neither
`generate_answer` nor the handler catches. `Change` lets the server change at any
moment between two calls. A request goes through its search (which has an
outcome here and its steps in `Retrieval`), `Embed`, `Chat` and `ChatFallback`; the warmup
through `ProbeEmbed` and `ProbeChat`, which look at the HTTP status only. The settings
are the same for the API and for the runner a worker starts, as `compose.yml`
has them. What a model did since a request began (`seen`) is history.

### 2.7 Chunker

A text is a sequence of visible and blank characters, a chunk the range of
positions `str.strip` leaves of its window. `Begin` and `Reject` are the guards,
`CutChunk` and `SkipBlank` one turn of the loop, with the break and the next document
in `Advance`. Texts are those `load_documents` returns: stripped and not empty.
Sizes and overlaps are arbitrary integers, as the payload of a job can set them.

## 3. What the runs check

Passing runs:

| run | instance | shows |
|---|---|---|
| `queue_safety` | 2 clients, 2 workers, 2 types, 3 attempts, 2 accepted requests, 2 deaths, PostgreSQL | `ExclusiveRun`, `RowConsistent`, `RunsCounted`, `OrphansOnlyByDeath`, `DuplicatesOnlyByOverlap`, `AcceptedOwnsRow`, `TerminalFinal`, the inductive invariant `IInv`, and `ImplementsLifecycle` |
| `queue_guarded` | same with 2 attempts, 1 death, the branch without row locks | `ExclusiveRun`, `TerminalFinal` |
| `index_mixed` | 2 runners, full, incremental and verify in any mix, 1 document with 1 content, 2 models, 1 edit, 1 model change, 1 kill | `TmpOnlyDuringFull`; until something is overrun: `ServesUnlessOverrun`, the index is the last one installed; `StepsUnlessOverrun`, it changes by the whole effect of one reindex at a time; `VerifyVouches`, a verify run that succeeds has had an index in place, at one moment of the run, with chunks and of the expected dimension |
| `retrieval` | 1 search against all three runners in turn, 2 documents, 2 contents, 2 models, 1 edit, 1 model change, failures everywhere | without kills and with one runner at a time: `ServesLastCommit`, `SuccessReflectsScan`, `ImplementsIndex` (no failure leaves a part of a reindex); `AnswerOfOneMoment`: hits are all of one index that was there during the request; `ScoresComparable`: query and chunks have one dimension if the model has not changed since the last full reindex |
| `harness` | 1 client, 1 worker, 2 runner processes, 2 requests of 3 types, 2 attempts, 1 worker death, 1 runner killed | `RunnersAreRunningJobs` and `NoMoreRunnersThanWorkers`: an orphaned runner still has its running row and never a double; `SucceededIsInstalled`, one way only: a succeeded reindex was committed to `rag.db` by a runner of that job unless something was overrun, but a failed one may have been too; `ImplementsQueue`: the composition implements `JobQueue` with its fairness, and so `QueuedSettlesOrOrphans` |
| `heartbeat` | 2 processes with one id, interval 3, delays 1 to 4, any outages | `FreshWhenUp`, `OnlySharedRowGoesBack`, `KeepsBeating` |
| `answering` | 1 client, 3 models in every role, 2 changes of conduct | `OneGoodModelSuffices`, `MetaIsTrue`, `WarmupVouches` |
| `chunker` | 2 documents, all texts of up to 6 characters, sizes and overlaps from -1 to 4 | `PassagesWhole`, `ChunksFit`, `CursorAdvances`, `Terminates` |

Runs in which a statement of the repository fails:

| run | statement | what happens |
|---|---|---|
| `queue_duplicates` | `README.md:472`: 409 when a queued or running job exists | two requests overlap between check and commit; both get 202 |
| `queue_stuck` | `README.md:49`: the job then goes `running -> succeeded/failed` | the worker dies; nothing takes the job back |
| `index_stale_journal` | `reindex_job_runner.py:29`: "atomic replace" | a killed incremental run leaves a hot journal; a full run replaces the file; the first reader rolls the old journal back into the new index |
| `index_shared_tmp` | `reindex_job_runner.py:47`: no index without chunks | two full runs share `rag.db.tmp`; an empty file is published after a good self-check |

The README of the repository asks operators not to run full and incremental
reindexes at the same time (`README.md:400`), and the duplicate check, which is
per job type, does not keep them apart; `index_mixed` says what holds if they
are. `index_stale_journal` has one runner at a time and needs only a kill, and
`index_shared_tmp` two full runs, which the first finding, a second worker or the
`rag-ingest` command can bring about.

What the other properties say beside a plain "it works":

* `OneGoodModelSuffices` has one exception in its statement, because the code
  has it: a candidate that answers 200 with JSON that is no object ends the
  request with a 500 although the fallback is well (`llm.py:42`, `:82`).
* `OnlySharedRowGoesBack` is stated for ids one process at a time uses: with the
  default `WORKER_ID`, which `compose.yml` also sets, a second worker takes the first one's time
  back after an outage.
* `WarmupVouches` promises no more than the probes look at: that both models are there, not
  the content of a 200, nor that a question is answered within the timeout the probes
  met, and never the fallback model.
* `ServesUnlessOverrun`, `StepsUnlessOverrun`, `VerifyVouches` and `SucceededIsInstalled` end with
  the first overrun. What may happen then is what `index_stale_journal` shows: an index
  nobody committed, or a malformed file.
* `SuccessReflectsScan` is of one runner at a time. An incremental run compares its scan with a
  documents map read before its transaction begins; beside another writer it is only known
  (`StepsUnlessOverrun`) to change no document but those that differ from that map.
* `VerifyVouches` says less than that the index is good when the run ends. The parts of a
  verify may see different indexes; what follows is that one good index was there.

Bounds. Two clients and two workers are the smallest numbers with every race
(check against insert, insert against insert, claim against claim, claim
against death); two types tell "same type" from "any type"; three attempts is
the value the API writes and has a first, a middle and a last failure; two
requests give two rows, so order and id conflicts occur. For the index two
documents tell "changed" from "unchanged", two contents and an edit let a
document change, appear or disappear, three files are one more than the
names with one runner and four are enough for two, each with a file open. `index_mixed` has one
document with one content, which comes and goes: its properties are about whole indexes, and the
two contents and two documents are in `retrieval`. Runs
have no bound: a runner may start again for ever. `index_mixed` uses a `VIEW`, which takes states for one
that differ in the numbers of the files, in what a file nobody can reach once
held, or in what a runner that has ended had done: no guard of the model and none of
its properties looks at these. In `harness` a slot more than
the workers is what one death can orphan (`HarnessAssumption`), and one document
with one content is enough, since the properties are about which process runs
and not about what it writes. The heartbeat's interval is longer than the
first and shorter than the longest sleep, so an outage can begin and end in each;
an age of `MaxAge` means "at least that old", twice the interval; `upFor` stops
counting at `Recovery`, from which on an outage has no effect. Two changes let a
model fail and recover within a request. Six characters are two turns of
the largest window and enough for blanks at each end of it. `PROJECT.json` names a fault
for every property that TLC must find.

Fairness. `JobQueue!FairSpec` is weak fairness of a live worker's step and of its
restart. The first is the `while True` of `worker/main.py:433`, together with the
assumption that a runner ends (`subprocess.run` at line 291 has no timeout). The second says
an operator starts a dead worker again; `compose.yml` itself has no restart
policy. `queue_stuck` fails even with both. In `HarnessSystem` the assumption about
runners is gone: each runner process gets on (`Advances`), because its HTTP calls have a
timeout and SQLite gives up on a lock, and `ImplementsQueue` shows that the
queue's fairness follows. `Advances` leaves out the one step that changes nothing
of the runner (`TakeJournal`), after which its own statement is still to come. `Heartbeat` has
weak fairness of each thread and strong fairness of `Tick`: time passes
however often processes are started and stopped. `Chunker` has weak fairness of the
function that was called. Nothing is assumed of clients, of the model server, of
outages or of the people who edit documents.

## 4. What is proved

The proofs hold for every value of the constants that meets the module's named
assumptions.

`JobQueueProofs` (any number of
clients, workers, types, attempts, requests and deaths; `JobQueueAssumption`
only says that attempts are positive and the bounds are naturals):

* `Invariance`: `Spec => []IInv`, and from it `TypeCorrect`,
  `ExclusiveRunHolds`, `RowConsistentHolds`, `RunsCountedHolds`,
  `AcceptedOwnsRowHolds`, `DuplicatesOnlyByOverlapHolds`,
  `OrphansOnlyByDeathHolds`;
* `TerminalFinalHolds`: `Spec => TerminalFinal`;
* with row locks, or with one worker without them (`Separate`):
  `LifecycleImplemented`, `Spec => ImplementsLifecycle`, and `RunsCountedUnlessShared`,
  at most `MaxAttempts` starts of a job. What a worker has read of its row is then
  still so when it writes (`AsRead`);
* `OneActiveUnlessOverlap` and `OneClientNoDuplicates`: where the statement that
  `queue_duplicates` refutes is right. As long as no two requests for one type are
  between their duplicate check and their commit together (`NoOverlap`), there is at most
  one active job of a type. What a check has found stays so (`CheckHolds`),
  because only an INSERT makes a job active (`ActiveShrinks`);
* `OrphansStayHolds`: what `queue_stuck` shows on one instance, for all of them. No step
  changes a running row whose worker has died, or makes anybody its holder, and no
  request for its type passes the duplicate check.

The invariant. The properties are not inductive alone. `ExclusiveRun` needs to
know what a worker between its SELECT and its UPDATE holds: `HoldsItsJob` says the
row is still queued with the attempts it read and no other worker is at it (with
locks), or at least exists with attempts left (without). `RowConsistent` needs the
same bound on attempts to conclude that a failed job has spent them all.
`DuplicatesOnlyByOverlap` needs `CheckStillTrue`: a handler past its check knows
that every job of its type committed before the check is settled, and stays so.
`AcceptedOwnsRow` needs `InsertedRowThere`, and the refinement needs `DenseIds` (the ids
present are 1..n) so that the table is a function on 1..n. One lemma per conjunct
shows that a step keeps it; frame lemmas say which rows, handlers and workers a
step leaves alone.

`RagIndexProofs` (any number of runners, documents, contents, dimensions, files,
edits, model changes and kills):

* for every mixture of runners: `Invariance`, `TypeCorrect`,
  `TmpOnlyDuringFullHolds`, `ServesUnlessOverrunHolds`, `StepsUnlessOverrunHolds`;
* `IncrementalRunsKeepThePromise`: without full runs, killed at any point,
  `[]ServesLastCommit` and `ImplementsIndex`;
* runners that take turns, in any number and of any mode. `InTurn` is a condition on
  steps, not on constants: at most one runner is at work before and after (`Alone`), and none
  is killed while it writes pages to `rag.db` (`Spared`; a kill anywhere else harms
  nobody). `RunsInTurnKeepThePromise`: if every step is one, `ServesLastCommit` and
  `PublishedHasChunks` hold (which `index_shared_tmp` refutes for two runners at once),
  and `ImplementsIndex` is met.
  `RunsInTurnReportTruly`: at the step in which a run succeeds, what it reports is so
  (`Truth`): the documents it scanned, in one dimension after a full run, the dimension
  expected after a verify. `index_stale_journal` shows why that one kill has to be
  excluded;
* `OneRunnerKeepsThePromise`, `OneRunnerReportsTruly`: a single runner
  takes turns by itself, and what a reindex reported stays so until the next run:
  `[]SuccessReflectsScan`, again under `[][Spared]_vars`.
  `OneRunnerUnkilled` drops the condition where the constants imply it, as in the run
  `retrieval`: `MaxCrashes = 0`, or no incremental runs.

The invariant says where a runner may be with which mode (`PhasesFit`), that a journal of
`rag.db.tmp` is that of the file of the name and no incremental or verify run has that file
open (`TmpNamed`), that a file has one transaction at a time (`OneWriter`), and, until something
is overrun, `Kept`: `rag.db` holds what was committed last, the temporary file is empty or what
one full run made, a journal of `rag.db` is that of the file of the name, and a transaction of an
incremental run is on `rag.db` and one of a full run is not (`Holds`). While runners take turns
it is joined by `SoleInv`: the journal of `rag.db` has a writer, so no replace can
overrun anything (`JournalAtWork`), and what each phase of a runner that has not ended
has read or written is still there (`Reached`). A runner that has succeeded is left out, as the
next one changes what it left; that is why the truth of a report is an action property.
`NoneIsNoIndex` and `DamagedIsNoIndex` say that these two model values are no index.

The refinement maps the index of `IndexSnapshot` to what a search reads (`Served`), its scans to
those of runners that have not committed and to the temporary file (`Scanned`), and its views to
the documents maps they hold (`Viewed`); a replace is an `Install` because the temporary file is what
one full run made, a commit an `Update` by the runner's own scan and map.

`VerifyIndexProofs` (the same generality): `VerifyVouchesHolds`. The invariant `Sees` says that what
each phase of a verify run has passed, it has passed on an index that was in place: the file it
has open is `rag.db` or was, and changes only by what is committed (`Apart`: no full run writes to it).

`HeartbeatProofs` (any number of processes and ids, any interval and delays):
`FreshWhenUpHolds`, `OnlySharedRowGoesBackHolds`. A thread that holds an old time has met an
outage no longer ago than its sleep has lasted (`OldTimeFromOutage`), hence what it
writes is fresh once the database has been up for the longest sleep
(`FreshSinceWrite`); of an id never shared the row is not newer than the time
about to be written (`RowBehindStamp`).

`AnsweringProofs` (any number of clients, models and changes):
`OneGoodModelSufficesHolds`, `MetaIsTrueHolds`, `WarmupVouchesHolds`, from what a request has seen
(`SeenIsCurrent`), that the fallback has a cause, and that what a warmup has
found holds while the server does not change (`ProbesHold`, `VouchedIsSteady`).

`ChunkerProofs` (any texts, size and overlap): `PassagesWholeHolds`, `ChunksFitHolds`,
`CursorAdvancesHolds`. The loop invariant `UpToCursor` says that the chunks so far end in
the last window, begin before every character still to come, and hold every
passage that begins before the cursor.

`RetrievalProofs` (any number of searches, runners, documents, models, changes and
kills):

* `RetrievalTypeCorrect` and `AnswersUnlessOverrunHold`: for every mixture of runs, an
  answer is of one index there was during the request, until something is
  overrun; `AnswerOfOneMomentHolds`: for good, if nothing ever is;
* `QuietAnswers`: nothing is while `QuietRuns` holds, that is, without full runs, or
  while runs take turns (`InTurn`); `ScoresComparableHolds` needs the same. Without it an
  answer may come from an index nobody committed (`index_stale_journal`).

Up to an overrun the invariants of `RagIndexProofs` say that
`rag.db` holds the last commit (`InPlace`). The searches add that a request has
seen the index there is now and holds one it has seen (`OneMoment`), that without a
`rag.db` nothing was committed (`NothingBefore`), and that as long as the model is that
of the last full reindex the index and what was loaded from it have its
dimension (`CleanIndex`, `CleanSearch`).

`HarnessProofs` (any number of clients, workers, runner processes, deaths and
kills): `RunnersAreRunningJobsHolds`, `NoMoreRunnersThanWorkersHolds`,
`SucceededIsInstalledHolds`. What the queue guarantees is not proved again:
every step of the whole is one of `JobQueue` or leaves its state alone
(`StepOfQueue`), so the invariant of `JobQueueProofs` holds of the composition. The
invariant that joins the parts, `Joined`, says that a worker waits only for a
runner of the job it runs (`Waits`), that a worker that runs the job of a runner at
work waits for that very runner (`AtWork`), and that until a worker dies somebody
waits for every runner (`Attended`). `Recorded` adds what a runner's phase says of
its job: the mode is that of the job's type (`Fits`), and past its commit the job is
in `installed` as long as nothing is overrun (`Marked`). `HarnessAssumption` asks for a finite number of workers
and for a runner process more than the workers for each death there may be;
`IndexAssumption` is what `RagIndex` assumes of the constants it shares.

The theorems of the parts are then theorems of the platform. `WholeImplementsParts`:
`FairSpec => Queue!Spec /\ Index!Spec` (of `ImplementsQueue` this is the part without
fairness). From it, without a further condition, `WholeServesUnlessOverrun`. The
promises of runners that take turns need something that makes them take turns:
`Turns`, one runner at work at a time and nobody waiting for one that has ended while
another is at work. Two conditions that can be observed from outside give it:

* `OneWorkerSuffices`: one worker, as `compose.yml` has it, which leaves no runner behind
  when it dies (`NoOrphans`), and no runner killed while it writes pages to `rag.db`,
  alone or with its worker (`Spared`);
* `OneActiveJobSuffices`: any number of workers and deaths, orphaned runners
  included, while at most one job in the table is queued or running (`OneActive`), and
  `Spared`. This rests on `RunnersAreRunningJobs`: the row of an orphan's
  job stays active.

Under either, `[]ServesLastCommit`, `[]PublishedHasChunks` and `RowsReportTruly`: when a row is
first called succeeded, a runner of that job and of its type's mode says so, and what it reports
is so of the index at that moment, although the worker reads the report some time after
the runner has ended. `Ready` is the invariant for that: what the runner
a worker waits for has reached is still there. `RunnersApartByType` says what the duplicate
check contributes: while requests for one type do not overlap, there is one
runner of a type at most, however workers die.

Only model-checked: liveness (`QueuedSettlesOrOrphans`, `ImplementsQueue` with
its fairness, `KeepsBeating`, `Terminates`), which is outside the prover's reach.

## 5. Not modelled

* Job read endpoints: pure reads of one committed row or a filtered list.
* The status in the body of a 202: `commit()` expires the row, so `job.status` is read
  again (`api/main.py:79`) and may already be `running`; `README.md:471` says `queued`. The
  step is in `JobQueue` (`Accept`), no property is about it.
* The tie-break on ids as text (`"10" < "9"`), which matters only for rows with
  equal `created_at`.
* The claim with a stale attempts count in the branch without row locks (2.1).
* The unused JSON writer (`index_store.py`, `embed_chunks`) and a malformed `index.json`.
* The order and number of hits, scores, texts, wording of errors and results.
* `shared/db` (a placeholder), alembic mechanics beyond the tables' columns, parsing of
  environment variables and payload overrides of paths.
* Compose files and scripts. `compose.yml` lets the worker start before the API has
  migrated the database; the worker then ends with the first claim (`Die`) or never starts.
