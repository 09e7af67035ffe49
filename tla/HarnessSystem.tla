--------------------------- MODULE HarnessSystem ---------------------------
(* The platform as a whole: the job queue (JobQueue) and the index with    *)
(* its runners (RagIndex), joined where apps/worker/src/worker/main.py     *)
(* starts a runner as a subprocess, waits for it, and turns its exit into  *)
(* an outcome.  Worker processes and runner processes die separately; a    *)
(* runner whose worker was killed goes on without it.                      *)
EXTENDS Integers, FiniteSets

CONSTANTS Clients, Workers, Types, MaxAttempts, MaxRequests, MaxDeaths,
          Slots,         \* bound: runner processes alive at once
          Docs, Versions, Dims, Inodes, None, Damaged,
          MaxEdits, MaxModels, MaxKills

VARIABLES jobs, request, worker, now, deaths, committedAt, claims,    \* JobQueue
          source, model, path, file, journal, runner, edits, models,
          kills, committed, overrun,                                  \* RagIndex
          child,         \* per worker, the runner process it waits for
          serves,        \* per runner process, the job it was started for
          installed      \* history: jobs a runner of which has committed

\* RUNNER_MODULE_BY_JOB_TYPE; the warmup runner does not touch the index.
ModeOf == [rag_reindex |-> "full", rag_reindex_incremental |-> "incremental",
           rag_verify_index |-> "verify"]

ASSUME HarnessAssumption ==
  /\ Types \subseteq DOMAIN ModeOf
  /\ IsFiniteSet(Workers)
  /\ Cardinality(Slots) >= Cardinality(Workers) + MaxDeaths
  /\ None \notin Slots
  /\ MaxAttempts \in Nat \ {0} /\ MaxRequests \in Nat /\ MaxDeaths \in Nat

Queue == INSTANCE JobQueue WITH JobTypes <- Types, SkipLocked <- TRUE,
                                MaxCrashes <- MaxDeaths, crashes <- deaths
Index == INSTANCE RagIndex WITH Runners <- Slots, Modes <- {ModeOf[t] : t \in Types},
                                MaxCrashes <- MaxKills, crashes <- kills

ASSUME IndexAssumption ==
  /\ None \notin Docs \cup Versions \cup Dims \cup Inodes \cup {Damaged}
  /\ None \notin Index!Index \cup Index!Entry \cup Index!Journal
  /\ Damaged \notin Index!Index
  /\ Versions # {} /\ Dims \subseteq Nat \ {0} /\ Dims # {}
  /\ Inodes \subseteq Nat
  /\ MaxEdits \in Nat /\ MaxModels \in Nat /\ MaxKills \in Nat

queueVars == <<jobs, request, worker, now, deaths, committedAt, claims>>
indexVars == <<source, model, path, file, journal, runner, edits, models, kills,
              committed, overrun>>
processes == <<child, serves, installed>>
vars == <<queueVars, indexVars, processes>>

Ended(s) == runner[s].pc \in Index!Settled
Live == {s \in Slots : ~Ended(s)}
Spare == {s \in Slots : Ended(s) /\ \A w \in Workers : child[w] # s}

Init == /\ Queue!Init /\ Index!Init
        /\ child = [w \in Workers |-> None]
        /\ serves = [s \in Slots |-> Queue!NoJob]
        /\ installed = {}

---------------------------------------------------------------------------
\* Steps of one part only: handlers, the claim, the database's restart of a
\* worker; edits, changes of model, a reader's recovery.
QueueAlone == /\ \/ \E c \in Clients : Queue!ClientStep(c)
                 \/ \E w \in Workers : \/ Queue!SelectJob(w) \/ Queue!Sleep(w)
                                       \/ Queue!ClaimJob(w) \/ Queue!Restart(w)
              /\ UNCHANGED <<indexVars, processes>>

IndexAlone == /\ \/ \E d \in Docs, v \in Versions \cup {None} : Index!EditDoc(d, v)
                 \/ \E m \in Dims : Index!ChangeModel(m)
                 \/ \E n \in Index!Names : Index!Recover(n)
              /\ UNCHANGED <<queueVars, processes>>

\* subprocess.run: the runner of the job's type begins.
Starts(s, type) == \/ ModeOf[type] = "full" /\ Index!StartFull(s)
                   \/ ModeOf[type] = "incremental" /\ Index!StartIncremental(s)
                   \/ ModeOf[type] = "verify" /\ Index!StartVerify(s, Index!AnyDim)

Launch(w) == LET s == CHOOSE s \in Spare : TRUE  i == worker[w].job IN
  /\ worker[w].pc = "running" /\ child[w] = None
  /\ Spare # {}
  /\ Starts(s, jobs[i].type)
  /\ child' = [child EXCEPT ![w] = s]
  /\ serves' = [serves EXCEPT ![s] = i]
  /\ UNCHANGED <<queueVars, installed>>

\* The command is not found, or there is no process to be had.
LaunchFails(w) ==
  /\ worker[w].pc = "running" /\ child[w] = None
  /\ Queue!MarkFailure(w)
  /\ UNCHANGED <<indexVars, processes>>

\* What the runner has to show readers is in the file they open: put there by
\* os.replace, committed to the file of the name, or found there unchanged.
Commits(s) ==
  \/ runner[s].pc = "replace" /\ runner'[s].pc = "clean up ok"
  \/ runner[s].pc = "flush db" /\ runner'[s].pc = "stats" /\ runner[s].ino = path["db"]
  \/ runner[s].pc = "classified" /\ runner'[s].pc = "stats"

\* A runner, whether a worker waits for it or not, does what its mode says.
RunnerStep(s) ==
  /\ ~Ended(s)
  /\ Index!FullStep(s) \/ Index!IncrementalStep(s) \/ Index!VerifyStep(s)
     \/ Index!SQLiteStep(s) \/ Index!Fail(s)
  /\ installed' = IF Commits(s) THEN installed \cup {serves[s]} ELSE installed
  /\ UNCHANGED <<queueVars, child, serves>>

\* The runner is killed alone (out of memory).
Kill(s) == Index!Crash(s) /\ UNCHANGED <<queueVars, processes>>

\* Fault: a runner that was killed has printed its result before.
RecordKilled(w) ==
  /\ child[w] # None
  /\ Ended(child[w])
  /\ IF runner[child[w]].pc = "failed" THEN Queue!MarkFailure(w) ELSE Queue!MarkSucceeded(w)
  /\ child' = [child EXCEPT ![w] = None]
  /\ UNCHANGED <<indexVars, serves, installed>>

\* Fault: the worker does not wait for its runner.
RecordAtOnce(w) ==
  /\ child[w] # None
  /\ IF runner[child[w]].pc = "failed" THEN Queue!MarkFailure(w) ELSE Queue!MarkSucceeded(w)
  /\ child' = [child EXCEPT ![w] = None]
  /\ UNCHANGED <<indexVars, serves, installed>>

\* The runner has ended: by its exit status the job succeeded or failed, a
\* kill being a failure.
Record(w) ==
  /\ child[w] # None
  /\ Ended(child[w])
  /\ IF runner[child[w]].pc = "succeeded" THEN Queue!MarkSucceeded(w) ELSE Queue!MarkFailure(w)
  /\ child' = [child EXCEPT ![w] = None]
  /\ UNCHANGED <<indexVars, serves, installed>>

\* The worker dies and leaves its runner, if it has one, running.
Die(w) ==
  /\ Queue!Die(w)
  /\ child' = [child EXCEPT ![w] = None]
  /\ UNCHANGED <<indexVars, serves, installed>>

\* Its container is stopped: both are killed.
DieWithRunner(w) ==
  /\ child[w] # None
  /\ Queue!Die(w)
  /\ Index!Crash(child[w])
  /\ child' = [child EXCEPT ![w] = None]
  /\ UNCHANGED <<serves, installed>>

---------------------------------------------------------------------------
WorkerWaits(w) == Launch(w) \/ LaunchFails(w) \/ Record(w)

Next == \/ QueueAlone \/ IndexAlone
        \/ \E w \in Workers : WorkerWaits(w) \/ Die(w) \/ DieWithRunner(w)
        \/ \E s \in Slots : RunnerStep(s) \/ Kill(s)

Claims(w) == /\ Queue!SelectJob(w) \/ Queue!ClaimJob(w) \/ Queue!Restart(w)
             /\ UNCHANGED <<indexVars, processes>>

\* A connection that takes a journal still has its own statement to run.
Advances(s) == RunnerStep(s) /\ runner'[s].pc # runner[s].pc

\* A live worker goes on, a dead one is started again, and a runner gets on:
\* its requests to other servers have a timeout, and SQLite gives up on a lock
\* after five seconds.
FairSpec == /\ Init /\ [][Next]_vars
            /\ \A w \in Workers : WF_vars(Claims(w) \/ WorkerWaits(w))
            /\ \A s \in Slots : WF_vars(Advances(s))

---------------------------------------------------------------------------
(* Properties                                                              *)

\* However workers die: a runner that is at work, orphaned or not, is the
\* only one of its job, and the row of the job says running.  So the row keeps
\* the duplicate check from letting in another job of the type, which is all
\* that protects the index from an orphan.
RunnersAreRunningJobs == \A s \in Live :
  /\ jobs[serves[s]].status = "running"
  /\ \A t \in Live : t # s => serves[t] # serves[s]

\* Without worker deaths there are no more runners than busy workers: one
\* worker never has two runners at the index, whatever is requested.
NoMoreRunnersThanWorkers ==
  deaths = 0 => Cardinality(Live) <= Cardinality({w \in Workers : worker[w].pc = "running"})

\* The status of a row is true of the index one way: a reindex that is called
\* succeeded was committed to the file readers open, or had nothing to change,
\* by a runner of that very job.  (Unless something was overrun: then it may
\* have been committed to a file that is no longer rag.db.  And not the other
\* way: a run may fail, and its row say so, after it has committed.)
SucceededIsInstalled == ~overrun =>
  \A i \in DOMAIN jobs :
    jobs[i].status = "succeeded" /\ jobs[i].type # "rag_verify_index" => i \in installed

\* The queue's fairness (JobQueue!FairSpec) is no assumption here: it follows
\* from the runners' own progress.
ImplementsQueue == Queue!FairSpec
\* And so a queued job is settled in the end, or its worker died.
QueuedSettlesOrOrphans == Queue!QueuedSettlesOrOrphans
============================================================================
