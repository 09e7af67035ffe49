----------------------------- MODULE Heartbeat -----------------------------
(* The heartbeat thread of the worker processes and their rows in          *)
(* worker_heartbeats (apps/worker/src/worker/main.py).  Time is kept as    *)
(* ages and countdowns: what a timestamp says is how long ago it was       *)
(* taken.  Threads are punctual and statements take no time, so a tick of  *)
(* the clock finds every thread asleep.                                    *)
EXTENDS Integers

CONSTANTS Processes,     \* worker processes, one after the other or together
          Ids,           \* values of WORKER_ID
          IdOf,          \* the WORKER_ID of each process; several may share one
          Interval,      \* WORKER_HEARTBEAT_SECONDS
          Base,          \* WORKER_DB_RETRY_BASE_SECONDS
          MaxDelay,      \* WORKER_DB_RETRY_MAX_SECONDS
          MaxAge         \* bound: what is older is not told apart

\* sleep(delay + random() * 0.2 * delay), rounded up to a tick.
Jittered(delay) == (6 * delay + 4) \div 5

\* The first delay is Base even where that is more than MaxDelay.
LargestDelay == IF Base > MaxDelay THEN Base ELSE MaxDelay
LongestSleep == Jittered(LargestDelay)

\* The settings' floors (main.py:43, :58, :63).
ASSUME HeartbeatAssumption ==
  /\ IdOf \in [Processes -> Ids]
  /\ Interval \in Nat \ {0} /\ Base \in Nat \ {0} /\ MaxDelay \in Nat \ {0}
  /\ MaxAge \in Nat /\ MaxAge > Interval

VARIABLES dbUp,          \* whether an upsert reaches the database
          upFor,         \* history: ticks since the database came back
          main,          \* per process, whether its main loop runs
          thread,        \* per process, its heartbeat thread
          row,           \* per id: age of last_heartbeat and of updated_at
          shared         \* history: ids two processes have used at once

vars == <<dbUp, upFor, main, thread, row, shared>>

---------------------------------------------------------------------------
\* An outage that ended so long ago has no effect any more (see FreshWhenUp).
Recovery == LongestSleep + Interval + 1
Ages == 0..MaxAge                   \* a row that is not there is as old as can be

Asleep == {"backoff", "waiting"}

\* pc: about to take the time, to upsert, asleep after a failure or between
\* two heartbeats, or gone with its process.  age is the age of `now`.
Thread == [pc : {"stamp", "upsert", "gone"} \cup Asleep, age : Ages, delay : Nat, timer : Nat]

TypeOK == /\ dbUp \in BOOLEAN
          /\ upFor \in 0..Recovery
          /\ main \in [Processes -> {"looping", "ended"}]
          /\ thread \in [Processes -> Thread]
          /\ \A p \in Processes : thread[p].delay <= LargestDelay
          /\ row \in [Ids -> [beat : Ages, written : Ages]]
          /\ shared \subseteq Ids

At(pc, age, delay, timer) == [pc |-> pc, age |-> age, delay |-> delay, timer |-> timer]
Gone == At("gone", 0, Base, 0)

Init == /\ dbUp = TRUE /\ upFor = Recovery
        /\ main = [p \in Processes |-> "ended"]
        /\ thread = [p \in Processes |-> Gone]
        /\ row = [i \in Ids |-> [beat |-> MaxAge, written |-> MaxAge]]
        /\ shared = {}

---------------------------------------------------------------------------
\* main starts the thread before it polls.
Start(p) ==
  /\ main[p] = "ended"
  /\ main' = [main EXCEPT ![p] = "looping"]
  /\ thread' = [thread EXCEPT ![p] = At("stamp", 0, Base, 0)]
  /\ shared' = IF \E q \in Processes \ {p} : IdOf[q] = IdOf[p] /\ main[q] = "looping"
               THEN shared \cup {IdOf[p]} ELSE shared
  /\ UNCHANGED <<dbUp, upFor, row>>

\* Fault: the thread is no daemon and outlives main.
StopMainOnly(p) ==
  /\ main[p] = "looping"
  /\ main' = [main EXCEPT ![p] = "ended"]
  /\ UNCHANGED <<dbUp, upFor, thread, row, shared>>

\* The process is killed, or an exception ends main; the thread is a daemon
\* and goes with it.
Stop(p) ==
  /\ main[p] = "looping"
  /\ main' = [main EXCEPT ![p] = "ended"]
  /\ thread' = [thread EXCEPT ![p] = Gone]
  /\ UNCHANGED <<dbUp, upFor, row, shared>>

\* send_heartbeat_once takes the time and sets the first delay ...
Stamp(p) ==
  /\ thread[p].pc = "stamp"
  /\ thread' = [thread EXCEPT ![p] = At("upsert", 0, Base, 0)]
  /\ UNCHANGED <<dbUp, upFor, main, row, shared>>

\* ... and writes that time, whenever the upsert succeeds at last.
Upsert(p) ==
  /\ thread[p].pc = "upsert"
  /\ dbUp
  /\ row' = [row EXCEPT ![IdOf[p]] = [beat |-> thread[p].age, written |-> 0]]
  /\ thread' = [thread EXCEPT ![p] = At("waiting", 0, Base, Interval)]
  /\ UNCHANGED <<dbUp, upFor, main, shared>>

\* Fault: the delay doubles without end.
NextDelayUncapped(delay) == delay * 2

NextDelay(delay) == IF delay * 2 < MaxDelay THEN delay * 2 ELSE MaxDelay

\* Fault: the exception leaves the thread's function.
FailUpsertEndsThread(p) ==
  /\ thread[p].pc = "upsert"
  /\ ~dbUp
  /\ thread' = [thread EXCEPT ![p] = Gone]
  /\ UNCHANGED <<dbUp, upFor, main, row, shared>>

\* The upsert raises: sleep, then try again with the same time.
FailUpsert(p) ==
  /\ thread[p].pc = "upsert"
  /\ ~dbUp
  /\ \E s \in thread[p].delay..Jittered(thread[p].delay) :
       thread' = [thread EXCEPT ![p] =
                    At("backoff", thread[p].age, NextDelay(thread[p].delay), s)]
  /\ UNCHANGED <<dbUp, upFor, main, row, shared>>

Wake(p) ==
  /\ thread[p].pc \in Asleep
  /\ thread[p].timer = 0
  /\ thread' = [thread EXCEPT ![p] =
       At(IF thread[p].pc = "backoff" THEN "upsert" ELSE "stamp", thread[p].age, thread[p].delay, 0)]
  /\ UNCHANGED <<dbUp, upFor, main, row, shared>>

---------------------------------------------------------------------------
(* Surroundings                                                            *)

\* The database is restarted, or the network to it comes and goes.
Outage == /\ dbUp
          /\ dbUp' = FALSE /\ upFor' = 0
          /\ UNCHANGED <<main, thread, row, shared>>

Return == /\ ~dbUp
          /\ dbUp' = TRUE
          /\ UNCHANGED <<upFor, main, thread, row, shared>>

Older(age) == IF age < MaxAge THEN age + 1 ELSE age

Tick ==
  /\ \A p \in Processes : \/ thread[p].pc = "gone"
                          \/ thread[p].pc \in Asleep /\ thread[p].timer > 0
  /\ thread' = [p \in Processes |->
       IF thread[p].pc = "gone" THEN thread[p]
       ELSE At(thread[p].pc, Older(thread[p].age), thread[p].delay, thread[p].timer - 1)]
  /\ row' = [i \in Ids |-> [beat |-> Older(row[i].beat), written |-> Older(row[i].written)]]
  /\ upFor' = IF dbUp /\ upFor < Recovery THEN upFor + 1 ELSE upFor
  /\ UNCHANGED <<dbUp, main, shared>>

ThreadStep(p) == Stamp(p) \/ Upsert(p) \/ FailUpsert(p) \/ Wake(p)

Next == \/ \E p \in Processes : Start(p) \/ Stop(p) \/ ThreadStep(p)
        \/ Outage \/ Return \/ Tick

Spec == Init /\ [][Next]_vars

\* A thread that is awake runs, and time passes however often processes are
\* started and stopped meanwhile.
FairSpec == Spec /\ SF_vars(Tick) /\ \A p \in Processes : WF_vars(ThreadStep(p))

---------------------------------------------------------------------------
(* Properties                                                              *)

\* The time written is the one taken before the retries (main.py:93), so
\* after an outage a live worker's row is old for a while although it has
\* just been written.  How long: once the database has been there for the
\* longest back-off and one interval, the row of a worker whose thread sleeps
\* is at most one interval old, and updated_at agrees with last_heartbeat.
FreshWhenUp == \A p \in Processes :
  thread[p].pc \in Asleep /\ upFor = Recovery =>
    /\ row[IdOf[p]].beat <= Interval
    /\ row[IdOf[p]].written = row[IdOf[p]].beat

\* last_heartbeat of an id goes back only if two processes have used the id
\* at once: one that was held up by an outage overwrites the other's newer
\* time.  The default WORKER_ID is the same for every worker.
OnlySharedRowGoesBack ==
  [][\A i \in Ids : i \notin shared => row'[i].beat <= Older(row[i].beat)]_vars

\* No failure ends the thread of a live worker: as long as the database
\* comes back its row is refreshed again and again.
KeepsBeating == \A p \in Processes :
  [](main[p] = "looping" /\ dbUp => <>(row[IdOf[p]].beat = 0 \/ main[p] = "ended" \/ ~dbUp))

---------------------------------------------------------------------------
(* Inductive invariant                                                     *)

\* A thread lives as long as its main loop.
ThreadWithMain == \A p \in Processes : thread[p].pc = "gone" <=> main[p] = "ended"

\* A thread that holds an old time has met an outage, no longer ago than its
\* sleep has lasted.
OldTimeFromOutage == \A p \in Processes :
  /\ dbUp \/ upFor = 0
  /\ thread[p].pc = "backoff" => upFor + thread[p].timer <= LongestSleep
  /\ thread[p].pc = "upsert" => thread[p].age = 0 \/ upFor <= LongestSleep

\* How long ago a thread that waits has written.
Waited(p) == Interval - thread[p].timer

FreshSinceWrite == \A p \in Processes :
  thread[p].pc = "waiting" =>
    /\ thread[p].timer <= Interval
    /\ upFor > LongestSleep + Waited(p) =>
         row[IdOf[p]].beat <= Waited(p) /\ row[IdOf[p]].written = row[IdOf[p]].beat

\* Of an id that was never shared one process is live, and its row is older
\* than the time that process is about to write.
RowBehindStamp ==
  /\ \A p, q \in Processes :
       p # q /\ main[p] = "looping" /\ main[q] = "looping" => IdOf[p] # IdOf[q] \/ IdOf[p] \in shared
  /\ \A p \in Processes : thread[p].pc \in {"upsert", "backoff"} /\ IdOf[p] \notin shared =>
       thread[p].age <= row[IdOf[p]].beat

IInv == /\ TypeOK
        /\ ThreadWithMain
        /\ OldTimeFromOutage
        /\ FreshSinceWrite
        /\ RowBehindStamp
===========================================================================
