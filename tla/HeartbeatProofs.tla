-------------------------- MODULE HeartbeatProofs --------------------------
(* Theorems about Heartbeat, for any number of processes and ids and every *)
(* interval and back-off.                                                  *)
EXTENDS Heartbeat, TLAPS

---------------------------------------------------------------------------
(* Arithmetic                                                              *)

\* What the settings' floors give.
LEMMA Settings ==
  /\ Interval \in Nat /\ Interval > 0 /\ Base \in Nat /\ Base > 0
  /\ MaxDelay \in Nat /\ MaxDelay > 0 /\ MaxAge \in Nat /\ MaxAge > Interval
  /\ LargestDelay \in Nat /\ Base <= LargestDelay /\ MaxDelay <= LargestDelay
  /\ LongestSleep \in Nat /\ Recovery \in Nat /\ Recovery = LongestSleep + Interval + 1
  /\ \A p \in Processes : IdOf[p] \in Ids
<1>1. /\ Interval \in Nat /\ Interval > 0 /\ Base \in Nat /\ Base > 0
      /\ MaxDelay \in Nat /\ MaxDelay > 0 /\ MaxAge \in Nat /\ MaxAge > Interval
      /\ \A p \in Processes : IdOf[p] \in Ids
  BY HeartbeatAssumption
<1>2. LargestDelay \in Nat /\ Base <= LargestDelay /\ MaxDelay <= LargestDelay
  BY <1>1 DEF LargestDelay
<1>3. (6 * LargestDelay + 4) \div 5 \in Nat BY <1>2
<1> QED BY <1>1, <1>2, <1>3 DEF LongestSleep, Jittered, Recovery

\* A sleep is no longer than the longest one, and the next delay keeps that.
LEMMA Sleeps ==
  ASSUME NEW d \in Nat, d <= LargestDelay
  PROVE  /\ Jittered(d) \in Nat /\ Jittered(d) <= LongestSleep
         /\ NextDelay(d) \in Nat /\ NextDelay(d) <= LargestDelay
<1>1. (6 * d + 4) \div 5 \in Nat /\ (6 * d + 4) \div 5 <= (6 * LargestDelay + 4) \div 5
  BY Settings
<1> QED BY <1>1, Settings DEF Jittered, LongestSleep, NextDelay

\* Getting older keeps the range and the order of ages.
LEMMA OlderAges ==
  ASSUME NEW a \in Ages, NEW b \in Ages
  PROVE  /\ Older(a) \in Ages
         /\ Older(a) <= a + 1 /\ a <= Older(a)
         /\ a <= b => Older(a) <= Older(b)
BY Settings DEF Ages, Older

---------------------------------------------------------------------------
(* The steps                                                               *)

\* No row, no time and no process at the start.
LEMMA Initially == Init => IInv
<1> SUFFICES ASSUME Init PROVE IInv OBVIOUS
<1>1. \A p \in Processes : thread[p] = Gone /\ main[p] = "ended" BY DEF Init
<1>2. Gone \in Thread /\ Gone.pc = "gone" /\ Gone.delay = Base
  BY Settings DEF Gone, At, Thread, Ages
<1>3. TypeOK BY <1>1, <1>2, Settings DEF Init, TypeOK, Ages
<1>4. ThreadWithMain BY <1>1, <1>2 DEF ThreadWithMain
<1>5. OldTimeFromOutage BY <1>1, <1>2 DEF Init, OldTimeFromOutage
<1>6. FreshSinceWrite BY <1>1, <1>2 DEF FreshSinceWrite
<1>7. RowBehindStamp BY <1>1, <1>2 DEF RowBehindStamp
<1> QED BY <1>3, <1>4, <1>5, <1>6, <1>7 DEF IInv

\* A step that only moves thread p to state t keeps the invariant when t is a
\* good state for a live thread.
LEMMA ThreadMoves ==
  ASSUME IInv, NEW p \in Processes, NEW t \in Thread,
         thread' = [thread EXCEPT ![p] = t],
         UNCHANGED <<dbUp, upFor, main, row, shared>>,
         t.delay <= LargestDelay,
         thread[p].pc # "gone", t.pc # "gone", t.pc # "waiting",
         t.pc = "backoff" => upFor + t.timer <= LongestSleep,
         t.pc = "upsert" => t.age = 0 \/ upFor <= LongestSleep,
         t.pc \in {"upsert", "backoff"} => t.age <= row[IdOf[p]].beat \/ IdOf[p] \in shared
  PROVE  IInv'
<1>1. thread \in [Processes -> Thread] BY DEF IInv, TypeOK
<1>2. thread'[p] = t /\ \A q \in Processes : q # p => thread'[q] = thread[q] BY <1>1
<1>3. TypeOK' BY <1>1, <1>2 DEF IInv, TypeOK
<1>4. ThreadWithMain' BY <1>2 DEF IInv, ThreadWithMain
<1>5. OldTimeFromOutage' BY <1>2 DEF IInv, OldTimeFromOutage
<1>6. FreshSinceWrite' BY <1>2 DEF IInv, FreshSinceWrite, Waited
<1>7. RowBehindStamp' BY <1>2 DEF IInv, RowBehindStamp
<1> QED BY <1>3, <1>4, <1>5, <1>6, <1>7 DEF IInv

\* A thread takes the time.
LEMMA StampKeeps == ASSUME IInv, NEW p \in Processes, Stamp(p) PROVE IInv'
<1> DEFINE t == At("upsert", 0, Base, 0)
<1>1. t \in Thread /\ t.pc = "upsert" /\ t.age = 0 /\ t.delay = Base
  BY Settings DEF At, Thread, Ages
<1>2. row[IdOf[p]].beat >= 0 BY Settings DEF IInv, TypeOK, Ages
<1>3. thread' = [thread EXCEPT ![p] = t] BY DEF Stamp
<1>4. UNCHANGED <<dbUp, upFor, main, row, shared>> /\ thread[p].pc = "stamp" BY DEF Stamp
<1> HIDE DEF t
<1> QED BY <1>1, <1>2, <1>3, <1>4, Settings, ThreadMoves

\* A failed upsert: the database is away, so the sleep ends in time.
LEMMA FailUpsertKeeps == ASSUME IInv, NEW p \in Processes, FailUpsert(p) PROVE IInv'
<1>1. /\ thread[p] \in Thread /\ thread[p].delay <= LargestDelay /\ thread[p].pc = "upsert"
      /\ ~dbUp
  BY DEF IInv, TypeOK, FailUpsert
<1>2. PICK s \in thread[p].delay..Jittered(thread[p].delay) :
        thread' = [thread EXCEPT ![p] = At("backoff", thread[p].age, NextDelay(thread[p].delay), s)]
  BY DEF FailUpsert
<1> DEFINE t == At("backoff", thread[p].age, NextDelay(thread[p].delay), s)
<1>3. thread[p].delay \in Nat /\ thread[p].age \in Ages BY <1>1 DEF Thread
<1>4. /\ Jittered(thread[p].delay) \in Nat /\ Jittered(thread[p].delay) <= LongestSleep
      /\ NextDelay(thread[p].delay) \in Nat /\ NextDelay(thread[p].delay) <= LargestDelay
  BY <1>1, <1>3, Sleeps
<1>5. s \in Nat /\ s <= LongestSleep BY <1>3, <1>4, Settings
<1>6. /\ t \in Thread /\ t.pc = "backoff" /\ t.timer = s /\ t.age = thread[p].age
      /\ t.delay <= LargestDelay
  BY <1>3, <1>4, <1>5 DEF At, Thread, Asleep
<1>7. UNCHANGED <<dbUp, upFor, main, row, shared>> BY DEF FailUpsert
<1>8. IdOf[p] \notin shared => thread[p].age <= row[IdOf[p]].beat
  BY <1>1 DEF IInv, RowBehindStamp
<1>9. upFor + s <= LongestSleep
  <2>1. upFor = 0 BY <1>1 DEF IInv, OldTimeFromOutage
  <2> QED BY <2>1, <1>5
<1>10. thread' = [thread EXCEPT ![p] = t] BY <1>2
<1> HIDE DEF t
<1> QED BY <1>1, <1>6, <1>7, <1>8, <1>9, <1>10, ThreadMoves

\* A thread wakes: after a failure its old time still comes from an outage.
LEMMA WakeKeeps == ASSUME IInv, NEW p \in Processes, Wake(p) PROVE IInv'
<1>1. /\ thread[p] \in Thread /\ thread[p].delay <= LargestDelay
      /\ thread[p].pc \in {"backoff", "waiting"} /\ thread[p].timer = 0 /\ upFor \in Nat
  BY DEF IInv, TypeOK, Wake, Asleep
<1>2. UNCHANGED <<dbUp, upFor, main, row, shared>> BY DEF Wake
<1> DEFINE t == At(IF thread[p].pc = "backoff" THEN "upsert" ELSE "stamp", thread[p].age, thread[p].delay, 0)
<1>3. thread' = [thread EXCEPT ![p] = t] BY DEF Wake
<1>4. /\ t \in Thread /\ t.age = thread[p].age /\ t.delay <= LargestDelay
      /\ t.pc = (IF thread[p].pc = "backoff" THEN "upsert" ELSE "stamp")
  BY <1>1 DEF At, Thread
<1>5. t.pc = "upsert" => thread[p].pc = "backoff" BY <1>4
<1>6. thread[p].pc = "backoff" => upFor <= LongestSleep
  BY <1>1, Settings DEF IInv, OldTimeFromOutage
<1>7. thread[p].pc = "backoff" /\ IdOf[p] \notin shared => thread[p].age <= row[IdOf[p]].beat
  BY DEF IInv, RowBehindStamp
<1> HIDE DEF t
<1>8. t.pc # "gone" /\ t.pc # "waiting" /\ t.pc # "backoff" /\ thread[p].pc # "gone" BY <1>1, <1>4
<1> QED BY <1>2, <1>3, <1>4, <1>5, <1>6, <1>7, <1>8, ThreadMoves

\* The upsert: what is written is of this moment unless there has been an
\* outage.
LEMMA UpsertKeeps == ASSUME IInv, NEW p \in Processes, Upsert(p) PROVE IInv'
<1> DEFINE t == At("waiting", 0, Base, Interval)
           r == [beat |-> thread[p].age, written |-> 0]
<1>1. /\ thread \in [Processes -> Thread] /\ row \in [Ids -> [beat : Ages, written : Ages]]
      /\ upFor \in Nat /\ IdOf[p] \in Ids /\ thread[p].pc = "upsert"
      /\ UNCHANGED <<dbUp, upFor, main, shared>>
  BY Settings DEF IInv, TypeOK, Upsert
<1>2. /\ thread'[p] = t /\ \A q \in Processes : q # p => thread'[q] = thread[q]
      /\ thread' = [thread EXCEPT ![p] = t]
  BY <1>1 DEF Upsert
<1>3. /\ row'[IdOf[p]] = r /\ \A i \in Ids : i # IdOf[p] => row'[i] = row[i]
      /\ row' = [row EXCEPT ![IdOf[p]] = r]
  BY <1>1 DEF Upsert
<1>4. t \in Thread /\ t.pc = "waiting" /\ t.timer = Interval /\ t.delay = Base
  BY Settings DEF At, Thread, Ages, Asleep
<1>5. thread[p].age \in Ages BY <1>1 DEF Thread
<1>6. r \in [beat : Ages, written : Ages] /\ r.beat = thread[p].age /\ r.written = 0
  BY <1>5, Settings DEF Ages
<1> HIDE DEF t, r
<1>7. TypeOK' BY <1>1, <1>2, <1>3, <1>4, <1>6, Settings DEF IInv, TypeOK
<1>8. ThreadWithMain' BY <1>1, <1>2, <1>4 DEF IInv, ThreadWithMain
<1>9. OldTimeFromOutage' BY <1>1, <1>2, <1>4 DEF IInv, OldTimeFromOutage
<1>10. FreshSinceWrite'
  <2>1. SUFFICES ASSUME NEW q \in Processes, thread'[q].pc = "waiting"
                 PROVE  /\ thread'[q].timer <= Interval
                        /\ upFor > LongestSleep + (Interval - thread'[q].timer) =>
                             /\ row'[IdOf[q]].beat <= Interval - thread'[q].timer
                             /\ row'[IdOf[q]].written = row'[IdOf[q]].beat
    BY <1>1 DEF FreshSinceWrite, Waited
  <2>2. thread'[q].timer \in Nat /\ thread'[q].timer <= Interval
    <3>1. CASE q = p BY <3>1, <1>2, <1>4, Settings
    <3>2. CASE q # p BY <3>2, <2>1, <1>1, <1>2 DEF IInv, FreshSinceWrite, Thread
    <3> QED BY <3>1, <3>2
  <2>3. CASE IdOf[q] = IdOf[p]
    <3>1. upFor > LongestSleep + (Interval - thread'[q].timer) => thread[p].age = 0
      BY <2>2, <1>1, Settings DEF IInv, OldTimeFromOutage
    <3> QED BY <3>1, <2>2, <2>3, <1>3, <1>6, Settings
  <2>4. CASE IdOf[q] # IdOf[p]
    <3>1. q # p /\ thread'[q] = thread[q] BY <2>4, <1>2
    <3>2. IdOf[q] \in Ids BY Settings
    <3>3. row'[IdOf[q]] = row[IdOf[q]] BY <2>4, <1>3, <3>2
    <3> QED BY <3>1, <3>3, <2>1, <2>2 DEF IInv, FreshSinceWrite, Waited
  <2> QED BY <2>3, <2>4
<1>11. RowBehindStamp'
  <2>1. SUFFICES ASSUME NEW q \in Processes, thread'[q].pc \in {"upsert", "backoff"}, IdOf[q] \notin shared
                 PROVE  thread'[q].age <= row'[IdOf[q]].beat
    BY <1>1 DEF IInv, RowBehindStamp
  <2>2. q # p /\ thread'[q] = thread[q] BY <2>1, <1>2, <1>4
  <2>3. IdOf[q] # IdOf[p]
    <3>1. main[q] = "looping" /\ main[p] = "looping"
      BY <2>1, <2>2, <1>1 DEF IInv, ThreadWithMain, TypeOK
    <3> QED BY <3>1, <2>1, <2>2 DEF IInv, RowBehindStamp
  <2>4. row'[IdOf[q]] = row[IdOf[q]] BY <2>3, <1>3, Settings
  <2> QED BY <2>1, <2>2, <2>4 DEF IInv, RowBehindStamp
<1> QED BY <1>7, <1>8, <1>9, <1>10, <1>11 DEF IInv

\* A process starts: if another one of its id is live, the id is shared from
\* now on.
LEMMA StartKeeps == ASSUME IInv, NEW p \in Processes, Start(p) PROVE IInv'
<1> DEFINE t == At("stamp", 0, Base, 0)
<1>1. /\ thread \in [Processes -> Thread] /\ main \in [Processes -> {"looping", "ended"}]
      /\ main[p] = "ended" /\ IdOf[p] \in Ids /\ shared \subseteq Ids
      /\ UNCHANGED <<dbUp, upFor, row>>
  BY Settings DEF IInv, TypeOK, Start
<1>2. /\ thread'[p] = t /\ \A q \in Processes : q # p => thread'[q] = thread[q]
      /\ thread' = [thread EXCEPT ![p] = t]
  BY <1>1 DEF Start
<1>3. /\ main'[p] = "looping" /\ \A q \in Processes : q # p => main'[q] = main[q]
      /\ main' = [main EXCEPT ![p] = "looping"]
  BY <1>1 DEF Start
<1>4. /\ shared' \subseteq Ids /\ shared \subseteq shared'
      /\ \A q \in Processes : q # p /\ IdOf[q] = IdOf[p] /\ main[q] = "looping" => IdOf[p] \in shared'
  BY <1>1 DEF Start
<1>5. t \in Thread /\ t.pc = "stamp" /\ t.delay = Base BY Settings DEF At, Thread, Ages
<1> HIDE DEF t
<1>6. TypeOK' BY <1>1, <1>2, <1>3, <1>4, <1>5, Settings DEF IInv, TypeOK
<1>7. ThreadWithMain' BY <1>1, <1>2, <1>3, <1>5 DEF IInv, ThreadWithMain
<1>8. OldTimeFromOutage' BY <1>1, <1>2, <1>5 DEF IInv, OldTimeFromOutage
<1>9. FreshSinceWrite' BY <1>1, <1>2, <1>5 DEF IInv, FreshSinceWrite, Waited
<1>10. RowBehindStamp'
  <2>1. ASSUME NEW q \in Processes, NEW u \in Processes, q # u, main'[q] = "looping", main'[u] = "looping",
               IdOf[q] = IdOf[u]
        PROVE  IdOf[q] \in shared'
    <3>1. CASE q = p BY <3>1, <2>1, <1>3, <1>4
    <3>2. CASE u = p BY <3>2, <2>1, <1>3, <1>4
    <3>3. CASE q # p /\ u # p BY <3>3, <2>1, <1>3, <1>4 DEF IInv, RowBehindStamp
    <3> QED BY <3>1, <3>2, <3>3
  <2>2. ASSUME NEW q \in Processes, thread'[q].pc \in {"upsert", "backoff"}, IdOf[q] \notin shared'
        PROVE  thread'[q].age <= row'[IdOf[q]].beat
    <3>1. q # p BY <2>2, <1>2, <1>5
    <3> QED BY <3>1, <2>2, <1>1, <1>2, <1>4 DEF IInv, RowBehindStamp
  <2> QED BY <2>1, <2>2 DEF RowBehindStamp
<1> QED BY <1>6, <1>7, <1>8, <1>9, <1>10 DEF IInv

\* A process ends and its thread with it.
LEMMA StopKeeps == ASSUME IInv, NEW p \in Processes, Stop(p) PROVE IInv'
<1>1. /\ thread \in [Processes -> Thread] /\ main \in [Processes -> {"looping", "ended"}]
      /\ UNCHANGED <<dbUp, upFor, row, shared>>
  BY DEF IInv, TypeOK, Stop
<1>2. /\ thread'[p] = Gone /\ \A q \in Processes : q # p => thread'[q] = thread[q]
      /\ thread' = [thread EXCEPT ![p] = Gone]
  BY <1>1 DEF Stop
<1>3. /\ main'[p] = "ended" /\ \A q \in Processes : q # p => main'[q] = main[q]
      /\ main' = [main EXCEPT ![p] = "ended"]
  BY <1>1 DEF Stop
<1>4. Gone \in Thread /\ Gone.pc = "gone" /\ Gone.delay = Base
  BY Settings DEF Gone, At, Thread, Ages
<1>5. TypeOK' BY <1>1, <1>2, <1>3, <1>4, Settings DEF IInv, TypeOK
<1>6. ThreadWithMain' BY <1>1, <1>2, <1>3, <1>4 DEF IInv, ThreadWithMain
<1>7. OldTimeFromOutage' BY <1>1, <1>2, <1>4 DEF IInv, OldTimeFromOutage
<1>8. FreshSinceWrite' BY <1>1, <1>2, <1>4 DEF IInv, FreshSinceWrite, Waited
<1>9. RowBehindStamp'
  <2>1. \A q \in Processes : main'[q] = "looping" => main[q] = "looping" BY <1>3
  <2> QED BY <2>1, <1>1, <1>2, <1>4 DEF IInv, RowBehindStamp
<1> QED BY <1>5, <1>6, <1>7, <1>8, <1>9 DEF IInv

\* The database goes away or comes back; neither makes a row older.
LEMMA DatabaseKeeps == ASSUME IInv, Outage \/ Return PROVE IInv'
<1>1. /\ UNCHANGED <<main, thread, row, shared>> /\ dbUp' \in BOOLEAN
      /\ upFor' = 0 \/ upFor' = upFor
      /\ dbUp' \/ upFor' = 0
      /\ upFor \in Nat /\ upFor \in 0..Recovery /\ thread \in [Processes -> Thread]
  <2>1. upFor \in Nat /\ upFor \in 0..Recovery /\ thread \in [Processes -> Thread]
    BY Settings DEF IInv, TypeOK
  <2>2. CASE Outage BY <2>1, <2>2 DEF Outage
  <2>3. CASE Return BY <2>1, <2>3 DEF Return
  <2> QED BY <2>2, <2>3
<1>2. upFor' = 0 \/ upFor' = upFor BY <1>1
<1>3. TypeOK' BY <1>1, Settings DEF IInv, TypeOK
<1>4. ThreadWithMain' BY <1>1 DEF IInv, ThreadWithMain
<1>5. \A p \in Processes : thread[p].timer \in Nat BY <1>1 DEF Thread
<1>6. OldTimeFromOutage'
  <2>1. \A p \in Processes : thread[p].pc = "backoff" => upFor' + thread[p].timer <= LongestSleep
    BY <1>1, <1>5, Settings DEF IInv, OldTimeFromOutage
  <2>2. \A p \in Processes : thread[p].pc = "upsert" => thread[p].age = 0 \/ upFor' <= LongestSleep
    BY <1>1, Settings DEF IInv, OldTimeFromOutage
  <2> QED BY <2>1, <2>2, <1>1 DEF OldTimeFromOutage
<1>7. FreshSinceWrite'
  <2>1. SUFFICES ASSUME NEW p \in Processes, thread[p].pc = "waiting"
                 PROVE  /\ thread[p].timer <= Interval
                        /\ upFor' > LongestSleep + (Interval - thread[p].timer) =>
                             /\ row[IdOf[p]].beat <= Interval - thread[p].timer
                             /\ row[IdOf[p]].written = row[IdOf[p]].beat
    BY <1>1 DEF FreshSinceWrite, Waited
  <2>2. thread[p].timer <= Interval BY <2>1 DEF IInv, FreshSinceWrite
  <2>3. upFor' > LongestSleep + (Interval - thread[p].timer) => upFor' = upFor
    BY <2>2, <1>5, <1>1, Settings
  <2> QED BY <2>1, <2>2, <2>3 DEF IInv, FreshSinceWrite, Waited
<1>8. RowBehindStamp' BY <1>1 DEF IInv, RowBehindStamp
<1> QED BY <1>3, <1>4, <1>6, <1>7, <1>8 DEF IInv

\* A tick finds every live thread asleep: one more tick waited, one less to
\* wait.  The database has been back for one more tick at most, so no sleep
\* that began in an outage outlasts LongestSleep.
LEMMA TickKeeps == ASSUME IInv, Tick PROVE IInv'
<1>1. /\ thread \in [Processes -> Thread] /\ row \in [Ids -> [beat : Ages, written : Ages]]
      /\ upFor \in Nat /\ upFor <= Recovery
      /\ UNCHANGED <<dbUp, main, shared>>
      /\ \A p \in Processes : IdOf[p] \in Ids
  BY Settings DEF IInv, TypeOK, Tick
<1>2. /\ upFor' \in 0..Recovery /\ upFor' <= upFor + 1
      /\ ~dbUp => upFor' = upFor
  BY <1>1, Settings DEF Tick
<1>3. ASSUME NEW i \in Ids
      PROVE  /\ row'[i] \in [beat : Ages, written : Ages]
             /\ row'[i].beat = Older(row[i].beat) /\ row'[i].written = Older(row[i].written)
  <2>1. row'[i] = [beat |-> Older(row[i].beat), written |-> Older(row[i].written)] BY DEF Tick
  <2>2. row[i].beat \in Ages /\ row[i].written \in Ages BY <1>1
  <2>3. Older(row[i].beat) \in Ages /\ Older(row[i].written) \in Ages BY <2>2, OlderAges
  <2> QED BY <2>1, <2>3
<1>4. ASSUME NEW p \in Processes, thread[p].pc = "gone" PROVE thread'[p] = thread[p]
  BY <1>4 DEF Tick
<1>5. ASSUME NEW p \in Processes, thread[p].pc # "gone"
      PROVE  /\ thread[p].pc \in Asleep
             /\ thread'[p] \in Thread /\ thread'[p].pc = thread[p].pc
             /\ thread'[p].age = Older(thread[p].age) /\ thread'[p].delay = thread[p].delay
             /\ thread[p].timer \in Nat /\ thread'[p].timer = thread[p].timer - 1
  <2>1. thread[p].pc \in Asleep /\ thread[p].timer > 0 BY <1>5 DEF Tick
  <2>2. thread[p].age \in Ages /\ thread[p].delay \in Nat /\ thread[p].timer \in Nat
    BY <1>1 DEF Thread
  <2>3. Older(thread[p].age) \in Ages /\ thread[p].timer - 1 \in Nat BY <2>1, <2>2, OlderAges
  <2>4. thread'[p] = [pc |-> thread[p].pc, age |-> Older(thread[p].age),
                      delay |-> thread[p].delay, timer |-> thread[p].timer - 1]
    BY <1>5 DEF Tick, At
  <2> QED BY <2>1, <2>2, <2>3, <2>4 DEF Thread
<1>6. \A p \in Processes : /\ thread'[p] \in Thread /\ thread'[p].pc = thread[p].pc
                           /\ thread'[p].delay = thread[p].delay
  BY <1>1, <1>4, <1>5
<1>7. TypeOK'
  <2>1. thread' \in [Processes -> Thread]
    <3>1. thread' = [p \in Processes |-> thread'[p]] BY DEF Tick
    <3> QED BY <3>1, <1>6
  <2>2. row' \in [Ids -> [beat : Ages, written : Ages]]
    <3>1. row' = [i \in Ids |-> row'[i]] BY DEF Tick
    <3> QED BY <3>1, <1>3
  <2> QED BY <2>1, <2>2, <1>1, <1>2, <1>6 DEF IInv, TypeOK
<1>8. ThreadWithMain' BY <1>1, <1>6 DEF IInv, ThreadWithMain
<1>9. OldTimeFromOutage'
  <2>1. dbUp' \/ upFor' = 0 \/ Processes = {} BY <1>1, <1>2 DEF IInv, OldTimeFromOutage
  <2>2. ASSUME NEW p \in Processes, thread'[p].pc = "backoff"
        PROVE  upFor' + thread'[p].timer <= LongestSleep
    <3>1. thread[p].pc = "backoff" BY <2>2, <1>6
    <3>2. upFor + thread[p].timer <= LongestSleep BY <3>1 DEF IInv, OldTimeFromOutage
    <3> QED BY <3>1, <3>2, <1>1, <1>2, <1>5, Settings
  <2>3. \A p \in Processes : thread'[p].pc # "upsert" BY <1>5, <1>6 DEF Asleep
  <2> QED BY <2>1, <2>2, <2>3 DEF OldTimeFromOutage
<1>10. FreshSinceWrite'
  <2>1. SUFFICES ASSUME NEW p \in Processes, thread'[p].pc = "waiting"
                 PROVE  /\ thread'[p].timer <= Interval
                        /\ upFor' > LongestSleep + (Interval - thread'[p].timer) =>
                             /\ row'[IdOf[p]].beat <= Interval - thread'[p].timer
                             /\ row'[IdOf[p]].written = row'[IdOf[p]].beat
    BY <1>1 DEF FreshSinceWrite, Waited
  <2>2. thread[p].pc = "waiting" BY <2>1, <1>6
  <2>3. /\ thread[p].timer <= Interval
        /\ upFor > LongestSleep + (Interval - thread[p].timer) =>
             /\ row[IdOf[p]].beat <= Interval - thread[p].timer
             /\ row[IdOf[p]].written = row[IdOf[p]].beat
    BY <2>2, <1>1 DEF IInv, FreshSinceWrite, Waited
  <2>4. thread[p].timer \in Nat /\ thread'[p].timer = thread[p].timer - 1 BY <2>2, <1>5
  <2>5. IdOf[p] \in Ids /\ row[IdOf[p]].beat \in Ages BY <1>1
  <2>6. Older(row[IdOf[p]].beat) <= row[IdOf[p]].beat + 1 /\ row[IdOf[p]].beat \in Nat
    BY <2>5, OlderAges, Settings DEF Ages
  <2>7. /\ row'[IdOf[p]].beat = Older(row[IdOf[p]].beat)
        /\ row'[IdOf[p]].written = Older(row[IdOf[p]].written)
    BY <2>5, <1>3
  <2>8. upFor' > LongestSleep + (Interval - thread'[p].timer) =>
          upFor > LongestSleep + (Interval - thread[p].timer)
    BY <2>4, <1>1, <1>2, Settings
  <2>9. Older(row[IdOf[p]].beat) \in Nat BY <2>5, OlderAges, Settings DEF Ages
  <2> QED BY <2>3, <2>4, <2>6, <2>7, <2>8, <2>9, Settings
<1>11. RowBehindStamp'
  <2>1. ASSUME NEW p \in Processes, thread'[p].pc \in {"upsert", "backoff"}, IdOf[p] \notin shared
        PROVE  thread'[p].age <= row'[IdOf[p]].beat
    <3>1. thread[p].pc \in {"upsert", "backoff"} BY <2>1, <1>6
    <3>2. thread[p].age <= row[IdOf[p]].beat BY <3>1, <2>1 DEF IInv, RowBehindStamp
    <3>3. thread[p].age \in Ages /\ row[IdOf[p]].beat \in Ages BY <1>1 DEF Thread
    <3>4. Older(thread[p].age) <= Older(row[IdOf[p]].beat) BY <3>2, <3>3, OlderAges
    <3> QED BY <3>1, <3>4, <1>1, <1>3, <1>5
  <2> QED BY <2>1, <1>1 DEF IInv, RowBehindStamp
<1> QED BY <1>7, <1>8, <1>9, <1>10, <1>11 DEF IInv

---------------------------------------------------------------------------
(* The theorems                                                            *)

\* Every step keeps the invariant.
LEMMA StepKeeps == IInv /\ [Next]_vars => IInv'
<1> SUFFICES ASSUME IInv, [Next]_vars PROVE IInv' OBVIOUS
<1>1. CASE UNCHANGED vars
  BY <1>1 DEF vars, IInv, TypeOK, ThreadWithMain, OldTimeFromOutage, FreshSinceWrite, Waited,
              RowBehindStamp
<1>2. CASE Outage \/ Return BY <1>2, DatabaseKeeps
<1>3. CASE Tick BY <1>3, TickKeeps
<1>4. ASSUME NEW p \in Processes, Start(p) \/ Stop(p) \/ ThreadStep(p) PROVE IInv'
  BY <1>4, StartKeeps, StopKeeps, StampKeeps, UpsertKeeps, FailUpsertKeeps, WakeKeeps
     DEF ThreadStep
<1> QED BY <1>1, <1>2, <1>3, <1>4 DEF Next

\* The invariant holds of every worker process, interval and back-off the
\* settings allow.
THEOREM Invariance == Spec => []IInv
BY Initially, StepKeeps, PTL DEF Spec

\* However long the outages and however many workers share an id: an interval
\* and a back-off after the database is back, the row of a live worker is at
\* most one interval old.
THEOREM FreshWhenUpHolds == Spec => []FreshWhenUp
<1>1. IInv => FreshWhenUp
  <2> SUFFICES ASSUME IInv, NEW p \in Processes, thread[p].pc \in Asleep, upFor = Recovery
               PROVE  /\ row[IdOf[p]].beat <= Interval
                      /\ row[IdOf[p]].written = row[IdOf[p]].beat
    BY DEF FreshWhenUp
  <2>1. /\ thread[p].timer \in Nat /\ IdOf[p] \in Ids /\ row[IdOf[p]].beat \in Nat
    BY Settings DEF IInv, TypeOK, Thread, Ages
  <2>2. thread[p].pc # "backoff" BY <2>1, Settings DEF IInv, OldTimeFromOutage
  <2>3. thread[p].pc = "waiting" BY <2>2 DEF Asleep
  <2> QED BY <2>1, <2>3, Settings DEF IInv, FreshSinceWrite, Waited
<1> QED BY <1>1, Invariance, PTL

\* last_heartbeat of an id only one process has used at a time never goes
\* back, over any number of restarts of that process.
THEOREM OnlySharedRowGoesBackHolds == Spec => OnlySharedRowGoesBack
<1> DEFINE Ahead == \A i \in Ids : i \notin shared => row'[i].beat <= Older(row[i].beat)
<1>1. IInv /\ [Next]_vars => [\A i \in Ids : i \notin shared => row'[i].beat <= Older(row[i].beat)]_vars
  <2> SUFFICES ASSUME IInv, [Next]_vars PROVE [Ahead]_vars OBVIOUS
  <2>1. \A i \in Ids : row[i].beat \in Ages BY DEF IInv, TypeOK
  <2>2. \A i \in Ids : row[i].beat <= Older(row[i].beat) BY <2>1, OlderAges
  <2>3. ASSUME row' = row PROVE Ahead BY <2>2, <2>3
  <2>4. CASE Tick
    <3>1. \A i \in Ids : row'[i].beat = Older(row[i].beat) BY <2>4 DEF Tick
    <3>2. \A i \in Ids : Older(row[i].beat) \in Nat BY <2>1, OlderAges, Settings DEF Ages
    <3> QED BY <3>1, <3>2
  <2>5. ASSUME NEW p \in Processes, Upsert(p) PROVE Ahead
    <3>1. SUFFICES ASSUME NEW i \in Ids, i \notin shared PROVE row'[i].beat <= Older(row[i].beat)
      OBVIOUS
    <3>2. row \in [Ids -> [beat : Ages, written : Ages]] BY DEF IInv, TypeOK
    <3>3. CASE i # IdOf[p]
      <4>1. row'[i] = row[i] BY <2>5, <3>2, <3>3 DEF Upsert
      <4> QED BY <4>1, <2>2
    <3>4. CASE i = IdOf[p]
      <4>1. row'[i].beat = thread[p].age BY <2>5, <3>2, <3>4 DEF Upsert
      <4>2. thread[p].age <= row[i].beat
        BY <2>5, <3>1, <3>4 DEF IInv, RowBehindStamp, Upsert
      <4>3. thread[p].age \in Nat /\ row[i].beat \in Nat /\ Older(row[i].beat) \in Nat
        BY <2>1, OlderAges, Settings DEF IInv, TypeOK, Thread, Ages
      <4> QED BY <4>1, <4>2, <4>3, <2>2
    <3> QED BY <3>3, <3>4
  <2>6. CASE UNCHANGED vars BY <2>6, <2>3 DEF vars
  <2>7. CASE Outage \/ Return BY <2>7, <2>3 DEF Outage, Return
  <2>8. ASSUME NEW p \in Processes, Start(p) \/ Stop(p) \/ ThreadStep(p) PROVE Ahead
    <3>1. CASE Upsert(p) BY <3>1, <2>5
    <3>2. CASE ~Upsert(p)
      <4>1. row' = row BY <2>8, <3>2 DEF Start, Stop, ThreadStep, Stamp, FailUpsert, Wake
      <4> HIDE DEF Ahead
      <4> QED BY <4>1, <2>3
    <3> QED BY <3>1, <3>2
  <2> QED BY <2>4, <2>6, <2>7, <2>8 DEF Next
<1> QED BY <1>1, Invariance, PTL DEF Spec, OnlySharedRowGoesBack
============================================================================
