------------------------- MODULE VerifyIndexProofs -------------------------
(* What the success of a verify run is worth, in every mixture of runners. *)
EXTENDS VerifyIndex, RagIndexProofs

---------------------------------------------------------------------------
(* The inductive invariant                                                 *)

\* No full run has the file of a verify run in its transaction.
Apart(r) == runner[r].pc = "dims" =>
  \A s \in Runners : runner[s].pc \in {"persist", "flush tmp"} => runner[s].ino # runner[r].ino

\* Whatever the run has seen so far was, or is, in place.
Sees(r) ==
  /\ runner[r].pc \in VerifyPhases /\ Fit(committed, runner[r].dim) => sighted[r]
  /\ runner[r].pc = "dims" /\ Fit(file[runner[r].ino], runner[r].dim) => sighted[r]
  /\ runner[r].pc = "sample query" => sighted[r]

VInv == ~overrun => \A r \in Runners : Apart(r) /\ Sees(r)

---------------------------------------------------------------------------
(* Steps of other runners                                                  *)

\* The file a verify run has open keeps its contents, or is rag.db and gets
\* what is committed.
LEMMA KeptOpen ==
  ASSUME IInv, [Next]_vars, ~overrun', NEW r \in Runners, runner[r].pc = "dims", Apart(r)
  PROVE  file'[runner[r].ino] = file[runner[r].ino] \/ file'[runner[r].ino] = committed'
PROOF
<1> DEFINE i == runner[r].ino
           Goal == file'[i] = file[i] \/ file'[i] = committed'
<1> SUFFICES Goal
  OBVIOUS
<1>1. ~overrun /\ Kept
  BY TmpSteps DEF IInv
<1>2. /\ i \in Inodes /\ i # path["tmp"]
      /\ \A s \in Runners : runner[s].pc \in {"persist", "flush tmp"} => runner[s].ino # i
  BY DEF IInv, TmpNamed, PhasesFit, Phases, Opened, OnDb, Apart
<1>3. file \in [Inodes -> Index \cup {Damaged}]
  BY DEF IInv, Typed
<1> HIDE DEF i
<1>4. CASE UNCHANGED file
  BY <1>4
<1>5. ASSUME NEW n \in Names, Recover(n) PROVE Goal
  <2>1. /\ journal[n] # None /\ path[n] # None
        /\ \E x \in Overwritten(path[n], journal[n]) : file' = [file EXCEPT ![path[n]] = x]
    BY <1>5 DEF Recover, Recovered, Hot
  <2>2. journal[n].ino = path[n]
    BY <1>1, <2>1 DEF IInv, TmpNamed, Kept, Names
  <2>3. file' = file
    BY <1>3, <2>1, <2>2 DEF Overwritten
  <2> QED
    BY <2>3
<1>6. ASSUME NEW n \in Names, Creates(n) PROVE Goal
  BY <1>2, <1>3, <1>6, FreshFacts DEF Creates, i
<1>7. ASSUME NEW s \in Runners, CommitPersist(s) PROVE Goal
  <2>1. /\ runner[s].pc = "flush tmp"
        /\ file' = [file EXCEPT ![runner[s].ino] = Embedded(runner[s].scan, runner[s].dim)]
    BY <1>7 DEF CommitPersist
  <2> QED
    BY <1>2, <1>3, <2>1
<1>8. ASSUME NEW s \in Runners, Replace(s) PROVE Goal
  <2>1. \E x \in IF Hot("tmp") THEN Torn(path["tmp"]) ELSE {file[path["tmp"]]} :
          file' = [file EXCEPT ![path["tmp"]] = x]
    BY <1>8 DEF Replace
  <2> QED
    BY <1>2, <1>3, <2>1
<1>9. ASSUME NEW s \in Runners, CommitWrite(s) PROVE Goal
  <2>1. /\ runner[s].pc = "flush db" /\ file' = [file EXCEPT ![runner[s].ino] = Merged(s)]
        /\ committed' = IF runner[s].ino = path["db"] THEN Merged(s) ELSE committed
    BY <1>9 DEF CommitWrite
  <2>2. runner[s].ino = path["db"] /\ runner[s].ino \in Inodes
    BY <1>1, <2>1, WriterFacts DEF Kept, Holds, Transactions, Flushing
  <2> QED
    BY <1>2, <1>3, <2>1, <2>2
<1>10. ASSUME NEW s \in Runners, Crash(s) PROVE Goal
  <2>1. CASE runner[s].pc \in Flushing /\ ~Restorable(s)
    <3>1. runner[s].ino # path["db"]
      BY <1>1, <2>1, TornIsNameless
    <3>2. runner[s].pc = "flush tmp"
      BY <1>1, <2>1, <3>1 DEF Kept, Holds, Flushing
    <3>3. \E x \in Torn(runner[s].ino) : file' = [file EXCEPT ![runner[s].ino] = x]
      BY <1>10, <2>1 DEF Crash
    <3> QED
      BY <1>2, <1>3, <3>2, <3>3
  <2>2. CASE ~(runner[s].pc \in Flushing /\ ~Restorable(s))
    BY <1>10, <2>2 DEF Crash
  <2> QED
    BY <2>1, <2>2
<1>11. ASSUME NEW s \in Runners, TakeJournal(s) PROVE FALSE
  BY <1>11 DEF TakeJournal
<1>12. ASSUME NEW s \in Runners, FullStep(s) PROVE Goal
  BY <1>4, <1>6, <1>7, <1>8, <1>12 DEF FullStep, StartFull, Unlink, ScanFull, OpenTmp, BeginPersist,
     SelfCheck, SelfCheckMissing, CleanUp, Names
<1>13. ASSUME NEW s \in Runners, IncrementalStep(s) PROVE Goal
  BY <1>4, <1>6, <1>9, <1>13 DEF IncrementalStep, StartIncremental, OpenDb, CommitNothing, BeginWrite,
     Report, Names
<1>14. ASSUME NEW s \in Runners, VerifyStep(s) PROVE Goal
  BY <1>4, <1>14 DEF VerifyStep, StartVerify, CountChunks, CompareDims, SampleQuery, SkipSampleQuery
<1>15. ASSUME NEW s \in Runners, Flush(s) \/ Fail(s) PROVE Goal
  BY <1>4, <1>15 DEF Flush, Fail
<1>16. CASE \/ \E d \in Docs, v \in Versions \cup {None} : EditDoc(d, v)
            \/ \E m \in Dims : ChangeModel(m)
            \/ UNCHANGED vars
  BY <1>4, <1>16 DEF EditDoc, ChangeModel, vars
<1> QED
  BY <1>5, <1>10, <1>11, <1>12, <1>13, <1>14, <1>15, <1>16 DEF Next, SQLiteStep

\* A run counts chunks, compares dimensions and succeeds as a verify run by
\* steps of its own.
LEMMA VerifySteps ==
  ASSUME IInv, [Next]_vars, NEW r \in Runners
  PROVE  \/ runner'[r] = runner[r]
         \/ VerifyStep(r)
         \/ /\ runner'[r].pc \notin {"dims", "sample query"}
            /\ runner[r].pc \in VerifyPhases => runner'[r].pc # "succeeded"
PROOF
<1>1. ASSUME NEW pc, NEW mode, NEW scan, NEW dim, Becomes(r, Begun(pc, mode, scan, dim))
      PROVE  runner'[r].pc = pc
  BY <1>1 DEF Becomes, Begun, Local, IInv, Typed, TypeOK
<1>2. ASSUME NEW pc, Becomes(r, Ended(pc)) PROVE runner'[r].pc = pc
  BY <1>1, <1>2 DEF Ended
<1>3. {"dims", "sample query", "validate"} = VerifyPhases
  BY DEF VerifyPhases
<1>4. CASE StartFull(r)
  <2>1. PICK pc \in {"scan", "unlink first"} : Becomes(r, Begun(pc, "full", NoScan, model))
    BY <1>4 DEF StartFull
  <2>2. runner'[r].pc = pc
    BY <1>1, <2>1
  <2> QED
    BY <2>2
<1>5. CASE FullStep(r) /\ ~StartFull(r)
  <2>1. runner[r].pc \in FullPhases
    BY <1>5 DEF FullStep, Unlink, ScanFull, OpenTmp, BeginPersist, CommitPersist, SelfCheck,
         SelfCheckMissing, Replace, CleanUp, FullPhases, CleanUpPhases
  <2>2. runner[r].pc \notin VerifyPhases
    BY <1>3, <2>1 DEF FullPhases, CleanUpPhases
  <2>3. \/ \E pc \in {"failed", "unlink failed", "clean up failed"} : Becomes(r, Ended(pc))
        \/ \E pc \in {"scan", "open tmp", "begin", "persist", "self-check", "replace", "clean up ok",
                      "unlink ok", "succeeded"} : \E scan, ino, seen : Sets(r, pc, scan, ino, seen)
    BY <1>5 DEF FullStep, Unlink, ScanFull, OpenTmp, BeginPersist, CommitPersist, SelfCheck,
         SelfCheckMissing, Replace, CleanUp, Moves
  <2>4. runner'[r].pc \notin {"dims", "sample query"}
    BY <1>2, <2>3, SetsIs
  <2> QED
    BY <2>2, <2>4
<1>6. CASE StartIncremental(r)
  <2>1. \E mode, scan, dim : Becomes(r, Begun("open db", mode, scan, dim))
    BY <1>6 DEF StartIncremental
  <2>2. runner'[r].pc = "open db"
    BY <1>1, <2>1
  <2> QED
    BY <2>2
<1>7. CASE (IncrementalStep(r) /\ ~StartIncremental(r)) \/ Flush(r)
  <2>1. runner[r].pc \notin VerifyPhases
    BY <1>3, <1>7 DEF IncrementalStep, OpenDb, CommitNothing, BeginWrite, CommitWrite, Report, Flush
  <2>2. \E pc \in {"classified", "stats", "writing", "succeeded", "flush tmp", "flush db"} : \E scan, ino, seen :
          Sets(r, pc, scan, ino, seen)
    BY <1>7 DEF IncrementalStep, OpenDb, CommitNothing, BeginWrite, CommitWrite, Report, Flush, Moves
  <2>3. runner'[r].pc \notin {"dims", "sample query"}
    BY <2>2, SetsIs
  <2> QED
    BY <2>1, <2>3
<1>8. CASE TakeJournal(r)
  BY <1>8 DEF TakeJournal
<1>9. CASE Fail(r) \/ Crash(r)
  BY <1>9, Fallen
<1>10. ASSUME NEW s \in Runners, RunnerMoves(s), s # r PROVE runner'[r] = runner[r]
  BY <1>10, OneMoves
<1>11. CASE \A s \in Runners : ~RunnerMoves(s)
  BY <1>11, SurroundingsLeave
<1> QED
  BY <1>4, <1>5, <1>6, <1>7, <1>8, <1>9, <1>10, <1>11 DEF RunnerMoves, SQLiteStep

\* Where a step takes a verify run, and with which variables.
LEMMA VerifyIs ==
  ASSUME IInv, NEW r \in Runners, VerifyStep(r)
  PROVE  LET l == runner[r]  m == runner'[r] IN
         \/ m.pc = "validate"
         \/ CountChunks(r) /\ m.pc = "dims" /\ m.dim = l.dim /\ m.ino = path["db"]
         \/ CompareDims(r) /\ m.pc = "sample query" /\ m.dim = l.dim
         \/ (SampleQuery(r) \/ SkipSampleQuery(r)) /\ m.pc = "succeeded"
PROOF
<1>1. ASSUME NEW e \in Dims \cup {AnyDim}, StartVerify(r, e) PROVE runner'[r].pc = "validate"
  <2>1. Becomes(r, Begun("validate", "verify", NoScan, e))
    BY <1>1 DEF StartVerify
  <2> QED
    BY <2>1 DEF Becomes, Begun, Local, IInv, Typed, TypeOK
<1>2. ASSUME CountChunks(r) PROVE LET m == runner'[r] IN
        m.pc = "dims" /\ m.dim = runner[r].dim /\ m.ino = path["db"]
  <2>1. Sets(r, "dims", runner[r].scan, path["db"], runner[r].seen)
    BY <1>2 DEF CountChunks
  <2> QED
    BY <2>1, SetsIs
<1>3. ASSUME CompareDims(r) PROVE LET m == runner'[r] IN m.pc = "sample query" /\ m.dim = runner[r].dim
  <2>1. Sets(r, "sample query", runner[r].scan, None, runner[r].seen)
    BY <1>3 DEF CompareDims
  <2> QED
    BY <2>1, SetsIs
<1>4. ASSUME SampleQuery(r) \/ SkipSampleQuery(r) PROVE runner'[r].pc = "succeeded"
  <2>1. Moves(r, "succeeded")
    BY <1>4 DEF SampleQuery, SkipSampleQuery
  <2> QED
    BY <2>1, MovesIs
<1> QED
  BY <1>1, <1>2, <1>3, <1>4 DEF VerifyStep

\* A full run begins its transaction on the file that is called rag.db.tmp,
\* and stays on it.
LEMMA PersistSteps ==
  ASSUME IInv, [Next]_vars, NEW r \in Runners, runner'[r].pc \in {"persist", "flush tmp"}
  PROVE  \/ runner[r].pc \in {"persist", "flush tmp"} /\ runner'[r].ino = runner[r].ino
         \/ runner'[r].ino = path'["tmp"]
PROOF
<1> DEFINE Goal == \/ runner[r].pc \in {"persist", "flush tmp"} /\ runner'[r].ino = runner[r].ino
                   \/ runner'[r].ino = path'["tmp"]
<1>1. ASSUME NEW pc, NEW mode, NEW scan, NEW dim, Becomes(r, Begun(pc, mode, scan, dim))
      PROVE  runner'[r].pc = pc
  BY <1>1 DEF Becomes, Begun, Local, IInv, Typed, TypeOK
<1>2. CASE BeginPersist(r)
  <2>1. Moves(r, "persist") /\ path["tmp"] = runner[r].ino /\ UNCHANGED path
    BY <1>2 DEF BeginPersist
  <2>2. runner'[r].ino = runner[r].ino
    BY <2>1, MovesIs
  <2> QED
    BY <2>1, <2>2
<1>3. CASE Flush(r)
  <2>1. \/ runner[r].pc = "persist" /\ Moves(r, "flush tmp")
        \/ Moves(r, "flush db")
    BY <1>3 DEF Flush
  <2> QED
    BY <2>1, MovesIs
<1>4. CASE StartFull(r) \/ StartIncremental(r) \/ \E e \in Dims \cup {AnyDim} : StartVerify(r, e)
  <2>1. \E pc \in {"scan", "unlink first", "open db", "validate"} : \E mode, scan, dim :
          Becomes(r, Begun(pc, mode, scan, dim))
    BY <1>4 DEF StartFull, StartIncremental, StartVerify
  <2>2. runner'[r].pc \in {"scan", "unlink first", "open db", "validate"}
    BY <1>1, <2>1
  <2> QED
    BY <2>2
<1>5. CASE Fail(r) \/ Crash(r)
  BY <1>5, Fallen
<1>6. CASE FullStep(r) /\ ~StartFull(r) /\ ~BeginPersist(r)
  <2>1. \/ \E pc \in {"failed", "unlink failed", "clean up failed"} : Becomes(r, Begun(pc, None, NoScan, AnyDim))
        \/ \E pc \in {"scan", "open tmp", "begin", "self-check", "replace", "clean up ok",
                      "unlink ok", "succeeded"} : \E scan, ino, seen : Sets(r, pc, scan, ino, seen)
    BY <1>6 DEF FullStep, Unlink, ScanFull, OpenTmp, CommitPersist, SelfCheck, SelfCheckMissing, Replace,
         CleanUp, Moves, Ended
  <2> QED
    BY <1>1, <2>1, SetsIs
<1>7. CASE (IncrementalStep(r) /\ ~StartIncremental(r)) \/ CountChunks(r) \/ CompareDims(r)
           \/ SampleQuery(r) \/ SkipSampleQuery(r)
  <2>1. \E pc \in {"classified", "stats", "writing", "succeeded", "dims", "sample query"} : \E scan, ino, seen :
          Sets(r, pc, scan, ino, seen)
    BY <1>7 DEF IncrementalStep, OpenDb, CommitNothing, BeginWrite, CommitWrite, Report,
         CountChunks, CompareDims, SampleQuery, SkipSampleQuery, Moves
  <2> QED
    BY <2>1, SetsIs
<1>8. CASE UNCHANGED runner
  BY <1>8
<1>9. ASSUME NEW s \in Runners, RunnerMoves(s), s # r PROVE Goal
  BY <1>9, OneMoves
<1>10. CASE \A s \in Runners : ~RunnerMoves(s)
  BY <1>8, <1>10, SurroundingsLeave
<1>11. TakeJournal(r) => UNCHANGED runner
  BY DEF TakeJournal
<1> QED
  BY <1>2, <1>3, <1>4, <1>5, <1>6, <1>7, <1>8, <1>9, <1>10, <1>11
     DEF RunnerMoves, SQLiteStep, VerifyStep

---------------------------------------------------------------------------
(* Invariance                                                              *)

\* Another run keeps away from the file.
LEMMA ApartStep ==
  ASSUME IInv, IInv', [Next]_vars, ~overrun', VInv, NEW r \in Runners
  PROVE  Apart(r)'
<1>1. ~overrun /\ Kept
  BY TmpSteps DEF IInv
<1>2. SUFFICES ASSUME runner'[r].pc = "dims",
                      NEW s \in Runners, runner'[s].pc \in {"persist", "flush tmp"}
               PROVE  runner'[s].ino # runner'[r].ino
  BY DEF Apart
<1>3. runner'[r].ino # path'["tmp"]
  BY <1>2 DEF IInv, TmpNamed, OnDb
<1>4. CASE runner[s].pc \in {"persist", "flush tmp"} /\ runner'[s].ino = runner[s].ino
  <2>1. CASE runner'[r] = runner[r]
    BY <1>1, <1>2, <1>4, <2>1 DEF VInv, Apart
  <2>2. CASE VerifyStep(r)
    <3>1. runner'[r].ino = path["db"]
      BY <1>2, <2>2, VerifyIs
    <3>2. runner[s].ino # path["db"]
      BY <1>1, <1>4 DEF Kept, Holds
    <3> QED
      BY <1>4, <3>1, <3>2
  <2> QED
    BY <1>2, <2>1, <2>2, VerifySteps
<1> QED
  BY <1>2, <1>3, <1>4, PersistSteps

\* What the run sees is seen to be in place.
LEMMA SeesStep ==
  ASSUME IInv, IInv', [Next]_vars, ~overrun', VInv, NEW r \in Runners,
         sighted'[r] = /\ runner'[r].pc \in VerifyPhases
                       /\ sighted[r] \/ Fit(committed', runner'[r].dim)
  PROVE  Sees(r)'
<1>1. ~overrun /\ Kept /\ Apart(r) /\ Sees(r)
  BY TmpSteps DEF IInv, VInv
<1>2. {"dims", "sample query"} \subseteq VerifyPhases
  BY DEF VerifyPhases
<1>3. ASSUME runner'[r].pc = "dims", Fit(file'[runner'[r].ino], runner'[r].dim) PROVE sighted'[r]
  <2>1. CASE runner'[r] = runner[r]
    <3>1. file'[runner[r].ino] = file[runner[r].ino] \/ file'[runner[r].ino] = committed'
      BY <1>1, <1>3, <2>1, KeptOpen
    <3>2. CASE file'[runner[r].ino] = file[runner[r].ino]
      BY <1>1, <1>2, <1>3, <2>1, <3>2 DEF Sees
    <3>3. CASE file'[runner[r].ino] = committed'
      BY <1>2, <1>3, <2>1, <3>3
    <3> QED
      BY <3>1, <3>2, <3>3
  <2>2. CASE VerifyStep(r)
    <3>1. CountChunks(r) /\ runner'[r].ino = path["db"]
      BY <1>3, <2>2, VerifyIs
    <3>2. path["db"] # None /\ UNCHANGED <<path, file, committed>>
      BY <3>1 DEF CountChunks
    <3>3. file'[runner'[r].ino] = committed'
      BY <1>1, <3>1, <3>2 DEF Kept
    <3> QED
      BY <1>2, <1>3, <3>3
  <2> QED
    BY <1>3, <2>1, <2>2, VerifySteps
<1>4. ASSUME runner'[r].pc = "sample query" PROVE sighted'[r]
  <2>1. CASE runner'[r] = runner[r]
    BY <1>1, <1>2, <1>4, <2>1 DEF Sees
  <2>2. CASE VerifyStep(r)
    <3>1. CompareDims(r)
      BY <1>4, <2>2, VerifyIs
    <3>2. /\ runner[r].pc = "dims" /\ file[runner[r].ino] # Damaged
          /\ HasChunks(file[runner[r].ino]) /\ DimsAsExpected(file[runner[r].ino], runner[r].dim)
      BY <3>1 DEF CompareDims, Readable
    <3>3. runner[r].ino \in Inodes
      BY <3>2 DEF IInv, PhasesFit, Phases, Opened, OnDb
    <3>4. file[runner[r].ino] # None
      BY <3>3, NoneIsNoIndex, RagIndexAssumption DEF IInv, Typed
    <3>5. Fit(file[runner[r].ino], runner[r].dim)
      BY <3>2, <3>4 DEF Fit
    <3> QED
      BY <1>1, <1>2, <1>4, <3>2, <3>5 DEF Sees
  <2> QED
    BY <1>4, <2>1, <2>2, VerifySteps
<1> QED
  BY <1>2, <1>3, <1>4 DEF Sees

\* A run that succeeds has seen an index in place.
LEMMA SuccessSees ==
  ASSUME IInv, VInv, Next, ~overrun', NEW r \in Runners,
         runner[r].pc \in VerifyPhases, runner'[r].pc = "succeeded"
  PROVE  sighted[r]
<1>1. Sees(r)
  BY TmpSteps DEF VInv
<1>2. VerifyStep(r)
  BY VerifySteps DEF VerifyPhases
<1>3. runner[r].pc = "sample query"
  BY <1>2, VerifyIs DEF SampleQuery, SkipSampleQuery
<1> QED
  BY <1>1, <1>3 DEF Sees

\* In every mixture of runners, faults and kills: a verify run that succeeds
\* has seen, while it ran, an index in place with chunks of one dimension, the
\* expected one, unless something was overrun.
THEOREM VerifyVouchesHolds == VerifySpec => VerifyVouches
<1>1. VerifyInit => VInv
  <2> SUFFICES ASSUME VerifyInit, NEW r \in Runners PROVE Apart(r) /\ Sees(r)
    BY DEF VInv
  <2>1. runner[r].pc = "idle"
    BY DEF VerifyInit, Init, Ended, Begun, Local
  <2> QED
    BY <2>1 DEF Apart, Sees, VerifyPhases
<1>2. ASSUME IInv, IInv', VInv, [VerifyNext]_vvars PROVE VInv'
  <2>1. CASE VerifyNext
    <3> SUFFICES ASSUME ~overrun', NEW r \in Runners PROVE Apart(r)' /\ Sees(r)'
      BY DEF VInv
    <3>1. sighted'[r] = /\ runner'[r].pc \in VerifyPhases
                        /\ sighted[r] \/ Fit(committed', runner'[r].dim)
      BY <2>1 DEF VerifyNext
    <3>2. [Next]_vars
      BY <2>1 DEF VerifyNext
    <3> QED
      BY <1>2, <3>1, <3>2, ApartStep, SeesStep
  <2>2. CASE UNCHANGED vvars
    <3>1. UNCHANGED <<file, committed, runner, overrun, sighted>>
      BY <2>2 DEF vvars, vars
    <3> QED
      BY <1>2, <3>1 DEF VInv, Apart, Sees, Fit, HasChunks, DimsAsExpected
  <2> QED
    BY <1>2, <2>1, <2>2
<1> DEFINE Sound == \A r \in Runners :
             runner[r].pc \in VerifyPhases /\ runner'[r].pc = "succeeded" /\ ~overrun' => sighted[r]
<1>3. IInv /\ VInv /\ [VerifyNext]_vvars => [Sound]_vvars
  BY SuccessSees DEF VerifyNext
<1>4. VerifyInit => Init
  BY DEF VerifyInit
<1>5. [VerifyNext]_vvars => [Next]_vars
  BY DEF VerifyNext, vvars
<1>6. VerifySpec => []IInv
  BY Invariance, <1>4, <1>5, PTL DEF VerifySpec, Spec
<1> QED
  BY <1>1, <1>2, <1>3, <1>6, PTL DEF VerifySpec, VerifyVouches
============================================================================
