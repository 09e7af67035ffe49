-------------------------- MODULE RagIndexProofs --------------------------
(* Proofs about RagIndex, for every number of runners, documents, models,  *)
(* edits and kills.                                                        *)
EXTENDS RagIndex, TLAPS

---------------------------------------------------------------------------
(* The inductive invariant                                                 *)

\* What TypeOK says, and that files and journals are functions.
Typed == /\ TypeOK
         /\ file \in [Inodes -> Index \cup {Damaged}]
         /\ journal = [n \in Names |-> journal[n]]
         /\ crashes \in Nat /\ crashes <= MaxCrashes

\* Phases after a failure, phases with rag.db open, and all phases in which a
\* runner has a file open.
Failing == {"clean up failed", "unlink failed"}
OnDb == {"classified", "writing", "flush db", "stats", "dims"}
Opened == {"begin", "persist", "flush tmp"} \cup OnDb

\* Where a runner is tells its mode, and what its local variables hold.
Phases(l) ==
  /\ l.pc \in FullPhases => "full" \in Modes
  /\ l.pc \in FullPhases \ Failing => l.mode = "full" /\ l.dim \in Dims
  /\ l.pc \in IncrementalPhases => "incremental" \in Modes /\ l.mode = "incremental" /\ l.dim \in Dims
  /\ l.pc \in VerifyPhases => l.mode = "verify"
  /\ l.pc = "succeeded" => l.mode \in AllModes
  /\ l.pc \in Opened => l.ino \in Inodes

PhasesFit == \A r \in Runners : Phases(runner[r])

\* A journal of rag.db.tmp is that of the file of the name, and no incremental
\* or verify run has that file open.
TmpNamed ==
  /\ journal["tmp"] # None => path["tmp"] # None /\ journal["tmp"].ino = path["tmp"]
  /\ \A r \in Runners : runner[r].pc \in OnDb => runner[r].ino # path["tmp"]

\* One transaction at a time on a file.
OneWriter == \A r, s \in Runners :
  runner[r].pc \in Transactions /\ runner[s].pc \in Transactions /\ runner[r].ino = runner[s].ino
    => r = s

\* The contents a full reindex can give a file.
OneModel(x) == \E S \in Scans, m \in Dims : x = Embedded(S, m)

\* A transaction of an incremental run is on rag.db and one of a full run is
\* not; who writes pages to a file that has its name has a journal.
Holds(l) ==
  /\ l.pc \in {"writing", "flush db"} => l.ino = path["db"]
  /\ l.pc \in {"persist", "flush tmp"} => l.ino # path["db"]
  /\ l.pc = "flush db" => journal["db"] # None
  /\ l.pc = "flush tmp" /\ l.ino = path["tmp"] => journal["tmp"] # None

\* rag.db holds what was committed last, rag.db.tmp is empty or what a full
\* run made, and a journal of rag.db is that of the file of the name.
Kept ==
  /\ path["db"] # None => file[path["db"]] = committed /\ committed \in Index
  /\ path["tmp"] # None => OneModel(file[path["tmp"]])
  /\ journal["db"] # None => path["db"] # None /\ journal["db"].ino = path["db"]
  /\ \A r \in Runners : Holds(runner[r])

IInv == /\ Typed /\ PhasesFit /\ TmpOnlyDuringFull /\ TmpNamed /\ OneWriter
        /\ ~overrun => Kept

---------------------------------------------------------------------------
(* Facts about the operators                                               *)

AllPhases == Settled \cup FullPhases \cup IncrementalPhases \cup VerifyPhases

\* A file that is created has no name yet, and nobody has it open.
LEMMA FreshFacts ==
  ASSUME Free # {}
  PROVE  /\ FreshInode \in Inodes /\ FreshInode # path["db"] /\ FreshInode # path["tmp"]
         /\ \A r \in Runners : runner[r].ino # FreshInode
         /\ \A n \in Names : journal[n] = None \/ journal[n].ino # FreshInode
  BY DEF Free, FreshInode, Names

\* The local variables built by Local and the records made from it.
LEMMA LocalTyped ==
  ASSUME NEW pc \in AllPhases,
         NEW mode \in AllModes \cup {None}, NEW scan \in Scans, NEW dim \in Dims \cup {AnyDim},
         NEW ino \in Inodes \cup {None}, NEW seen \in Scans
  PROVE  Local(pc, mode, scan, dim, ino, seen) \in Runner
  BY DEF Local, Runner, AllPhases

\* An empty scan is a scan, and an empty index an index.
LEMMA EmptyTyped == NoScan \in Scans /\ EmptyIndex \in Index
  BY DEF NoScan, Scans, EmptyIndex, Index

\* Embedding what was scanned makes an index.
LEMMA EmbeddedTyped ==
  ASSUME NEW scan \in Scans, NEW dim \in Dims
  PROVE  Embedded(scan, dim) \in Index
  BY DEF Scans, Embedded, Index, Entry

\* The documents map of an index.
LEMMA HashesTyped ==
  ASSUME NEW x \in Index
  PROVE  Hashes(x) \in Scans
  BY DEF Hashes, Index, Entry, Scans

\* The empty index is what a full run of no documents would make.
LEMMA EmptyIsOneModel == OneModel(EmptyIndex)
<1>1. PICK m \in Dims : TRUE
  BY RagIndexAssumption
<1>2. EmptyIndex = Embedded(NoScan, m)
  BY DEF EmptyIndex, Embedded, NoScan
<1> QED
  BY <1>1, <1>2, EmptyTyped DEF OneModel

\* Such contents are an index.
LEMMA OneModelIsIndex ==
  ASSUME NEW x, OneModel(x)
  PROVE  x \in Index
  BY EmbeddedTyped DEF OneModel

\* Names of files, and what they tell apart.
LEMMA Naming ==
  ASSUME Typed
  PROVE  /\ path["db"] \in Inodes \cup {None} /\ path["tmp"] \in Inodes \cup {None}
         /\ None \notin Inodes
         /\ path["db"] # None => path["db"] # path["tmp"]
         /\ \A n \in Names : journal[n] = None \/ (journal[n].ino \in Inodes /\ journal[n].before \in Index)
  BY RagIndexAssumption DEF Typed, TypeOK, Names, Journal

\* What is known of the local variables of a runner.
LEMMA RunnerFacts ==
  ASSUME Typed, PhasesFit, NEW r \in Runners
  PROVE  LET l == runner[r] IN
         /\ l \in Runner /\ Phases(l)
         /\ l.pc \in AllPhases
         /\ l.mode \in AllModes \cup {None} /\ l.scan \in Scans /\ l.dim \in Dims \cup {AnyDim}
         /\ l.ino \in Inodes \cup {None} /\ l.seen \in Scans
  BY DEF Typed, TypeOK, PhasesFit, Runner, AllPhases

\* One runner gets new local variables, the others keep theirs.
LEMMA BecomesFacts ==
  ASSUME Typed, PhasesFit, NEW r \in Runners, NEW l \in Runner, Phases(l), Becomes(r, l)
  PROVE  /\ runner' \in [Runners -> Runner] /\ PhasesFit'
         /\ runner'[r] = l /\ \A s \in Runners : s # r => runner'[s] = runner[s]
  BY DEF Becomes, Typed, TypeOK, PhasesFit, Phases

\* The same for a runner that goes on.
LEMMA SetsFacts ==
  ASSUME Typed, PhasesFit, NEW r \in Runners,
         NEW pc \in AllPhases,
         NEW scan \in Scans, NEW ino \in Inodes \cup {None}, NEW seen \in Scans,
         Sets(r, pc, scan, ino, seen),
         Phases(Local(pc, runner[r].mode, scan, runner[r].dim, ino, seen))
  PROVE  /\ runner' \in [Runners -> Runner] /\ PhasesFit'
         /\ LET l == runner'[r] IN
            /\ l.pc = pc /\ l.mode = runner[r].mode /\ l.scan = scan /\ l.dim = runner[r].dim
            /\ l.ino = ino /\ l.seen = seen
         /\ \A s \in Runners : s # r => runner'[s] = runner[s]
<1>1. runner[r].mode \in AllModes \cup {None} /\ runner[r].dim \in Dims \cup {AnyDim}
  BY RunnerFacts
<1>2. Local(pc, runner[r].mode, scan, runner[r].dim, ino, seen) \in Runner
  BY <1>1, LocalTyped
<1>3. /\ runner' \in [Runners -> Runner] /\ PhasesFit'
      /\ runner'[r] = Local(pc, runner[r].mode, scan, runner[r].dim, ino, seen)
      /\ \A s \in Runners : s # r => runner'[s] = runner[s]
  BY <1>2, BecomesFacts DEF Sets
<1>4. LET l == runner'[r] IN
      /\ l.pc = pc /\ l.mode = runner[r].mode /\ l.scan = scan /\ l.dim = runner[r].dim
      /\ l.ino = ino /\ l.seen = seen
  BY <1>3 DEF Local
<1> QED
  BY <1>3, <1>4

\* The same for a runner that keeps its scan, file and documents map.
LEMMA MovesFacts ==
  ASSUME Typed, PhasesFit, NEW r \in Runners, NEW pc \in AllPhases, Moves(r, pc),
         Phases(Local(pc, runner[r].mode, runner[r].scan, runner[r].dim, runner[r].ino, runner[r].seen))
  PROVE  /\ runner' \in [Runners -> Runner] /\ PhasesFit'
         /\ LET l == runner'[r] IN
            /\ l.pc = pc /\ l.mode = runner[r].mode /\ l.scan = runner[r].scan
            /\ l.dim = runner[r].dim /\ l.ino = runner[r].ino /\ l.seen = runner[r].seen
         /\ \A s \in Runners : s # r => runner'[s] = runner[s]
<1>1. /\ runner[r].scan \in Scans /\ runner[r].ino \in Inodes \cup {None} /\ runner[r].seen \in Scans
  BY RunnerFacts
<1> QED
  BY <1>1, SetsFacts DEF Moves

\* A runner that has ended, or that begins to clean up.
LEMMA EndedFacts ==
  ASSUME NEW pc \in {"idle", "failed"} \cup Failing, pc \in Failing => "full" \in Modes
  PROVE  Ended(pc) \in Runner /\ Phases(Ended(pc)) /\ Ended(pc).pc = pc /\ Ended(pc).ino = None
<1>1. Ended(pc) = Local(pc, None, NoScan, AnyDim, None, NoScan)
  BY DEF Ended, Begun
<1>2. pc \in AllPhases
  BY DEF AllPhases, Settled, FullPhases, CleanUpPhases, Failing
<1>3. Ended(pc) \in Runner
  BY <1>1, <1>2, EmptyTyped, LocalTyped
<1>4. Ended(pc).pc = pc /\ Ended(pc).ino = None
  BY DEF Ended, Begun, Local
<1>5. /\ pc \notin IncrementalPhases /\ pc \notin VerifyPhases /\ pc # "succeeded" /\ pc \notin Opened
      /\ pc \in FullPhases => pc \in Failing
  BY DEF FullPhases, CleanUpPhases, IncrementalPhases, VerifyPhases, Opened, OnDb, Failing
<1> QED
  BY <1>3, <1>4, <1>5 DEF Phases

\* A full run that is not cleaning up after a failure.
LEMMA PhasesOfFull ==
  ASSUME NEW pc \in FullPhases \ Failing, NEW scan, NEW dim \in Dims, NEW ino, NEW seen,
         "full" \in Modes, pc \in {"begin", "persist", "flush tmp"} => ino \in Inodes
  PROVE  Phases(Local(pc, "full", scan, dim, ino, seen))
<1> DEFINE l == Local(pc, "full", scan, dim, ino, seen)
<1>1. l.pc = pc /\ l.mode = "full" /\ l.dim = dim /\ l.ino = ino
  BY DEF Local
<1>2. pc \notin IncrementalPhases /\ pc \notin VerifyPhases /\ pc \notin OnDb /\ pc # "succeeded"
  BY DEF FullPhases, CleanUpPhases, IncrementalPhases, VerifyPhases, OnDb
<1> HIDE DEF l
<1>3. Phases(l)
  BY <1>1, <1>2 DEF Phases, Opened
<1> QED
  BY <1>3 DEF l

\* An incremental run.
LEMMA PhasesOfIncremental ==
  ASSUME NEW pc \in IncrementalPhases, NEW scan, NEW dim \in Dims, NEW ino, NEW seen,
         "incremental" \in Modes, pc \in OnDb => ino \in Inodes
  PROVE  Phases(Local(pc, "incremental", scan, dim, ino, seen))
<1> DEFINE l == Local(pc, "incremental", scan, dim, ino, seen)
<1>1. l.pc = pc /\ l.mode = "incremental" /\ l.dim = dim /\ l.ino = ino
  BY DEF Local
<1>2. /\ pc \notin FullPhases /\ pc \notin VerifyPhases
      /\ pc \notin {"begin", "persist", "flush tmp", "succeeded"}
  BY DEF FullPhases, CleanUpPhases, IncrementalPhases, VerifyPhases
<1> HIDE DEF l
<1>3. Phases(l)
  BY <1>1, <1>2 DEF Phases, Opened
<1> QED
  BY <1>3 DEF l

\* A verify run.
LEMMA PhasesOfVerify ==
  ASSUME NEW pc \in VerifyPhases, NEW scan, NEW dim, NEW ino, NEW seen, pc = "dims" => ino \in Inodes
  PROVE  Phases(Local(pc, "verify", scan, dim, ino, seen))
<1> DEFINE l == Local(pc, "verify", scan, dim, ino, seen)
<1>1. l.pc = pc /\ l.mode = "verify" /\ l.ino = ino
  BY DEF Local
<1>2. pc \notin FullPhases /\ pc \notin IncrementalPhases /\ pc # "succeeded" /\ (pc \in Opened => pc = "dims")
  BY DEF FullPhases, CleanUpPhases, IncrementalPhases, VerifyPhases, Opened, OnDb
<1> HIDE DEF l
<1>3. Phases(l)
  BY <1>1, <1>2 DEF Phases
<1> QED
  BY <1>3 DEF l

\* A run that has ended.
LEMMA PhasesOfSettled ==
  ASSUME NEW pc \in Settled, NEW mode, NEW scan, NEW dim, NEW ino, NEW seen,
         pc = "succeeded" => mode \in AllModes
  PROVE  Phases(Local(pc, mode, scan, dim, ino, seen))
<1> DEFINE l == Local(pc, mode, scan, dim, ino, seen)
<1>1. l.pc = pc /\ l.mode = mode
  BY DEF Local
<1>2. pc \notin FullPhases /\ pc \notin IncrementalPhases /\ pc \notin VerifyPhases /\ pc \notin Opened
  BY DEF Settled, FullPhases, CleanUpPhases, IncrementalPhases, VerifyPhases, Opened, OnDb
<1> HIDE DEF l
<1>3. Phases(l)
  BY <1>1, <1>2 DEF Phases
<1> QED
  BY <1>3 DEF l

\* What a full run may become within its phases.
LEMMA FullFacts ==
  ASSUME IInv, NEW r \in Runners, runner[r].pc \in FullPhases \ Failing
  PROVE  /\ runner[r].mode = "full" /\ runner[r].dim \in Dims /\ "full" \in Modes
         /\ \A pc \in FullPhases \ Failing, scan \in Scans, ino \in Inodes \cup {None}, seen \in Scans :
              (pc \in {"begin", "persist", "flush tmp"} => ino \in Inodes)
              => Phases(Local(pc, runner[r].mode, scan, runner[r].dim, ino, seen))
<1>1. runner[r].mode = "full" /\ runner[r].dim \in Dims /\ "full" \in Modes
  BY DEF IInv, PhasesFit, Phases
<1> QED
  BY <1>1, PhasesOfFull

\* What an incremental run may become.
LEMMA IncrementalFacts ==
  ASSUME IInv, NEW r \in Runners, runner[r].pc \in IncrementalPhases
  PROVE  /\ runner[r].mode = "incremental" /\ runner[r].dim \in Dims /\ "incremental" \in Modes
         /\ \A pc \in IncrementalPhases, scan \in Scans, ino \in Inodes \cup {None}, seen \in Scans :
              (pc \in OnDb => ino \in Inodes)
              => Phases(Local(pc, runner[r].mode, scan, runner[r].dim, ino, seen))
<1>1. runner[r].mode = "incremental" /\ runner[r].dim \in Dims /\ "incremental" \in Modes
  BY DEF IInv, PhasesFit, Phases
<1> QED
  BY <1>1, PhasesOfIncremental

\* By its phase a transaction is that of a full or of an incremental run.
LEMMA WriterFacts ==
  ASSUME IInv, NEW r \in Runners, runner[r].pc \in Transactions
  PROVE  /\ runner[r].ino \in Inodes /\ runner[r].dim \in Dims /\ NameOf(r) \in Names
         /\ runner[r].pc \in {"persist", "flush tmp"} => NameOf(r) = "tmp" /\ runner[r].mode = "full"
         /\ runner[r].pc \in {"writing", "flush db"} => NameOf(r) = "db" /\ runner[r].mode = "incremental"
         /\ runner[r].pc \in {"persist", "flush tmp"} \/ runner[r].pc \in {"writing", "flush db"}
<1>1. Phases(runner[r])
  BY RunnerFacts DEF IInv
<1>2. /\ runner[r].pc \in Opened
      /\ runner[r].pc \in {"persist", "flush tmp"} => runner[r].pc \in FullPhases \ Failing
      /\ runner[r].pc \in {"writing", "flush db"} => runner[r].pc \in IncrementalPhases
      /\ runner[r].pc \in {"persist", "flush tmp"} \/ runner[r].pc \in {"writing", "flush db"}
  BY DEF Transactions, Flushing, Opened, OnDb, FullPhases, IncrementalPhases, Failing
<1> QED
  BY <1>1, <1>2 DEF Phases, NameOf, Names

---------------------------------------------------------------------------
(* Steps that change no file and no name                                   *)

\* Such a step keeps the invariant if a transaction begins only on the right
\* file and alone, and a full run that goes on stays one.
LEMMA QuietStep ==
  ASSUME IInv, NEW r \in Runners,
         UNCHANGED <<path, file, journal, crashes, committed, overrun>>, Frame,
         runner' \in [Runners -> Runner], PhasesFit',
         \A s \in Runners : s # r => runner'[s] = runner[s],
         runner[r].pc \in FullPhases => runner'[r].pc \in FullPhases \/ path["tmp"] = None,
         runner'[r].pc \in OnDb => runner'[r].ino # path["tmp"],
         runner'[r].pc \in Transactions =>
           runner'[r].pc \in {"persist", "writing"} /\ ~Writing(runner'[r].ino),
         runner'[r].pc = "writing" => runner'[r].ino = path["db"],
         runner'[r].pc = "persist" => runner'[r].ino # path["db"]
  PROVE  IInv'
<1>1. Typed'
  <2>1. source' \in Scans /\ model' \in Dims
    BY DEF IInv, Typed, TypeOK, Frame
  <2> QED
    BY <2>1 DEF IInv, Typed, TypeOK
<1>2. TmpOnlyDuringFull'
  <2> SUFFICES ASSUME path["tmp"] # None, crashes = 0 PROVE \E s \in Runners : runner'[s].pc \in FullPhases
    BY DEF TmpOnlyDuringFull
  <2>1. PICK s \in Runners : runner[s].pc \in FullPhases
    BY DEF IInv, TmpOnlyDuringFull
  <2> QED
    BY <2>1
<1>3. TmpNamed'
  BY DEF IInv, TmpNamed
<1>4. OneWriter'
  BY DEF IInv, OneWriter, Writing
<1>5. ASSUME ~overrun PROVE Kept'
  <2>1. Kept
    BY <1>5 DEF IInv
  <2>2. \A s \in Runners : Holds(runner[s])'
    <3>1. Holds(runner[r])'
      BY DEF Holds, Transactions, Flushing
    <3>2. \A s \in Runners : s # r => Holds(runner[s])'
      BY <2>1 DEF Kept, Holds
    <3> QED
      BY <3>1, <3>2
  <2> QED
    BY <2>1, <2>2 DEF Kept
<1> QED
  BY <1>1, <1>2, <1>3, <1>4, <1>5 DEF IInv

\* Such a step of a runner that goes on.
LEMMA QuietSets ==
  ASSUME IInv, NEW r \in Runners,
         NEW pc \in AllPhases,
         NEW scan \in Scans, NEW ino \in Inodes \cup {None}, NEW seen \in Scans,
         Sets(r, pc, scan, ino, seen),
         UNCHANGED <<path, file, journal, crashes, committed, overrun>>, Frame,
         Phases(Local(pc, runner[r].mode, scan, runner[r].dim, ino, seen)),
         runner[r].pc \in FullPhases => pc \in FullPhases \/ path["tmp"] = None,
         pc \in OnDb => ino # path["tmp"],
         pc \in Transactions => pc \in {"persist", "writing"} /\ ~Writing(ino),
         pc = "writing" => ino = path["db"],
         pc = "persist" => ino # path["db"]
  PROVE  IInv'
<1>1. /\ runner' \in [Runners -> Runner] /\ PhasesFit'
      /\ runner'[r].pc = pc /\ runner'[r].ino = ino
      /\ \A s \in Runners : s # r => runner'[s] = runner[s]
  BY SetsFacts DEF IInv
<1> QED
  BY <1>1, QuietStep

\* A runner begins.
LEMMA QuietBegun ==
  ASSUME IInv, NEW r \in Runners, runner[r].pc \in Settled,
         NEW pc \in {"scan", "unlink first", "open db", "validate"}, NEW mode \in AllModes,
         NEW scan \in Scans, NEW dim \in Dims \cup {AnyDim},
         Becomes(r, Begun(pc, mode, scan, dim)), Phases(Begun(pc, mode, scan, dim)),
         UNCHANGED <<path, file, journal, crashes, committed, overrun>>, Frame
  PROVE  IInv'
<1> DEFINE l == Local(pc, mode, scan, dim, None, NoScan)
<1>1. /\ pc \in AllPhases /\ pc \notin OnDb /\ pc \notin Transactions /\ runner[r].pc \notin FullPhases
  BY DEF AllPhases, Settled, FullPhases, CleanUpPhases, IncrementalPhases, VerifyPhases, OnDb,
         Transactions, Flushing
<1>2. Becomes(r, l) /\ Phases(l) /\ l \in Runner /\ l.pc = pc
  BY <1>1, EmptyTyped, LocalTyped DEF Begun, Local
<1> HIDE DEF l
<1>3. /\ runner' \in [Runners -> Runner] /\ PhasesFit' /\ runner'[r].pc = pc
      /\ \A s \in Runners : s # r => runner'[s] = runner[s]
  BY <1>2, BecomesFacts DEF IInv
<1> QED
  BY <1>1, <1>3, QuietStep

\* Any run begins.
LEMMA QuietStart ==
  ASSUME IInv, NEW r \in Runners,
         StartFull(r) \/ StartIncremental(r) \/ \E e \in Dims \cup {AnyDim} : StartVerify(r, e)
  PROVE  IInv'
PROOF
<1>1. /\ source \in Scans /\ NoScan \in Scans /\ model \in Dims
      /\ "full" \in AllModes /\ "incremental" \in AllModes /\ "verify" \in AllModes
  BY EmptyTyped DEF IInv, Typed, TypeOK, AllModes
<1>2. CASE StartFull(r)
  <2>1. PICK pc \in {"scan", "unlink first"} : Becomes(r, Begun(pc, "full", NoScan, model))
    BY <1>2 DEF StartFull
  <2>2. pc \in FullPhases \ Failing /\ pc \notin {"begin", "persist", "flush tmp"}
    BY DEF FullPhases, Failing
  <2>3. Phases(Begun(pc, "full", NoScan, model))
    BY <1>1, <1>2, <2>2, PhasesOfFull DEF StartFull, Begun
  <2> QED
    BY <1>1, <1>2, <2>1, <2>3, QuietBegun DEF StartFull
<1>3. CASE StartIncremental(r)
  <2>1. "open db" \in IncrementalPhases \ OnDb
    BY DEF IncrementalPhases, OnDb
  <2>2. Phases(Begun("open db", "incremental", source, model))
    BY <1>1, <1>3, <2>1, PhasesOfIncremental DEF StartIncremental, Begun
  <2> QED
    BY <1>1, <1>3, <2>2, QuietBegun DEF StartIncremental
<1>4. ASSUME NEW e \in Dims \cup {AnyDim}, StartVerify(r, e) PROVE IInv'
  <2>1. "validate" \in VerifyPhases
    BY DEF VerifyPhases
  <2>2. Phases(Begun("validate", "verify", NoScan, e))
    BY <2>1, PhasesOfVerify DEF Begun
  <2> QED
    BY <1>1, <1>4, <2>2, QuietBegun DEF StartVerify
<1> QED
  BY <1>2, <1>3, <1>4

\* A full run scans, checks itself, finds nothing to clean up, and begins its
\* transaction on the file that is called rag.db.tmp, which is not rag.db.
LEMMA QuietFull ==
  ASSUME IInv, NEW r \in Runners, ScanFull(r) \/ SelfCheck(r) \/ BeginPersist(r)
  PROVE  IInv'
PROOF
<1>1. LET l == runner[r] IN
      /\ l.scan \in Scans /\ l.ino \in Inodes \cup {None} /\ l.seen \in Scans
      /\ l.pc = "begin" => l.ino \in Inodes
  BY RunnerFacts DEF IInv, Phases, Opened
<1>2. /\ {"scan", "open tmp", "self-check", "replace", "begin", "persist"} \subseteq FullPhases \ Failing
      /\ {"scan", "open tmp", "self-check", "replace", "begin", "persist"} \subseteq AllPhases
      /\ {"open tmp", "replace", "persist"} \cap OnDb = {}
      /\ "open tmp" \notin Transactions /\ "replace" \notin Transactions
  BY DEF FullPhases, Failing, AllPhases, OnDb, Transactions, Flushing
<1>3. CASE ScanFull(r)
  <2>1. source \in Scans /\ NoScan \in Scans
    BY EmptyTyped DEF IInv, Typed, TypeOK
  <2>2. Phases(Local("open tmp", runner[r].mode, source, runner[r].dim, None, NoScan))
    BY <1>2, <1>3, <2>1, FullFacts DEF ScanFull
  <2> QED
    BY <1>2, <1>3, <2>1, <2>2, QuietSets DEF ScanFull
<1>4. CASE SelfCheck(r)
  <2>1. Phases(Local("replace", runner[r].mode, runner[r].scan, runner[r].dim, runner[r].ino, runner[r].seen))
    BY <1>1, <1>2, <1>4, FullFacts DEF SelfCheck
  <2> QED
    BY <1>1, <1>2, <1>4, <2>1, QuietSets DEF SelfCheck, Moves
<1>5. CASE BeginPersist(r)
  <2>1. runner[r].ino \in Inodes
    BY <1>1, <1>5 DEF BeginPersist
  <2>2. Phases(Local("persist", runner[r].mode, runner[r].scan, runner[r].dim, runner[r].ino, runner[r].seen))
    BY <1>1, <1>2, <1>5, <2>1, FullFacts DEF BeginPersist
  <2>3. runner[r].ino # path["db"] /\ ~Writing(runner[r].ino)
    BY <1>5, <2>1, Naming DEF BeginPersist, IInv
  <2>4. Sets(r, "persist", runner[r].scan, runner[r].ino, runner[r].seen)
    BY <1>5 DEF BeginPersist, Moves
  <2>5. UNCHANGED <<path, file, journal, crashes, committed, overrun>> /\ Frame
    BY <1>5 DEF BeginPersist
  <2> QED
    BY <1>1, <1>2, <2>2, <2>3, <2>4, <2>5, QuietSets
<1> QED
  BY <1>3, <1>4, <1>5

\* The finally clause looks for rag.db.tmp.
LEMMA QuietCleanUp ==
  ASSUME IInv, NEW r \in Runners, CleanUp(r)
  PROVE  IInv'
PROOF
<1>1. UNCHANGED <<path, file, journal, crashes, committed, overrun>> /\ Frame
  BY DEF CleanUp
<1>2. LET l == runner[r] IN l.scan \in Scans /\ l.ino \in Inodes \cup {None} /\ l.seen \in Scans
  BY RunnerFacts DEF IInv
<1>3. /\ "clean up ok" \in FullPhases \ Failing /\ "unlink ok" \in FullPhases \ Failing
      /\ "unlink failed" \in FullPhases /\ "unlink failed" \in Failing /\ "clean up failed" \in FullPhases
      /\ "succeeded" \in Settled
      /\ {"unlink ok", "succeeded"} \subseteq AllPhases
      /\ {"unlink ok", "succeeded", "unlink failed", "failed"} \cap (OnDb \cup Transactions) = {}
  BY DEF FullPhases, CleanUpPhases, Failing, Settled, AllPhases, OnDb, Transactions, Flushing
<1>4. CASE runner[r].pc = "clean up ok" /\ path["tmp"] = None /\ Moves(r, "succeeded")
  <2>1. Phases(Local("succeeded", runner[r].mode, runner[r].scan, runner[r].dim, runner[r].ino, runner[r].seen))
    BY <1>3, <1>4, FullFacts, PhasesOfSettled DEF AllModes
  <2> QED
    BY <1>1, <1>2, <1>3, <1>4, <2>1, QuietSets DEF Moves
<1>5. CASE runner[r].pc = "clean up ok" /\ Moves(r, "unlink ok")
  <2>1. Phases(Local("unlink ok", runner[r].mode, runner[r].scan, runner[r].dim, runner[r].ino, runner[r].seen))
    BY <1>2, <1>3, <1>5, FullFacts
  <2> QED
    BY <1>1, <1>2, <1>3, <1>5, <2>1, QuietSets DEF Moves
<1>6. ASSUME NEW pc \in {"failed", "unlink failed"}, runner[r].pc = "clean up failed", Becomes(r, Ended(pc)),
             pc = "failed" => path["tmp"] = None
      PROVE  IInv'
  <2>1. "full" \in Modes
    BY <1>3, <1>6 DEF IInv, PhasesFit, Phases
  <2>2. Ended(pc) \in Runner /\ Phases(Ended(pc)) /\ Ended(pc).pc = pc
    BY <2>1, EndedFacts DEF Failing
  <2>3. /\ runner' \in [Runners -> Runner] /\ PhasesFit' /\ runner'[r].pc = pc
        /\ \A s \in Runners : s # r => runner'[s] = runner[s]
    BY <1>6, <2>2, BecomesFacts DEF IInv
  <2> QED
    BY <1>1, <1>3, <1>6, <2>3, QuietStep
<1> QED
  BY <1>4, <1>5, <1>6 DEF CleanUp

\* An incremental run finds nothing to write, begins its transaction on
\* rag.db, or reports.
LEMMA QuietIncremental ==
  ASSUME IInv, NEW r \in Runners, CommitNothing(r) \/ BeginWrite(r) \/ Report(r)
  PROVE  IInv'
PROOF
<1>1. LET l == runner[r] IN
      /\ l.scan \in Scans /\ l.ino \in Inodes \cup {None} /\ l.seen \in Scans
      /\ l.pc = "classified" => l.ino \in Inodes
  BY RunnerFacts DEF IInv, Phases, Opened, OnDb
<1>2. /\ {"classified", "stats", "writing"} \subseteq IncrementalPhases /\ "succeeded" \in Settled
      /\ {"stats", "writing", "succeeded"} \subseteq AllPhases
      /\ "classified" \notin FullPhases /\ "stats" \notin FullPhases
      /\ "classified" \in OnDb /\ "stats" \in OnDb /\ "succeeded" \notin OnDb
      /\ "stats" \notin Transactions /\ "succeeded" \notin Transactions
  BY DEF IncrementalPhases, Settled, FullPhases, CleanUpPhases, AllPhases, OnDb, Transactions, Flushing
<1>3. runner[r].pc = "classified" => runner[r].ino # path["tmp"]
  BY <1>2 DEF IInv, TmpNamed
<1>4. CASE CommitNothing(r)
  <2>1. Phases(Local("stats", runner[r].mode, runner[r].scan, runner[r].dim, runner[r].ino, runner[r].seen))
    BY <1>1, <1>2, <1>4, IncrementalFacts DEF CommitNothing
  <2> QED
    BY <1>1, <1>2, <1>3, <1>4, <2>1, QuietSets DEF CommitNothing, Moves
<1>5. CASE BeginWrite(r)
  <2>1. Phases(Local("writing", runner[r].mode, runner[r].scan, runner[r].dim, runner[r].ino, runner[r].seen))
    BY <1>1, <1>2, <1>5, IncrementalFacts DEF BeginWrite
  <2>2. runner[r].ino = path["db"] /\ ~Writing(runner[r].ino) /\ runner[r].pc = "classified"
    BY <1>5 DEF BeginWrite
  <2>3. Sets(r, "writing", runner[r].scan, runner[r].ino, runner[r].seen)
    BY <1>5 DEF BeginWrite, Moves
  <2>4. UNCHANGED <<path, file, journal, crashes, committed, overrun>> /\ Frame
    BY <1>5 DEF BeginWrite
  <2> QED
    BY <1>1, <1>2, <1>3, <2>1, <2>2, <2>3, <2>4, QuietSets
<1>6. CASE Report(r)
  <2>1. Phases(Local("succeeded", runner[r].mode, runner[r].scan, runner[r].dim, None, runner[r].seen))
    BY <1>2, <1>6, IncrementalFacts, PhasesOfSettled DEF Report, AllModes
  <2> QED
    BY <1>1, <1>2, <1>6, <2>1, QuietSets DEF Report
<1> QED
  BY <1>4, <1>5, <1>6

\* A verify run changes nothing.
LEMMA QuietVerify ==
  ASSUME IInv, NEW r \in Runners,
         CountChunks(r) \/ CompareDims(r) \/ SampleQuery(r) \/ SkipSampleQuery(r)
  PROVE  IInv'
PROOF
<1>1. LET l == runner[r] IN l.scan \in Scans /\ l.ino \in Inodes \cup {None} /\ l.seen \in Scans
  BY RunnerFacts DEF IInv
<1>2. /\ {"validate", "dims", "sample query"} \subseteq VerifyPhases /\ "succeeded" \in Settled
      /\ {"validate", "dims", "sample query"} \cap FullPhases = {}
      /\ {"dims", "sample query", "succeeded"} \subseteq AllPhases
      /\ {"dims", "sample query", "succeeded"} \cap Transactions = {}
      /\ "sample query" \notin OnDb /\ "succeeded" \notin OnDb
  BY DEF VerifyPhases, Settled, FullPhases, CleanUpPhases, AllPhases, Transactions, Flushing, OnDb
<1>3. runner[r].pc \in {"validate", "dims", "sample query"} => runner[r].mode = "verify"
  BY <1>2 DEF IInv, PhasesFit, Phases
<1>4. UNCHANGED <<path, file, journal, crashes, committed, overrun>> /\ Frame
  BY DEF CountChunks, CompareDims, SampleQuery, SkipSampleQuery
<1>5. CASE CountChunks(r)
  <2>1. path["db"] \in Inodes /\ path["db"] # path["tmp"]
    BY <1>5, Naming DEF CountChunks, IInv
  <2>2. Phases(Local("dims", runner[r].mode, runner[r].scan, runner[r].dim, path["db"], runner[r].seen))
    BY <1>2, <1>3, <1>5, <2>1, PhasesOfVerify DEF CountChunks
  <2>3. Sets(r, "dims", runner[r].scan, path["db"], runner[r].seen) /\ runner[r].pc \notin FullPhases
    BY <1>2, <1>5 DEF CountChunks
  <2> QED
    BY <1>1, <1>2, <1>4, <2>1, <2>2, <2>3, QuietSets
<1>6. CASE CompareDims(r)
  <2>1. Phases(Local("sample query", runner[r].mode, runner[r].scan, runner[r].dim, None, runner[r].seen))
    BY <1>2, <1>3, <1>6, PhasesOfVerify DEF CompareDims
  <2>2. Sets(r, "sample query", runner[r].scan, None, runner[r].seen) /\ runner[r].pc \notin FullPhases
    BY <1>2, <1>6 DEF CompareDims
  <2> QED
    BY <1>1, <1>2, <1>4, <2>1, <2>2, QuietSets
<1>7. CASE SampleQuery(r) \/ SkipSampleQuery(r)
  <2>1. Phases(Local("succeeded", runner[r].mode, runner[r].scan, runner[r].dim, runner[r].ino, runner[r].seen))
    BY <1>2, <1>3, <1>7, PhasesOfSettled DEF SampleQuery, SkipSampleQuery, AllModes
  <2>2. /\ Sets(r, "succeeded", runner[r].scan, runner[r].ino, runner[r].seen)
        /\ runner[r].pc \notin FullPhases
    BY <1>2, <1>7 DEF SampleQuery, SkipSampleQuery, Moves
  <2> QED
    BY <1>1, <1>2, <1>4, <2>1, <2>2, QuietSets
<1> QED
  BY <1>5, <1>6, <1>7

---------------------------------------------------------------------------
(* Steps of the surroundings and of SQLite                                 *)

\* Editing a document or choosing another model touches neither files nor
\* runners.
LEMMA SurroundingsStep ==
  ASSUME IInv, \/ \E d \in Docs, v \in Versions \cup {None} : EditDoc(d, v)
               \/ \E m \in Dims : ChangeModel(m)
  PROVE  IInv'
PROOF
<1>1. UNCHANGED <<path, file, journal, runner, crashes, committed, overrun>>
  BY DEF EditDoc, ChangeModel
<1>2. source' \in Scans /\ model' \in Dims
  BY DEF EditDoc, ChangeModel, IInv, Typed, TypeOK, Scans
<1>3. Typed' /\ PhasesFit'
  BY <1>1, <1>2 DEF IInv, Typed, TypeOK, PhasesFit
<1>4. TmpOnlyDuringFull' /\ TmpNamed' /\ OneWriter'
  BY <1>1 DEF IInv, TmpOnlyDuringFull, TmpNamed, OneWriter
<1>5. ~overrun => Kept'
  BY <1>1 DEF IInv, Kept, Holds
<1> QED
  BY <1>1, <1>3, <1>4, <1>5 DEF IInv

\* Recovery puts back what the file held before the transaction, if the
\* journal is its own, as it is unless something was overrun.
LEMMA RecoverStep ==
  ASSUME IInv, NEW n \in Names, Recover(n)
  PROVE  IInv'
PROOF
<1>1. /\ UNCHANGED <<path, runner, crashes, committed, overrun>> /\ Frame
      /\ journal' = [journal EXCEPT ![n] = None] /\ journal[n] # None /\ path[n] # None
      /\ ~Writing(path[n])
  BY DEF Recover, Hot
<1>2. path[n] \in Inodes /\ journal[n].ino \in Inodes /\ journal[n].before \in Index
  BY <1>1, Naming DEF IInv, Names
<1>3. PICK x \in Overwritten(path[n], journal[n]) : file' = [file EXCEPT ![path[n]] = x]
  BY <1>1 DEF Recover, Recovered, Hot
<1>4. x \in Index \cup {Damaged} /\ (journal[n].ino = path[n] => x = file[path[n]])
  BY <1>2, <1>3 DEF Overwritten, IInv, Typed
<1>5. /\ file' \in [Inodes -> Index \cup {Damaged}]
      /\ journal' = [m \in Names |-> journal'[m]] /\ journal'[n] = None
      /\ \A m \in Names : m # n => journal'[m] = journal[m]
  BY <1>1, <1>2, <1>3, <1>4 DEF IInv, Typed
<1>6. Typed' /\ PhasesFit' /\ TmpOnlyDuringFull'
  BY <1>1, <1>5 DEF IInv, Typed, TypeOK, Frame, PhasesFit, TmpOnlyDuringFull
<1>7. TmpNamed' /\ OneWriter'
  BY <1>1, <1>5 DEF IInv, TmpNamed, OneWriter, Names
<1>8. ASSUME ~overrun PROVE Kept'
  <2>1. Kept /\ journal[n].ino = path[n]
    BY <1>1, <1>8 DEF IInv, Kept, TmpNamed, Names
  <2>2. file' = file
    BY <1>2, <1>3, <1>4, <2>1 DEF IInv, Typed
  <2>3. ASSUME NEW s \in Runners PROVE Holds(runner[s])'
    <3>1. Holds(runner[s]) /\ (runner[s].pc \in Flushing => runner[s].ino # path[n])
      BY <1>1, <2>1 DEF Kept, Writing, Transactions
    <3> QED
      BY <1>1, <1>5, <3>1 DEF Holds, Flushing, Names
  <2> QED
    BY <1>1, <1>5, <2>1, <2>2, <2>3 DEF Kept, Names
<1> QED
  BY <1>1, <1>6, <1>7, <1>8 DEF IInv

\* After a connection has taken the journal of another file nothing more is
\* promised.
LEMMA TakeJournalStep ==
  ASSUME IInv, NEW r \in Runners, TakeJournal(r)
  PROVE  IInv'
PROOF
<1> DEFINE n == NameOf(r)
           i == runner[r].ino
           j == journal[n]
<1>1. /\ n \in Names /\ i \in Inodes /\ j # None /\ path[n] # None /\ path[n] # i
  BY RunnerFacts DEF IInv, TakeJournal, NameOf, Names, Phases, Opened, OnDb
<1>2. path[n] \in Inodes /\ j.before \in Index
  BY <1>1, Naming DEF IInv, Names
<1>3. /\ UNCHANGED <<path, runner, crashes, committed>> /\ Frame /\ overrun' = TRUE
      /\ journal' = [journal EXCEPT ![n] = None]
  BY DEF TakeJournal
<1>4. PICK x \in Overwritten(i, j),
           y \in IF j.ino # path[n] \/ Writing(path[n]) THEN {file[path[n]]} ELSE Torn(path[n]) :
        file' = [file EXCEPT ![i] = x, ![path[n]] = y]
  BY DEF TakeJournal
<1>5. file \in [Inodes -> Index \cup {Damaged}]
  BY DEF IInv, Typed
<1> HIDE DEF n, i, j
<1>6. x \in Index \cup {Damaged} /\ y \in Index \cup {Damaged}
  BY <1>1, <1>2, <1>4, <1>5 DEF Overwritten, Torn
<1>7. file' \in [Inodes -> Index \cup {Damaged}]
  BY <1>1, <1>2, <1>4, <1>5, <1>6
<1>8. /\ journal' = [m \in Names |-> journal'[m]] /\ journal'[n] = None
      /\ \A m \in Names : m # n => journal'[m] = journal[m]
  BY <1>1, <1>3 DEF IInv, Typed
<1>9. Typed' /\ PhasesFit' /\ TmpOnlyDuringFull'
  BY <1>3, <1>7, <1>8 DEF IInv, Typed, TypeOK, Frame, PhasesFit, TmpOnlyDuringFull
<1>10. TmpNamed' /\ OneWriter'
  BY <1>1, <1>3, <1>8 DEF IInv, TmpNamed, OneWriter, Names
<1> QED
  BY <1>3, <1>9, <1>10 DEF IInv

\* Commit and rollback unlink one journal.
LEMMA UnlinksFacts ==
  ASSUME IInv, NEW r \in Runners, runner[r].pc \in Transactions, UnlinksJournal(r)
  PROVE  /\ overrun' \in BOOLEAN /\ journal' = [n \in Names |-> journal'[n]]
         /\ journal'[NameOf(r)] = None
         /\ \A n \in Names : n # NameOf(r) => journal'[n] = journal[n]
         /\ ~overrun' => ~overrun /\ (journal[NameOf(r)] = None \/ journal[NameOf(r)].ino = runner[r].ino)
<1>1. NameOf(r) \in Names
  BY WriterFacts
<1> QED
  BY <1>1 DEF UnlinksJournal, IInv, Typed, TypeOK

\* It is that of their own file, and no other transaction loses its journal.
LEMMA TransactionEnds ==
  ASSUME IInv, NEW r \in Runners, runner[r].pc \in Transactions, UnlinksJournal(r),
         UNCHANGED path, \A s \in Runners : s # r => runner'[s] = runner[s],
         runner'[r].pc \notin Transactions, runner'[r].pc \in OnDb => runner'[r].ino # path["tmp"]
  PROVE  /\ TmpNamed' /\ OneWriter'
         /\ ~overrun' => /\ ~overrun /\ Kept
                         /\ journal'["db"] # None => path["db"] # None /\ journal'["db"].ino = path["db"]
                         /\ \A s \in Runners : Holds(runner[s])'
PROOF
<1>1. /\ journal'[NameOf(r)] = None /\ NameOf(r) \in Names
      /\ \A n \in Names : n # NameOf(r) => journal'[n] = journal[n]
  BY UnlinksFacts, WriterFacts
<1>2. TmpNamed'
  BY <1>1 DEF IInv, TmpNamed, Names
<1>3. OneWriter'
  BY DEF IInv, OneWriter
<1>4. ASSUME ~overrun'
      PROVE  /\ ~overrun /\ Kept
             /\ journal'["db"] # None => path["db"] # None /\ journal'["db"].ino = path["db"]
             /\ \A s \in Runners : Holds(runner[s])'
  <2>1. /\ ~overrun /\ Kept
        /\ journal[NameOf(r)] = None \/ journal[NameOf(r)].ino = runner[r].ino
    BY <1>4, UnlinksFacts DEF IInv
  <2>2. journal'["db"] # None => path["db"] # None /\ journal'["db"].ino = path["db"]
    BY <1>1, <2>1 DEF Kept, Names
  <2>3. Holds(runner[r])'
    BY DEF Holds, Transactions, Flushing
  <2>4. ASSUME NEW s \in Runners, s # r PROVE Holds(runner[s])'
    <3>1. Holds(runner[s]) /\ Holds(runner[r]) /\ runner'[s] = runner[s]
      BY <2>1, <2>4 DEF Kept
    <3>2. runner[s].pc \in Transactions => runner[s].ino # runner[r].ino
      BY <2>4 DEF IInv, OneWriter
    <3>3. runner[s].pc = "flush db" => journal'["db"] # None
      <4> SUFFICES ASSUME runner[s].pc = "flush db" PROVE journal'["db"] # None
        OBVIOUS
      <4>1. runner[s].ino = path["db"] /\ journal["db"] # None /\ runner[r].ino # path["db"]
        BY <3>1, <3>2 DEF Holds, Transactions, Flushing
      <4>2. runner[r].pc \notin {"writing", "flush db"}
        BY <3>1, <4>1 DEF Holds
      <4>3. NameOf(r) = "tmp"
        BY <4>2, WriterFacts
      <4> QED
        BY <1>1, <4>1, <4>3 DEF Names
    <3>4. runner[s].pc = "flush tmp" /\ runner[s].ino = path["tmp"] => journal'["tmp"] # None
      <4> SUFFICES ASSUME runner[s].pc = "flush tmp", runner[s].ino = path["tmp"] PROVE journal'["tmp"] # None
        OBVIOUS
      <4>1. journal["tmp"] # None /\ journal["tmp"].ino = path["tmp"] /\ runner[r].ino # path["tmp"]
        BY <3>1, <3>2 DEF Holds, IInv, TmpNamed, Transactions, Flushing
      <4>2. NameOf(r) # "tmp"
        BY <2>1, <4>1
      <4> QED
        BY <1>1, <4>1, <4>2 DEF Names
    <3> QED
      BY <3>1, <3>3, <3>4 DEF Holds
  <2> QED
    BY <2>1, <2>2, <2>3, <2>4
<1> QED
  BY <1>2, <1>3, <1>4

\* Pages are written: the journal, if there can be one, is there.
LEMMA FlushStep ==
  ASSUME IInv, NEW r \in Runners, Flush(r)
  PROVE  IInv'
PROOF
<1> DEFINE i == runner[r].ino
           pc == IF runner[r].pc = "persist" THEN "flush tmp" ELSE "flush db"
<1>1. /\ runner[r].pc \in Transactions /\ runner[r].pc \in {"persist", "writing"} /\ file[i] # Damaged
      /\ UNCHANGED <<path, file, crashes, committed, overrun>> /\ Frame
  BY DEF Flush, Transactions
<1>2. /\ i \in Inodes /\ NameOf(r) \in Names /\ file[i] \in Index
      /\ runner[r].pc = "persist" => NameOf(r) = "tmp"
      /\ runner[r].pc = "writing" => NameOf(r) = "db" /\ i # path["tmp"]
  BY <1>1, WriterFacts DEF IInv, Typed, TmpNamed, OnDb
<1>3. /\ runner' \in [Runners -> Runner] /\ PhasesFit'
      /\ runner'[r].pc = pc /\ runner'[r].ino = i
      /\ \A s \in Runners : s # r => runner'[s] = runner[s]
  <2>1. LET l == runner[r] IN l.scan \in Scans /\ l.ino \in Inodes \cup {None} /\ l.seen \in Scans
    BY RunnerFacts DEF IInv
  <2>2. /\ runner[r].pc = "persist" => runner[r].pc \in FullPhases \ Failing /\ pc \in FullPhases \ Failing
        /\ runner[r].pc = "writing" => runner[r].pc \in IncrementalPhases /\ pc \in IncrementalPhases
        /\ pc \in AllPhases
    BY <1>1 DEF FullPhases, Failing, IncrementalPhases, AllPhases
  <2>3. Phases(Local(pc, runner[r].mode, runner[r].scan, runner[r].dim, runner[r].ino, runner[r].seen))
    BY <1>1, <1>2, <2>1, <2>2, FullFacts, IncrementalFacts
  <2>4. Sets(r, pc, runner[r].scan, runner[r].ino, runner[r].seen)
    BY DEF Flush, Moves
  <2> HIDE DEF pc, i
  <2> QED
    BY <2>1, <2>2, <2>3, <2>4, SetsFacts DEF IInv, i
<1>4. journal' = IF NameOf(r) = "tmp" /\ path["tmp"] # i THEN journal
                 ELSE [journal EXCEPT ![NameOf(r)] = [ino |-> i, before |-> file[i]]]
  BY DEF Flush
<1>5. [ino |-> i, before |-> file[i]] # None /\ [ino |-> i, before |-> file[i]] \in Journal
  BY <1>2, NoneIsNoIndex DEF Journal
<1> HIDE DEF i
<1>6. /\ journal' = [n \in Names |-> journal'[n]]
      /\ \A n \in Names : n # NameOf(r) => journal'[n] = journal[n]
      /\ NameOf(r) # "tmp" \/ path["tmp"] = i =>
           journal'[NameOf(r)] # None /\ journal'[NameOf(r)].ino = i /\ journal'[NameOf(r)] \in Journal
      /\ NameOf(r) = "tmp" /\ path["tmp"] # i => journal' = journal
  BY <1>2, <1>4, <1>5 DEF IInv, Typed
<1> HIDE DEF pc
<1>7. Typed'
  BY <1>1, <1>2, <1>3, <1>6 DEF IInv, Typed, TypeOK, Frame
<1>8. pc \in {"flush tmp", "flush db"} /\ (runner[r].pc \in FullPhases => pc \in FullPhases)
      /\ (pc = "flush db" => runner[r].pc = "writing") /\ (pc = "flush tmp" => runner[r].pc = "persist")
  BY <1>1 DEF pc, FullPhases, CleanUpPhases
<1>9. TmpOnlyDuringFull'
  BY <1>1, <1>3, <1>8 DEF IInv, TmpOnlyDuringFull
<1>10. TmpNamed'
  <2>1. journal'["tmp"] # None => path["tmp"] # None /\ journal'["tmp"].ino = path["tmp"]
    BY <1>2, <1>6, Naming DEF IInv, TmpNamed, Names
  <2>2. \A s \in Runners : runner'[s].pc \in OnDb => runner'[s].ino # path["tmp"]
    BY <1>1, <1>2, <1>3, <1>8 DEF IInv, TmpNamed, OnDb
  <2> QED
    BY <1>1, <2>1, <2>2 DEF TmpNamed
<1>11. OneWriter'
  BY <1>1, <1>3 DEF IInv, OneWriter, i
<1>12. ASSUME ~overrun PROVE Kept'
  <2>1. Kept /\ Holds(runner[r])
    BY <1>12 DEF IInv, Kept
  <2>2. journal'["db"] # None => path["db"] # None /\ journal'["db"].ino = path["db"]
    BY <1>1, <1>2, <1>6, <2>1, Naming DEF Kept, Holds, Names, IInv, i
  <2>3. Holds(runner[r])'
    BY <1>1, <1>2, <1>3, <1>6, <1>8, <2>1 DEF Holds, i
  <2>4. ASSUME NEW s \in Runners, s # r PROVE Holds(runner[s])'
    <3>1. Holds(runner[s]) /\ runner'[s] = runner[s]
      BY <1>3, <2>1, <2>4 DEF Kept
    <3>2. /\ journal["db"] # None => journal'["db"] # None
          /\ journal["tmp"] # None => journal'["tmp"] # None
      BY <1>2, <1>6 DEF Names
    <3> QED
      BY <1>1, <3>1, <3>2 DEF Holds
  <2> QED
    BY <1>1, <2>1, <2>2, <2>3, <2>4 DEF Kept
<1> QED
  BY <1>1, <1>3, <1>7, <1>9, <1>10, <1>11, <1>12 DEF IInv

---------------------------------------------------------------------------
(* Steps of the file system                                                *)

\* A runner unlinks rag.db.tmp, before its work or after it: the name goes,
\* and the journal.
LEMMA UnlinkStep ==
  ASSUME IInv, NEW r \in Runners, Unlink(r)
  PROVE  IInv'
PROOF
<1>1. LET l == runner[r] IN l.scan \in Scans /\ l.ino \in Inodes \cup {None} /\ l.seen \in Scans
  BY RunnerFacts DEF IInv
<1>2. /\ "unlink first" \in FullPhases \ Failing /\ "unlink ok" \in FullPhases \ Failing
      /\ "scan" \in FullPhases \ Failing /\ "succeeded" \in Settled
      /\ {"scan", "succeeded"} \subseteq AllPhases
      /\ {"scan", "succeeded", "failed"} \cap (OnDb \cup Transactions) = {}
  BY DEF FullPhases, CleanUpPhases, Failing, Settled, AllPhases, OnDb, Transactions, Flushing
<1>3. /\ runner' \in [Runners -> Runner] /\ PhasesFit'
      /\ runner'[r].pc \in {"scan", "succeeded", "failed"}
      /\ \A s \in Runners : s # r => runner'[s] = runner[s]
  <2>1. CASE runner[r].pc = "unlink first" /\ Moves(r, "scan")
    <3>1. Phases(Local("scan", runner[r].mode, runner[r].scan, runner[r].dim, runner[r].ino, runner[r].seen))
      BY <1>1, <1>2, <2>1, FullFacts
    <3> QED
      BY <1>1, <1>2, <2>1, <3>1, SetsFacts DEF Moves, IInv
  <2>2. CASE runner[r].pc = "unlink ok" /\ Moves(r, "succeeded")
    <3>1. Phases(Local("succeeded", runner[r].mode, runner[r].scan, runner[r].dim, runner[r].ino, runner[r].seen))
      BY <1>2, <2>2, FullFacts, PhasesOfSettled DEF AllModes
    <3> QED
      BY <1>1, <1>2, <2>2, <3>1, SetsFacts DEF Moves, IInv
  <2>3. CASE Becomes(r, Ended("failed"))
    <3>1. Ended("failed") \in Runner /\ Phases(Ended("failed")) /\ Ended("failed").pc = "failed"
      BY EndedFacts DEF Failing
    <3> QED
      BY <2>3, <3>1, BecomesFacts DEF IInv
  <2> QED
    BY <2>1, <2>2, <2>3 DEF Unlink
<1>4. UNCHANGED <<file, crashes, committed, overrun>> /\ Frame
  BY DEF Unlink
<1>5. /\ path' \in [Names -> Inodes \cup {None}] /\ path'["db"] = path["db"] /\ path'["tmp"] = None
      /\ journal' = [n \in Names |-> journal'[n]] /\ journal'["db"] = journal["db"]
      /\ journal'["tmp"] = None
  BY DEF Unlink, Nameless, IInv, Typed, TypeOK, Names
<1>6. Typed'
  BY <1>3, <1>4, <1>5 DEF IInv, Typed, TypeOK, Frame, Names
<1>7. TmpOnlyDuringFull'
  BY <1>5 DEF TmpOnlyDuringFull
<1>8. TmpNamed'
  <2>1. \A s \in Runners : runner'[s].pc \in OnDb => runner'[s].ino # None
    BY <1>3, RagIndexAssumption DEF PhasesFit, Phases, Opened
  <2> QED
    BY <1>5, <2>1 DEF TmpNamed
<1>9. OneWriter'
  BY <1>2, <1>3 DEF IInv, OneWriter
<1>10. ASSUME ~overrun PROVE Kept'
  <2>1. Kept
    BY <1>10 DEF IInv
  <2>2. ASSUME NEW s \in Runners PROVE Holds(runner[s])'
    <3>1. CASE s = r
      BY <1>3, <3>1 DEF Holds
    <3>2. CASE s # r
      <4>1. Holds(runner[s]) /\ runner'[s] = runner[s]
        BY <1>3, <2>1, <3>2 DEF Kept
      <4>2. runner[s].pc = "flush tmp" => runner[s].ino # None
        BY RagIndexAssumption DEF IInv, PhasesFit, Phases, Opened
      <4> QED
        BY <1>5, <4>1, <4>2 DEF Holds
    <3> QED
      BY <3>1, <3>2
  <2> QED
    BY <1>4, <1>5, <2>1, <2>2 DEF Kept
<1> QED
  BY <1>3, <1>4, <1>6, <1>7, <1>8, <1>9, <1>10 DEF IInv

\* A new file becomes rag.db.tmp.
LEMMA CreateTmp ==
  ASSUME IInv, NEW r \in Runners, path["tmp"] = None, Creates("tmp"),
         UNCHANGED <<journal, crashes, committed, overrun>>, Frame,
         runner' \in [Runners -> Runner], PhasesFit',
         \A s \in Runners : s # r => runner'[s] = runner[s],
         runner'[r].pc \in {"begin", "clean up failed"}
  PROVE  IInv'
PROOF
<1>1. /\ FreshInode \in Inodes /\ FreshInode # path["db"] /\ FreshInode # None
      /\ \A s \in Runners : runner[s].ino # FreshInode
      /\ journal["db"] = None \/ journal["db"].ino # FreshInode
  BY FreshFacts, RagIndexAssumption DEF Creates, Names
<1>2. /\ path' \in [Names -> Inodes \cup {None}]
      /\ path'["db"] = path["db"] /\ path'["tmp"] = FreshInode
  BY <1>1 DEF Creates, IInv, Typed, TypeOK, Names
<1>3. /\ file' \in [Inodes -> Index \cup {Damaged}] /\ file'[FreshInode] = EmptyIndex
      /\ \A i \in Inodes : i # FreshInode => file'[i] = file[i]
  BY <1>1, EmptyTyped DEF Creates, IInv, Typed
<1>4. Typed'
  BY <1>1, <1>2, <1>3 DEF IInv, Typed, TypeOK, Frame
<1>5. runner'[r].pc \in FullPhases /\ runner'[r].pc \notin OnDb /\ runner'[r].pc \notin Transactions
  BY DEF FullPhases, CleanUpPhases, OnDb, Transactions, Flushing
<1>6. TmpOnlyDuringFull'
  BY <1>5 DEF TmpOnlyDuringFull
<1>7. TmpNamed'
  BY <1>1, <1>2, <1>5 DEF IInv, TmpNamed
<1>8. OneWriter'
  BY <1>5 DEF IInv, OneWriter
<1>9. ASSUME ~overrun PROVE Kept'
  <2>1. Kept
    BY <1>9 DEF IInv
  <2>2. path["db"] # None => file'[path["db"]] = file[path["db"]]
    BY <1>1, <1>3, Naming DEF IInv
  <2>3. OneModel(file'[FreshInode])
    BY <1>3, EmptyIsOneModel
  <2>4. ASSUME NEW s \in Runners PROVE Holds(runner[s])'
    BY <1>1, <1>2, <2>1 DEF Holds, Kept
  <2> QED
    BY <1>1, <1>2, <2>1, <2>2, <2>3, <2>4 DEF Kept
<1> QED
  BY <1>4, <1>6, <1>7, <1>8, <1>9 DEF IInv

\* persist_sqlite_index opens rag.db.tmp, or makes it.
LEMMA OpenTmpStep ==
  ASSUME IInv, NEW r \in Runners, OpenTmp(r)
  PROVE  IInv'
PROOF
<1>1. LET l == runner[r] IN l.scan \in Scans /\ l.pc = "open tmp" /\ NoScan \in Scans
  BY RunnerFacts, EmptyTyped DEF IInv, OpenTmp
<1>2. /\ "begin" \in FullPhases \ Failing /\ "open tmp" \in FullPhases \ Failing /\ "begin" \in AllPhases
      /\ "begin" \notin OnDb /\ "begin" \notin Transactions
  BY DEF FullPhases, Failing, AllPhases, OnDb, Transactions, Flushing
<1>3. \A i \in Inodes : Phases(Local("begin", runner[r].mode, runner[r].scan, runner[r].dim, i, NoScan))
  BY <1>1, <1>2, FullFacts
<1>4. CASE /\ path["tmp"] # None
           /\ Sets(r, "begin", runner[r].scan, path["tmp"], NoScan)
           /\ UNCHANGED <<path, file>>
  <2>1. path["tmp"] \in Inodes
    BY <1>4, Naming DEF IInv
  <2> QED
    BY <1>1, <1>2, <1>3, <1>4, <2>1, QuietSets DEF OpenTmp
<1>5. CASE /\ path["tmp"] = None
           /\ Creates("tmp")
           /\ Sets(r, "begin", runner[r].scan, FreshInode, NoScan)
  <2>1. FreshInode \in Inodes
    BY <1>5, FreshFacts DEF Creates
  <2>2. /\ runner' \in [Runners -> Runner] /\ PhasesFit' /\ runner'[r].pc = "begin"
        /\ \A s \in Runners : s # r => runner'[s] = runner[s]
    BY <1>1, <1>2, <1>3, <1>5, <2>1, SetsFacts DEF IInv
  <2> QED
    BY <1>5, <2>2, CreateTmp DEF OpenTmp
<1> QED
  BY <1>4, <1>5 DEF OpenTmp

\* A self-check that finds no rag.db.tmp makes an empty one and fails.
LEMMA SelfCheckMissingStep ==
  ASSUME IInv, NEW r \in Runners, SelfCheckMissing(r)
  PROVE  IInv'
PROOF
<1>1. "full" \in Modes
  BY DEF SelfCheckMissing, FullPhases, IInv, PhasesFit, Phases
<1>2. LET l == Ended("clean up failed") IN l \in Runner /\ Phases(l) /\ l.pc = "clean up failed"
  BY <1>1, EndedFacts DEF Failing
<1>3. /\ runner' \in [Runners -> Runner] /\ PhasesFit' /\ runner'[r].pc = "clean up failed"
      /\ \A s \in Runners : s # r => runner'[s] = runner[s]
  BY <1>2, BecomesFacts DEF IInv, SelfCheckMissing
<1> QED
  BY <1>3, CreateTmp DEF SelfCheckMissing

\* The transaction of a full run fills a file that is not rag.db.
LEMMA CommitPersistStep ==
  ASSUME IInv, NEW r \in Runners, CommitPersist(r)
  PROVE  IInv'
PROOF
<1> DEFINE x == Embedded(runner[r].scan, runner[r].dim)
           i == runner[r].ino
<1>1. /\ runner[r].pc = "flush tmp" /\ runner[r].pc \in Transactions /\ UnlinksJournal(r)
      /\ file' = [file EXCEPT ![i] = x] /\ UNCHANGED <<path, crashes, committed>> /\ Frame
      /\ Sets(r, "self-check", runner[r].scan, None, NoScan)
  BY DEF CommitPersist, Transactions, Flushing
<1>2. runner[r].scan \in Scans /\ i \in Inodes /\ NoScan \in Scans /\ runner[r].dim \in Dims
  BY <1>1, RunnerFacts, WriterFacts, EmptyTyped DEF IInv
<1>3. x \in Index /\ OneModel(x)
  BY <1>2, EmbeddedTyped DEF OneModel
<1>4. /\ "flush tmp" \in FullPhases \ Failing /\ "self-check" \in FullPhases \ Failing
      /\ "self-check" \in AllPhases /\ "self-check" \notin OnDb /\ "self-check" \notin Transactions
  BY DEF FullPhases, Failing, AllPhases, OnDb, Transactions, Flushing
<1>5. Phases(Local("self-check", runner[r].mode, runner[r].scan, runner[r].dim, None, NoScan))
  BY <1>1, <1>2, <1>4, FullFacts
<1> HIDE DEF x, i
<1>6. /\ runner' \in [Runners -> Runner] /\ PhasesFit' /\ runner'[r].pc = "self-check"
      /\ \A s \in Runners : s # r => runner'[s] = runner[s]
  BY <1>1, <1>2, <1>4, <1>5, SetsFacts DEF IInv
<1>7. file' \in [Inodes -> Index \cup {Damaged}]
  BY <1>1, <1>2, <1>3 DEF IInv, Typed
<1>8. /\ overrun' \in BOOLEAN /\ journal' = [n \in Names |-> journal'[n]]
      /\ \A n \in Names : journal'[n] = None \/ journal'[n] = journal[n]
  BY <1>1, UnlinksFacts
<1>9. Typed'
  BY <1>1, <1>6, <1>7, <1>8 DEF IInv, Typed, TypeOK, Frame
<1>10. TmpOnlyDuringFull'
  BY <1>4, <1>6 DEF TmpOnlyDuringFull
<1>11. /\ TmpNamed' /\ OneWriter'
       /\ ~overrun' => /\ ~overrun /\ Kept
                       /\ journal'["db"] # None => path["db"] # None /\ journal'["db"].ino = path["db"]
                       /\ \A s \in Runners : Holds(runner[s])'
  BY <1>1, <1>4, <1>6, TransactionEnds
<1>12. ASSUME ~overrun' PROVE Kept'
  <2>1. Kept /\ path["db"] # i
    BY <1>1, <1>11, <1>12 DEF Kept, Holds, i
  <2>2. path["db"] # None => file'[path["db"]] = file[path["db"]]
    BY <1>1, <2>1, Naming DEF IInv, Typed
  <2>3. path["tmp"] # None => OneModel(file'[path["tmp"]])
    BY <1>1, <1>3, <2>1, Naming DEF IInv, Typed, Kept
  <2> QED
    BY <1>1, <1>11, <1>12, <2>1, <2>2, <2>3 DEF Kept
<1> QED
  BY <1>6, <1>9, <1>10, <1>11, <1>12 DEF IInv

\* os.replace keeps the invariant if nobody writes one of the files and
\* there is no journal.
LEMMA ReplaceStep ==
  ASSUME IInv, NEW r \in Runners, Replace(r)
  PROVE  IInv'
PROOF
<1> DEFINE i == path["tmp"]
<1>1. LET l == runner[r] IN l.pc = "replace" /\ l.scan \in Scans /\ l.ino \in Inodes \cup {None} /\ l.seen \in Scans
  BY RunnerFacts DEF IInv, Replace
<1>2. /\ "replace" \in FullPhases \ Failing /\ "clean up ok" \in FullPhases \ Failing
      /\ "clean up ok" \in AllPhases /\ "clean up ok" \notin OnDb /\ "clean up ok" \notin Transactions
  BY DEF FullPhases, CleanUpPhases, Failing, AllPhases, OnDb, Transactions, Flushing
<1>3. Phases(Local("clean up ok", runner[r].mode, runner[r].scan, runner[r].dim, runner[r].ino, runner[r].seen))
  BY <1>1, <1>2, FullFacts
<1>4. /\ runner' \in [Runners -> Runner] /\ PhasesFit' /\ runner'[r].pc = "clean up ok"
      /\ \A s \in Runners : s # r => runner'[s] = runner[s]
  <2>1. Sets(r, "clean up ok", runner[r].scan, runner[r].ino, runner[r].seen)
    BY DEF Replace, Moves
  <2> QED
    BY <1>1, <1>2, <1>3, <2>1, SetsFacts DEF IInv
<1>5. /\ i \in Inodes /\ i # None /\ file[i] \in Index \cup {Damaged}
      /\ path' \in [Names -> Inodes \cup {None}] /\ path'["db"] = i /\ path'["tmp"] = None
      /\ journal' = [n \in Names |-> journal'[n]] /\ journal'["db"] = journal["db"]
      /\ journal'["tmp"] = None
      /\ committed' = file[i] /\ crashes' = crashes /\ Frame
      /\ overrun' = (overrun \/ InUse)
  BY Naming DEF Replace, IInv, Typed, TypeOK, Names
<1>6. PICK x \in IF Hot("tmp") THEN Torn(i) ELSE {file[i]} : file' = [file EXCEPT ![i] = x]
  BY DEF Replace
<1> HIDE DEF i
<1>7. file' \in [Inodes -> Index \cup {Damaged}] /\ x \in {file[i], Damaged}
  BY <1>5, <1>6 DEF Torn, IInv, Typed
<1>8. Typed'
  BY <1>4, <1>5, <1>7 DEF IInv, Typed, TypeOK, Frame, Names
<1>9. TmpOnlyDuringFull'
  BY <1>5 DEF TmpOnlyDuringFull
<1>10. TmpNamed'
  <2>1. \A s \in Runners : runner'[s].pc \in OnDb => runner'[s].ino # None
    BY <1>4, RagIndexAssumption DEF PhasesFit, Phases, Opened
  <2> QED
    BY <1>5, <2>1 DEF TmpNamed
<1>11. OneWriter'
  BY <1>2, <1>4 DEF IInv, OneWriter
<1>12. ASSUME ~overrun' PROVE Kept'
  <2>1. ~overrun /\ Kept /\ ~InUse
    BY <1>5, <1>12 DEF IInv
  <2>2. /\ journal["db"] = None /\ journal["tmp"] = None
        /\ ~Writing(i) /\ (path["db"] # None => ~Writing(path["db"]))
    BY <1>5, <2>1 DEF InUse, Names, i
  <2>3. file' = file
    BY <1>5, <1>6, <2>2 DEF Hot, IInv, Typed
  <2>4. OneModel(file[i]) /\ file[i] \in Index
    BY <1>5, <2>1, OneModelIsIndex DEF Kept, i
  <2>5. ASSUME NEW s \in Runners PROVE Holds(runner[s])'
    <3>1. CASE s = r
      BY <1>4, <3>1 DEF Holds
    <3>2. CASE s # r
      <4>1. Holds(runner[s]) /\ runner'[s] = runner[s]
        BY <1>4, <2>1, <3>2 DEF Kept
      <4>2. runner[s].pc \in Transactions => runner[s].ino \in Inodes /\ runner[s].ino # i
        BY <2>2, WriterFacts DEF Writing
      <4>3. runner[s].pc \notin {"writing", "flush db"}
        BY <2>2, <4>1, <4>2, RagIndexAssumption DEF Holds, Writing, Transactions, Flushing
      <4> QED
        BY <1>5, <4>1, <4>2, <4>3, RagIndexAssumption DEF Holds, Transactions, Flushing
    <3> QED
      BY <3>1, <3>2
  <2> QED
    BY <1>5, <2>2, <2>3, <2>4, <2>5 DEF Kept
<1> QED
  BY <1>4, <1>8, <1>9, <1>10, <1>11, <1>12 DEF IInv

\* An incremental run opens rag.db, or makes it, empty.
LEMMA OpenDbStep ==
  ASSUME IInv, NEW r \in Runners, OpenDb(r)
  PROVE  IInv'
PROOF
<1>1. LET l == runner[r] IN l.pc = "open db" /\ l.scan \in Scans /\ NoScan \in Scans
  BY RunnerFacts, EmptyTyped DEF IInv, OpenDb
<1>2. /\ "open db" \in IncrementalPhases /\ "classified" \in IncrementalPhases
      /\ "open db" \notin FullPhases /\ "classified" \in AllPhases /\ "classified" \notin Transactions
  BY DEF IncrementalPhases, FullPhases, CleanUpPhases, AllPhases, Transactions, Flushing
<1>3. \A i \in Inodes, h \in Scans :
        Phases(Local("classified", runner[r].mode, runner[r].scan, runner[r].dim, i, h))
  BY <1>1, <1>2, IncrementalFacts
<1>4. CASE /\ path["db"] # None /\ file[path["db"]] # Damaged
           /\ Sets(r, "classified", runner[r].scan, path["db"], Hashes(file[path["db"]]))
           /\ UNCHANGED <<path, file, committed>>
  <2>1. path["db"] \in Inodes /\ path["db"] # path["tmp"] /\ file[path["db"]] \in Index
    BY <1>4, Naming DEF IInv, Typed
  <2>2. Hashes(file[path["db"]]) \in Scans
    BY <2>1, HashesTyped
  <2> QED
    BY <1>1, <1>2, <1>3, <1>4, <2>1, <2>2, QuietSets DEF OpenDb
<1>5. CASE /\ path["db"] = None /\ Creates("db") /\ committed' = EmptyIndex
           /\ Sets(r, "classified", runner[r].scan, FreshInode, NoScan)
  <2>1. /\ FreshInode \in Inodes /\ FreshInode # path["tmp"] /\ FreshInode # None
        /\ \A s \in Runners : runner[s].ino # FreshInode
    BY <1>5, FreshFacts, RagIndexAssumption DEF Creates
  <2>2. /\ runner' \in [Runners -> Runner] /\ PhasesFit'
        /\ runner'[r].pc = "classified" /\ runner'[r].ino = FreshInode
        /\ \A s \in Runners : s # r => runner'[s] = runner[s]
    BY <1>1, <1>2, <1>3, <1>5, <2>1, SetsFacts DEF IInv
  <2>3. /\ path' \in [Names -> Inodes \cup {None}]
        /\ path'["tmp"] = path["tmp"] /\ path'["db"] = FreshInode
    BY <1>5, <2>1 DEF Creates, IInv, Typed, TypeOK, Names
  <2>4. /\ file' \in [Inodes -> Index \cup {Damaged}] /\ file'[FreshInode] = EmptyIndex
        /\ \A i \in Inodes : i # FreshInode => file'[i] = file[i]
    BY <1>5, <2>1, EmptyTyped DEF Creates, IInv, Typed
  <2>5. UNCHANGED <<journal, crashes, overrun>> /\ Frame
    BY DEF OpenDb
  <2>6. Typed'
    BY <1>5, <2>1, <2>2, <2>3, <2>4, <2>5, EmptyTyped DEF IInv, Typed, TypeOK, Frame
  <2>7. TmpOnlyDuringFull'
    BY <1>1, <1>2, <2>2, <2>3, <2>5 DEF IInv, TmpOnlyDuringFull
  <2>8. TmpNamed'
    BY <2>1, <2>2, <2>3, <2>5 DEF IInv, TmpNamed
  <2>9. OneWriter'
    BY <1>2, <2>2 DEF IInv, OneWriter
  <2>10. ASSUME ~overrun PROVE Kept'
    <3>1. Kept /\ journal["db"] = None
      BY <1>5, <2>10 DEF IInv, Kept
    <3>2. path["tmp"] # None => file'[path["tmp"]] = file[path["tmp"]]
      BY <2>1, <2>4, Naming DEF IInv
    <3>3. ASSUME NEW s \in Runners PROVE Holds(runner[s])'
      <4>1. CASE s = r
        BY <2>2, <4>1 DEF Holds
      <4>2. CASE s # r
        <5>1. Holds(runner[s]) /\ runner'[s] = runner[s] /\ runner[s].ino # FreshInode
          BY <2>1, <2>2, <3>1, <4>2 DEF Kept
        <5>2. runner[s].pc \in Transactions => runner[s].ino # None
          BY WriterFacts, RagIndexAssumption
        <5>3. runner[s].pc \notin {"writing", "flush db"}
          BY <1>5, <5>1, <5>2 DEF Holds, Transactions, Flushing
        <5> QED
          BY <2>3, <2>5, <5>1, <5>3 DEF Holds
      <4> QED
        BY <4>1, <4>2
    <3> QED
      BY <1>5, <2>3, <2>4, <2>5, <3>1, <3>2, <3>3, EmptyTyped DEF Kept
  <2> QED
    BY <2>2, <2>5, <2>6, <2>7, <2>8, <2>9, <2>10 DEF IInv
<1> QED
  BY <1>4, <1>5 DEF OpenDb, Readable

\* What an incremental run merges into an index is an index.
LEMMA MergedTyped ==
  ASSUME NEW r \in Runners, runner[r].scan \in Scans, runner[r].dim \in Dims,
         file[runner[r].ino] \in Index
  PROVE  Merged(r) \in Index
  BY EmbeddedTyped DEF Merged, Index

\* The commit of an incremental run.
LEMMA CommitWriteStep ==
  ASSUME IInv, NEW r \in Runners, CommitWrite(r)
  PROVE  IInv'
PROOF
<1> DEFINE i == runner[r].ino
<1>1. /\ runner[r].pc = "flush db" /\ runner[r].pc \in Transactions /\ UnlinksJournal(r)
      /\ file[i] # Damaged /\ file' = [file EXCEPT ![i] = Merged(r)]
      /\ committed' = IF i = path["db"] THEN Merged(r) ELSE committed
      /\ UNCHANGED <<path, crashes>> /\ Frame
      /\ Sets(r, "stats", runner[r].scan, runner[r].ino, runner[r].seen)
  BY DEF CommitWrite, Moves, Transactions, Flushing
<1>2. /\ runner[r].scan \in Scans /\ runner[r].seen \in Scans /\ i \in Inodes /\ runner[r].dim \in Dims
      /\ i # path["tmp"]
  BY <1>1, RunnerFacts, WriterFacts DEF IInv, TmpNamed, OnDb
<1>3. /\ "flush db" \in IncrementalPhases /\ "stats" \in IncrementalPhases /\ "flush db" \notin FullPhases
      /\ "stats" \in AllPhases /\ "stats" \notin Transactions
  BY DEF IncrementalPhases, FullPhases, CleanUpPhases, AllPhases, Transactions, Flushing
<1>4. Phases(Local("stats", runner[r].mode, runner[r].scan, runner[r].dim, runner[r].ino, runner[r].seen))
  BY <1>1, <1>2, <1>3, IncrementalFacts
<1>5. Merged(r) \in Index
  BY <1>1, <1>2, MergedTyped DEF IInv, Typed
<1>6. /\ runner' \in [Runners -> Runner] /\ PhasesFit' /\ runner'[r].pc = "stats" /\ runner'[r].ino = i
      /\ \A s \in Runners : s # r => runner'[s] = runner[s]
  <2>1. Moves(r, "stats")
    BY DEF CommitWrite
  <2> HIDE DEF i
  <2>2. /\ runner' \in [Runners -> Runner] /\ PhasesFit'
        /\ runner'[r].pc = "stats" /\ runner'[r].ino = runner[r].ino
        /\ \A s \in Runners : s # r => runner'[s] = runner[s]
    BY <1>3, <1>4, <2>1, MovesFacts DEF IInv
  <2> QED
    BY <2>2 DEF i
<1> HIDE DEF i
<1>7. file' \in [Inodes -> Index \cup {Damaged}]
  BY <1>1, <1>5 DEF IInv, Typed
<1>8. /\ overrun' \in BOOLEAN /\ journal' = [n \in Names |-> journal'[n]]
      /\ \A n \in Names : journal'[n] = None \/ journal'[n] = journal[n]
  BY <1>1, UnlinksFacts
<1>9. Typed'
  BY <1>1, <1>5, <1>6, <1>7, <1>8 DEF IInv, Typed, TypeOK, Frame
<1>10. TmpOnlyDuringFull'
  BY <1>1, <1>3, <1>6 DEF IInv, TmpOnlyDuringFull
<1>11. /\ TmpNamed' /\ OneWriter'
       /\ ~overrun' => /\ ~overrun /\ Kept
                       /\ journal'["db"] # None => path["db"] # None /\ journal'["db"].ino = path["db"]
                       /\ \A s \in Runners : Holds(runner[s])'
  BY <1>1, <1>2, <1>3, <1>6, TransactionEnds
<1>12. ASSUME ~overrun' PROVE Kept'
  <2>1. Kept /\ path["db"] = i
    BY <1>1, <1>11, <1>12 DEF Kept, Holds, i
  <2>2. file'[path["db"]] = Merged(r) /\ committed' = Merged(r)
    BY <1>1, <1>2, <2>1 DEF IInv, Typed
  <2>3. path["tmp"] # None => file'[path["tmp"]] = file[path["tmp"]]
    BY <1>1, <1>2, Naming DEF IInv, Typed
  <2> QED
    BY <1>1, <1>5, <1>11, <1>12, <2>1, <2>2, <2>3 DEF Kept
<1> QED
  BY <1>6, <1>9, <1>10, <1>11, <1>12 DEF IInv

---------------------------------------------------------------------------
(* Failures                                                                *)

\* A runner that fails goes on to clean up, or has failed.
LEMMA FailsFacts ==
  ASSUME IInv, NEW r \in Runners, Fail(r)
  PROVE  /\ runner' \in [Runners -> Runner] /\ PhasesFit'
         /\ runner'[r].pc \in {"clean up failed", "failed"}
         /\ runner[r].pc \in FullPhases => runner'[r].pc \in FullPhases
         /\ \A s \in Runners : s # r => runner'[s] = runner[s]
<1>1. /\ runner[r].pc \in MayFail
      /\ Becomes(r, Ended(IF runner[r].mode = "full" THEN "clean up failed" ELSE "failed"))
  BY DEF Fail, FailsWith
<1>2. /\ runner[r].pc \in FullPhases \ Failing \/ runner[r].pc \in IncrementalPhases \cup VerifyPhases
      /\ "clean up failed" \in FullPhases
      /\ \A pc \in IncrementalPhases \cup VerifyPhases : pc \notin FullPhases
  BY <1>1 DEF MayFail, FullPhases, CleanUpPhases, Failing, IncrementalPhases, VerifyPhases
<1>3. (runner[r].mode = "full") <=> (runner[r].pc \in FullPhases)
  BY <1>2 DEF IInv, PhasesFit, Phases
<1>4. PICK pc \in {"clean up failed", "failed"} :
        /\ Becomes(r, Ended(pc)) /\ (pc = "clean up failed" <=> runner[r].pc \in FullPhases)
  BY <1>1, <1>3
<1>5. pc \in Failing => "full" \in Modes
  BY <1>4 DEF Failing, IInv, PhasesFit, Phases
<1>6. Ended(pc) \in Runner /\ Phases(Ended(pc)) /\ Ended(pc).pc = pc
  BY <1>5, EndedFacts DEF Failing
<1> QED
  BY <1>2, <1>4, <1>6, BecomesFacts DEF IInv

\* A failure leaves the files as they are, and ends the transaction.
LEMMA FailStep ==
  ASSUME IInv, NEW r \in Runners, Fail(r)
  PROVE  IInv'
PROOF
<1>1. /\ runner' \in [Runners -> Runner] /\ PhasesFit'
      /\ runner'[r].pc \in {"clean up failed", "failed"}
      /\ runner[r].pc \in FullPhases => runner'[r].pc \in FullPhases
      /\ \A s \in Runners : s # r => runner'[s] = runner[s]
  BY FailsFacts
<1>2. UNCHANGED <<path, file, crashes, committed>> /\ Frame /\ RollsBack(r)
  BY DEF Fail
<1>3. runner'[r].pc \notin OnDb /\ runner'[r].pc \notin Transactions
  BY <1>1 DEF OnDb, Transactions, Flushing
<1>4. CASE runner[r].pc \notin Transactions
  <2>1. UNCHANGED <<journal, overrun>>
    BY <1>2, <1>4 DEF RollsBack
  <2> QED
    BY <1>1, <1>2, <1>3, <2>1, QuietStep
<1>5. CASE runner[r].pc \in Transactions
  <2>1. UnlinksJournal(r)
    BY <1>2, <1>5 DEF RollsBack
  <2>2. /\ overrun' \in BOOLEAN /\ journal' = [n \in Names |-> journal'[n]]
        /\ \A n \in Names : journal'[n] = None \/ journal'[n] = journal[n]
    BY <1>5, <2>1, UnlinksFacts
  <2>3. Typed'
    BY <1>1, <1>2, <2>2 DEF IInv, Typed, TypeOK, Frame
  <2>4. TmpOnlyDuringFull'
    BY <1>1, <1>2 DEF IInv, TmpOnlyDuringFull
  <2>5. /\ TmpNamed' /\ OneWriter'
        /\ ~overrun' => /\ ~overrun /\ Kept
                        /\ journal'["db"] # None => path["db"] # None /\ journal'["db"].ino = path["db"]
                        /\ \A s \in Runners : Holds(runner[s])'
    BY <1>1, <1>2, <1>3, <1>5, <2>1, TransactionEnds
  <2>6. ASSUME ~overrun' PROVE Kept'
    BY <1>2, <2>5, <2>6 DEF Kept
  <2> QED
    BY <1>1, <2>3, <2>4, <2>5, <2>6 DEF IInv
<1> QED
  BY <1>4, <1>5

\* Counting one kill.
LEMMA CrashCount ==
  ASSUME NEW n \in Nat, NEW m \in Nat, n < m
  PROVE  n + 1 \in Nat /\ n + 1 <= m /\ n + 1 # 0
  BY SMT

\* A kill leaves a file half-written only if that has lost its name, or is
\* neither rag.db nor rag.db.tmp.
LEMMA TornIsNameless ==
  ASSUME IInv, ~overrun, NEW r \in Runners, runner[r].pc \in Flushing, ~Restorable(r)
  PROVE  runner[r].ino # path["db"] /\ runner[r].ino # path["tmp"]
PROOF
<1>1. runner[r].pc \in Transactions
  BY DEF Transactions
<1>2. Kept /\ Holds(runner[r])
  BY DEF IInv, Kept
<1>3. CASE runner[r].pc = "flush db"
  <2>1. NameOf(r) = "db" /\ runner[r].ino # path["tmp"]
    BY <1>1, <1>3, WriterFacts DEF IInv, TmpNamed, OnDb
  <2>2. runner[r].ino = path["db"] /\ journal["db"] # None /\ journal["db"].ino = path["db"]
    BY <1>2, <1>3 DEF Holds, Kept
  <2> QED
    BY <2>1, <2>2 DEF Restorable
<1>4. CASE runner[r].pc = "flush tmp"
  <2>1. NameOf(r) = "tmp" /\ runner[r].ino # path["db"]
    BY <1>1, <1>2, <1>4, WriterFacts DEF Holds
  <2>2. runner[r].ino = path["tmp"] => journal["tmp"] # None /\ journal["tmp"].ino = path["tmp"]
    BY <1>2, <1>4 DEF Holds, IInv, TmpNamed
  <2> QED
    BY <2>1, <2>2 DEF Restorable
<1> QED
  BY <1>3, <1>4 DEF Flushing

\* A kill.
LEMMA CrashStep ==
  ASSUME IInv, NEW r \in Runners, Crash(r)
  PROVE  IInv'
PROOF
<1> DEFINE i == runner[r].ino
<1>1. /\ UNCHANGED <<path, journal, committed, overrun>> /\ Frame
      /\ Becomes(r, Ended("idle")) /\ crashes' = crashes + 1 /\ crashes < MaxCrashes
  BY DEF Crash
<1>2. Ended("idle") \in Runner /\ Phases(Ended("idle")) /\ Ended("idle").pc = "idle"
  BY EndedFacts DEF Failing
<1>3. /\ runner' \in [Runners -> Runner] /\ PhasesFit' /\ runner'[r].pc = "idle"
      /\ \A s \in Runners : s # r => runner'[s] = runner[s]
  BY <1>1, <1>2, BecomesFacts DEF IInv
<1>4. runner'[r].pc \notin OnDb /\ runner'[r].pc \notin Transactions
  BY <1>3 DEF OnDb, Transactions, Flushing
<1>5. crashes' \in Nat /\ crashes' <= MaxCrashes /\ crashes' # 0
  BY <1>1, CrashCount, RagIndexAssumption DEF IInv, Typed
<1>6. \/ file' = file
      \/ /\ runner[r].pc \in Flushing /\ ~Restorable(r)
         /\ \E x \in Torn(i) : file' = [file EXCEPT ![i] = x]
  BY DEF Crash
<1>7. runner[r].pc \in Flushing => i \in Inodes
  BY WriterFacts DEF Transactions
<1> HIDE DEF i
<1>8. /\ file' \in [Inodes -> Index \cup {Damaged}]
      /\ \A k \in Inodes : k # i => file'[k] = file[k]
  BY <1>6, <1>7 DEF IInv, Typed, Torn
<1>9. Typed'
  BY <1>1, <1>3, <1>5, <1>8 DEF IInv, Typed, TypeOK, Frame
<1>10. TmpOnlyDuringFull'
  BY <1>5 DEF TmpOnlyDuringFull
<1>11. TmpNamed'
  BY <1>1, <1>3, <1>4 DEF IInv, TmpNamed
<1>12. OneWriter'
  BY <1>3, <1>4 DEF IInv, OneWriter
<1>13. ASSUME ~overrun PROVE Kept'
  <2>1. Kept
    BY <1>13 DEF IInv
  <2>2. \A n \in Names : path[n] # None => file'[path[n]] = file[path[n]]
    <3>1. CASE file' = file
      BY <3>1
    <3>2. CASE i # path["db"] /\ i # path["tmp"]
      BY <1>8, <3>2, Naming DEF IInv, Names
    <3> QED
      BY <1>6, <1>13, <3>1, <3>2, TornIsNameless DEF i
  <2>3. ASSUME NEW s \in Runners PROVE Holds(runner[s])'
    <3>1. CASE s = r
      BY <1>3, <3>1 DEF Holds
    <3>2. CASE s # r
      BY <1>1, <1>3, <2>1, <3>2 DEF Holds, Kept
    <3> QED
      BY <3>1, <3>2
  <2> QED
    BY <1>1, <2>1, <2>2, <2>3 DEF Kept, Names
<1> QED
  BY <1>1, <1>3, <1>9, <1>10, <1>11, <1>12, <1>13 DEF IInv

---------------------------------------------------------------------------
(* The theorems                                                            *)

\* The invariant holds at the start: there is no file and nobody runs.
LEMMA InitInvariant == Init => IInv
PROOF
<1> SUFFICES ASSUME Init PROVE IInv
  OBVIOUS
<1>1. Ended("idle") \in Runner /\ Phases(Ended("idle")) /\ Ended("idle").pc = "idle"
  BY EndedFacts DEF Failing
<1>2. /\ runner \in [Runners -> Runner] /\ PhasesFit /\ \A r \in Runners : runner[r].pc = "idle"
  BY <1>1 DEF Init, PhasesFit
<1>3. Typed
  <2>1. 0 \in Nat /\ 0 <= MaxCrashes
    BY RagIndexAssumption
  <2> QED
    BY <1>2, <2>1, EmptyTyped DEF Init, Typed, TypeOK, Names
<1>4. TmpOnlyDuringFull /\ TmpNamed /\ OneWriter
  BY <1>2 DEF Init, TmpOnlyDuringFull, TmpNamed, OneWriter, OnDb, Transactions, Flushing, Names
<1>5. Kept
  BY <1>2 DEF Init, Kept, Holds, Names
<1> QED
  BY <1>2, <1>3, <1>4, <1>5 DEF IInv

\* Every step keeps it.
LEMMA StepKeepsInvariant == IInv /\ [Next]_vars => IInv'
PROOF
<1> SUFFICES ASSUME IInv, [Next]_vars PROVE IInv'
  OBVIOUS
<1>1. CASE \/ \E d \in Docs, v \in Versions \cup {None} : EditDoc(d, v)
           \/ \E m \in Dims : ChangeModel(m)
  BY <1>1, SurroundingsStep
<1>2. CASE \E n \in Names : Recover(n)
  BY <1>2, RecoverStep
<1>3. ASSUME NEW r \in Runners, FullStep(r)
      PROVE  IInv'
  BY <1>3, QuietStart, UnlinkStep, QuietFull, OpenTmpStep, CommitPersistStep,
     SelfCheckMissingStep, ReplaceStep, QuietCleanUp DEF FullStep
<1>4. ASSUME NEW r \in Runners, IncrementalStep(r)
      PROVE  IInv'
  BY <1>4, QuietStart, OpenDbStep, QuietIncremental, CommitWriteStep DEF IncrementalStep
<1>5. ASSUME NEW r \in Runners, VerifyStep(r)
      PROVE  IInv'
  BY <1>5, QuietStart, QuietVerify DEF VerifyStep
<1>6. ASSUME NEW r \in Runners, SQLiteStep(r)
      PROVE  IInv'
  BY <1>6, FlushStep, TakeJournalStep DEF SQLiteStep
<1>7. ASSUME NEW r \in Runners, Fail(r) \/ Crash(r)
      PROVE  IInv'
  BY <1>7, FailStep, CrashStep
<1>8. CASE UNCHANGED vars
  BY <1>8 DEF vars, IInv, Typed, TypeOK, PhasesFit, TmpOnlyDuringFull, TmpNamed, OneWriter, Kept, Holds
<1> QED
  BY <1>1, <1>2, <1>3, <1>4, <1>5, <1>6, <1>7, <1>8 DEF Next

\* The inductive invariant holds in every reachable state.
THEOREM Invariance == Spec => []IInv
  BY InitInvariant, StepKeepsInvariant, PTL DEF Spec

\* The types of the variables.
THEOREM TypeCorrect == Spec => []TypeOK
<1>1. IInv => TypeOK
  BY DEF IInv, Typed
<1> QED
  BY Invariance, <1>1, PTL

\* rag.db.tmp is there only while a full reindex is at work, whoever fails and
\* however many run at once.
THEOREM TmpOnlyDuringFullHolds == Spec => []TmpOnlyDuringFull
<1>1. IInv => TmpOnlyDuringFull
  BY DEF IInv
<1> QED
  BY Invariance, <1>1, PTL

\* What is kept is what the property asks for: the journal of rag.db, if any,
\* puts back what its file already holds.
LEMMA KeptServes ==
  ASSUME Kept
  PROVE  ServesLastCommit
  BY DEF Kept, ServesLastCommit, Recovered, Hot, Overwritten

\* Readers get what was committed last, in every mixture of runners and kills.
THEOREM ServesUnlessOverrunHolds == Spec => []ServesUnlessOverrun
<1>1. IInv => ServesUnlessOverrun
  BY KeptServes DEF IInv, ServesUnlessOverrun
<1> QED
  BY Invariance, <1>1, PTL

---------------------------------------------------------------------------
(* Refinement of IndexSnapshot                                             *)

\* Where a runner holds a scan that is still to come, and a documents map.
ScanPhases == {"open tmp", "begin", "persist", "flush tmp",
               "open db", "classified", "writing", "flush db"}
ViewPhases == {"classified", "writing", "flush db"}

\* What opening the index shows of it.
Shown == IF Served = None THEN NoScan ELSE Hashes(Served)

\* As long as there is no overrun, readers get what was committed.
LEMMA ServedIsCommitted ==
  ASSUME IInv, ~overrun
  PROVE  Served = IF path["db"] = None THEN None ELSE committed
  BY DEF IInv, Kept, Served

\* An index tells what it was made from.
LEMMA EmbeddedHashes ==
  ASSUME NEW S \in Scans, NEW m \in Dims
  PROVE  Hashes(Embedded(S, m)) = S
<1>1. \A d \in Docs : S[d] # None => Embedded(S, m)[d] # None /\ Embedded(S, m)[d].ver = S[d]
  <2> SUFFICES ASSUME NEW d \in Docs, S[d] # None
               PROVE  Embedded(S, m)[d] # None /\ Embedded(S, m)[d].ver = S[d]
    OBVIOUS
  <2>1. Embedded(S, m)[d] = [ver |-> S[d], dim |-> m] /\ Embedded(S, m)[d] \in Entry
    BY DEF Embedded, Entry, Scans
  <2> QED
    BY <2>1, NoneIsNoIndex
<1>2. \A d \in Docs : S[d] = None => Embedded(S, m)[d] = None
  BY DEF Embedded
<1> QED
  BY <1>1, <1>2 DEF Hashes, Scans

\* A runner goes on with the scan and the documents map it has, or looks anew.
Looks(s) ==
  /\ runner'[s].pc \in ScanPhases =>
       \/ runner[s].pc \in ScanPhases /\ runner'[s].scan = runner[s].scan
       \/ runner'[s].scan = source
  /\ runner'[s].pc \in ViewPhases =>
       \/ runner[s].pc \in ViewPhases /\ runner'[s].seen = runner[s].seen
       \/ runner'[s].seen = Shown

\* Runners look one at a time.
LEMMA OneLooks ==
  ASSUME IInv, NEW r \in Runners, NEW l, Becomes(r, l),
         l.pc \in ScanPhases =>
           (runner[r].pc \in ScanPhases /\ l.scan = runner[r].scan) \/ l.scan = source,
         l.pc \in ViewPhases =>
           (runner[r].pc \in ViewPhases /\ l.seen = runner[r].seen) \/ l.seen = Shown
  PROVE  \A s \in Runners : Looks(s)
<1>1. runner'[r] = l /\ \A s \in Runners : s # r => runner'[s] = runner[s]
  BY DEF Becomes, IInv, Typed, TypeOK
<1> QED
  BY <1>1 DEF Looks

\* Nothing is looked at when a run begins a full reindex or a verification,
\* or when it ends its transaction.
LEMMA NobodyLooks ==
  ASSUME IInv, NEW r \in Runners, NEW l, Becomes(r, l), l.pc \notin ScanPhases
  PROVE  \A s \in Runners : Looks(s)
  BY OneLooks DEF ScanPhases, ViewPhases

\* A runner that goes on.
LEMMA SetsLooks ==
  ASSUME IInv, NEW r \in Runners, NEW pc, NEW scan, NEW ino, NEW seen, Sets(r, pc, scan, ino, seen),
         pc \in ScanPhases =>
           (runner[r].pc \in ScanPhases /\ scan = runner[r].scan) \/ scan = source,
         pc \in ViewPhases =>
           (runner[r].pc \in ViewPhases /\ seen = runner[r].seen) \/ seen = Shown
  PROVE  \A s \in Runners : Looks(s)
<1> DEFINE l == Local(pc, runner[r].mode, scan, runner[r].dim, ino, seen)
<1>1. Becomes(r, l) /\ l.pc = pc /\ l.scan = scan /\ l.seen = seen
  BY DEF Sets, Local
<1> HIDE DEF l
<1> QED
  BY <1>1, OneLooks

\* The phases that hold a scan hold the one they had.
LEMMA KeepsLooking ==
  ASSUME IInv, NEW r \in Runners, BeginPersist(r) \/ BeginWrite(r) \/ Flush(r)
  PROVE  \A s \in Runners : Looks(s)
PROOF
<1>1. PICK pc \in {"persist", "flush tmp", "writing", "flush db"} :
        /\ Sets(r, pc, runner[r].scan, runner[r].ino, runner[r].seen)
        /\ \/ pc \in {"persist", "flush tmp"} /\ runner[r].pc \in {"begin", "persist"}
           \/ pc \in {"writing", "flush db"} /\ runner[r].pc \in {"classified", "writing"}
  BY DEF BeginPersist, BeginWrite, Flush, Moves
<1>2. runner[r].pc \in ScanPhases /\ (pc \in ViewPhases => runner[r].pc \in ViewPhases)
  BY <1>1 DEF ScanPhases, ViewPhases
<1> QED
  BY <1>1, <1>2, SetsLooks

\* Steps of one runner, by what becomes of its pc.
LEMMA RunnerLooks ==
  ASSUME IInv, NEW r \in Runners,
         FullStep(r) \/ IncrementalStep(r) \/ VerifyStep(r) \/ Flush(r) \/ Fail(r) \/ Crash(r)
  PROVE  \A s \in Runners : Looks(s)
PROOF
<1>1. \A pc : /\ Ended(pc).pc = pc
              /\ \A mode, scan, dim : Begun(pc, mode, scan, dim).pc = pc
              /\ \A mode, scan, dim : Begun(pc, mode, scan, dim).scan = scan
              /\ \A mode, scan, dim, ino, seen : LET l == Local(pc, mode, scan, dim, ino, seen) IN
                   l.pc = pc /\ l.scan = scan /\ l.seen = seen
  BY DEF Ended, Begun, Local
<1>2. CASE BeginPersist(r) \/ BeginWrite(r) \/ Flush(r)
  BY <1>2, KeepsLooking
<1>3. CASE StartIncremental(r)
  <2> DEFINE l == Begun("open db", "incremental", source, model)
  <2>1. Becomes(r, l) /\ l.pc = "open db" /\ l.scan = source
    BY <1>3 DEF StartIncremental, Begun, Local
  <2> HIDE DEF l
  <2> QED
    BY <2>1, OneLooks DEF ViewPhases
<1>4. CASE ScanFull(r)
  BY <1>4, SetsLooks DEF ScanFull, ViewPhases
<1>5. CASE OpenTmp(r)
  BY <1>5, SetsLooks DEF OpenTmp, ScanPhases, ViewPhases
<1>6. CASE OpenDb(r)
  <2>1. Shown = IF path["db"] = None THEN NoScan ELSE Hashes(file[path["db"]])
    BY Naming, NoneIsNoIndex, RagIndexAssumption DEF Shown, Served, IInv, Typed
  <2> QED
    BY <1>6, <2>1, SetsLooks DEF OpenDb, ScanPhases
<1>7. ASSUME NEW pc, pc \notin ScanPhases,
             \/ Becomes(r, Ended(pc))
             \/ \E mode, scan, dim : Becomes(r, Begun(pc, mode, scan, dim))
             \/ \E mode, scan, dim, ino, seen : Becomes(r, Local(pc, mode, scan, dim, ino, seen))
      PROVE  \A s \in Runners : Looks(s)
  BY <1>1, <1>7, NobodyLooks
<1>8. /\ {"scan", "unlink first", "self-check", "clean up failed", "replace", "clean up ok", "unlink ok",
          "unlink failed", "succeeded", "failed", "idle", "stats", "validate", "dims", "sample query"}
            \cap ScanPhases = {}
  BY DEF ScanPhases
<1>9. CASE StartFull(r) \/ \E e \in Dims \cup {AnyDim} : StartVerify(r, e)
  BY <1>7, <1>8, <1>9 DEF StartFull, StartVerify
<1>10. CASE Unlink(r) \/ CleanUp(r) \/ SelfCheckMissing(r)
  BY <1>7, <1>8, <1>10 DEF Unlink, CleanUp, SelfCheckMissing, Moves, Sets
<1>11. CASE CommitPersist(r) \/ SelfCheck(r) \/ Replace(r)
  BY <1>7, <1>8, <1>11 DEF CommitPersist, SelfCheck, Replace, Moves, Sets
<1>12. CASE CommitNothing(r) \/ CommitWrite(r) \/ Report(r)
  BY <1>7, <1>8, <1>12 DEF CommitNothing, CommitWrite, Report, Moves, Sets
<1>13. CASE CountChunks(r) \/ CompareDims(r) \/ SampleQuery(r) \/ SkipSampleQuery(r)
  BY <1>7, <1>8, <1>13 DEF CountChunks, CompareDims, SampleQuery, SkipSampleQuery, Moves, Sets
<1>14. CASE Fail(r) \/ Crash(r)
  BY <1>7, <1>8, <1>14 DEF Fail, FailsWith, Crash
<1> QED
  BY <1>2, <1>3, <1>4, <1>5, <1>6, <1>9, <1>10, <1>11, <1>12, <1>13, <1>14
     DEF FullStep, IncrementalStep, VerifyStep

\* What becomes of rag.db.tmp: it is gone, the same, new and empty, or what a
\* full run commits.
TmpBecomes ==
  \/ path'["tmp"] = None
  \/ path'["tmp"] = path["tmp"] /\ file'[path["tmp"]] = file[path["tmp"]]
  \/ file'[path'["tmp"]] = EmptyIndex
  \/ \E r \in Runners : /\ runner[r].pc = "flush tmp"
                        /\ file'[path'["tmp"]] = Embedded(runner[r].scan, runner[r].dim)

\* Most steps leave it the same.
LEMMA SameTmp ==
  ASSUME UNCHANGED <<path, file, overrun>>, ~overrun'
  PROVE  TmpBecomes /\ ~overrun
  BY DEF TmpBecomes

\* Of a file that is not rag.db.tmp nothing is to be said.
LEMMA TmpFrame ==
  ASSUME IInv, UNCHANGED path, NEW i \in Inodes, i # path["tmp"], NEW x, file' = [file EXCEPT ![i] = x]
  PROVE  TmpBecomes
  BY Naming DEF TmpBecomes, IInv, Typed

\* Every step of the runners without overrun does one of these.
LEMMA TmpSteps ==
  ASSUME IInv, [Next]_vars, ~overrun'
  PROVE  TmpBecomes /\ ~overrun
PROOF
<1>1. CASE \/ \E d \in Docs, v \in Versions \cup {None} : EditDoc(d, v)
           \/ \E m \in Dims : ChangeModel(m)
           \/ UNCHANGED vars
  <2>1. UNCHANGED <<path, file, overrun>>
    BY <1>1 DEF EditDoc, ChangeModel, vars
  <2> QED
    BY <2>1, SameTmp
<1>2. ASSUME NEW n \in Names, Recover(n) PROVE TmpBecomes /\ ~overrun
  <2>1. /\ path' = path /\ ~overrun /\ journal[n] # None /\ path[n] # None
        /\ \E x \in Overwritten(path[n], journal[n]) : file' = [file EXCEPT ![path[n]] = x]
    BY <1>2 DEF Recover, Recovered, Hot
  <2>2. CASE n = "tmp"
    <3>1. journal[n].ino = path[n]
      BY <2>1, <2>2 DEF IInv, TmpNamed
    <3>2. file' = file
      BY <2>1, <3>1, Naming DEF Overwritten, IInv, Typed, Names
    <3> QED
      BY <2>1, <3>2 DEF TmpBecomes
  <2>3. CASE n = "db"
    <3>1. path[n] \in Inodes /\ path[n] # path["tmp"]
      BY <2>1, <2>3, Naming DEF IInv
    <3> QED
      BY <2>1, <3>1, TmpFrame
  <2> QED
    BY <2>2, <2>3 DEF Names
<1>3. ASSUME NEW r \in Runners, FullStep(r) PROVE TmpBecomes /\ ~overrun
  <2>1. CASE StartFull(r) \/ ScanFull(r) \/ BeginPersist(r) \/ SelfCheck(r) \/ CleanUp(r)
    <3>1. UNCHANGED <<path, file, overrun>>
      BY <2>1 DEF StartFull, ScanFull, BeginPersist, SelfCheck, CleanUp
    <3> QED
      BY <3>1, SameTmp
  <2>2. CASE OpenTmp(r) \/ SelfCheckMissing(r)
    <3>1. CASE UNCHANGED <<path, file, overrun>>
      BY <3>1 DEF TmpBecomes
    <3>2. CASE Creates("tmp") /\ UNCHANGED overrun
      <4>1. path'["tmp"] = FreshInode /\ FreshInode \in Inodes
        BY <3>2, FreshFacts DEF Creates, IInv, Typed, TypeOK, Names
      <4>2. file'[FreshInode] = EmptyIndex
        BY <3>2, <4>1 DEF Creates, IInv, Typed
      <4> QED
        BY <3>2, <4>1, <4>2 DEF TmpBecomes
    <3> QED
      BY <2>2, <3>1, <3>2 DEF OpenTmp, SelfCheckMissing
  <2>3. CASE CommitPersist(r)
    <3>1. /\ runner[r].pc = "flush tmp" /\ runner[r].pc \in Transactions /\ UnlinksJournal(r) /\ path' = path
          /\ file' = [file EXCEPT ![runner[r].ino] = Embedded(runner[r].scan, runner[r].dim)]
      BY <2>3 DEF CommitPersist, Transactions, Flushing
    <3>2. runner[r].ino \in Inodes /\ ~overrun
      BY <3>1, WriterFacts, UnlinksFacts
    <3>3. CASE runner[r].ino # path["tmp"]
      BY <3>1, <3>2, <3>3, TmpFrame
    <3>4. CASE runner[r].ino = path["tmp"]
      BY <3>1, <3>2, <3>4 DEF TmpBecomes, IInv, Typed
    <3> QED
      BY <3>3, <3>4
  <2>4. CASE Replace(r) \/ Unlink(r)
    <3>1. path'["tmp"] = None /\ ~overrun
      BY <2>4 DEF Replace, Unlink, Nameless, IInv, Typed, TypeOK, Names
    <3> QED
      BY <3>1 DEF TmpBecomes
  <2> QED
    BY <1>3, <2>1, <2>2, <2>3, <2>4 DEF FullStep
<1>4. ASSUME NEW r \in Runners, IncrementalStep(r) PROVE TmpBecomes /\ ~overrun
  <2>1. CASE StartIncremental(r) \/ CommitNothing(r) \/ BeginWrite(r) \/ Report(r)
    <3>1. UNCHANGED <<path, file, overrun>>
      BY <2>1 DEF StartIncremental, CommitNothing, BeginWrite, Report
    <3> QED
      BY <3>1, SameTmp
  <2>2. CASE OpenDb(r)
    <3>1. CASE UNCHANGED <<path, file, overrun>>
      BY <3>1 DEF TmpBecomes
    <3>2. CASE Creates("db") /\ UNCHANGED overrun
      <4>1. FreshInode \in Inodes /\ FreshInode # path["tmp"] /\ path'["tmp"] = path["tmp"]
        BY <3>2, FreshFacts DEF Creates, IInv, Typed, TypeOK, Names
      <4>2. path["tmp"] # None => file'[path["tmp"]] = file[path["tmp"]]
        BY <3>2, <4>1, Naming DEF Creates, IInv, Typed
      <4> QED
        BY <3>2, <4>1, <4>2 DEF TmpBecomes
    <3> QED
      BY <2>2, <3>1, <3>2 DEF OpenDb
  <2>3. CASE CommitWrite(r)
    <3>1. /\ runner[r].pc \in Transactions /\ runner[r].pc \in OnDb /\ UnlinksJournal(r) /\ path' = path
          /\ file' = [file EXCEPT ![runner[r].ino] = Merged(r)]
      BY <2>3 DEF CommitWrite, Transactions, Flushing, OnDb
    <3>2. runner[r].ino \in Inodes /\ ~overrun /\ runner[r].ino # path["tmp"]
      BY <3>1, WriterFacts, UnlinksFacts DEF IInv, TmpNamed
    <3> QED
      BY <3>1, <3>2, TmpFrame
  <2> QED
    BY <1>4, <2>1, <2>2, <2>3 DEF IncrementalStep
<1>5. ASSUME NEW r \in Runners, VerifyStep(r) PROVE TmpBecomes /\ ~overrun
  <2>1. UNCHANGED <<path, file, overrun>>
    BY <1>5 DEF VerifyStep, StartVerify, CountChunks, CompareDims, SampleQuery, SkipSampleQuery
  <2> QED
    BY <2>1, SameTmp
<1>6. ASSUME NEW r \in Runners, SQLiteStep(r) PROVE TmpBecomes /\ ~overrun
  <2>1. UNCHANGED <<path, file, overrun>>
    BY <1>6 DEF SQLiteStep, Flush, TakeJournal
  <2> QED
    BY <2>1, SameTmp
<1>7. ASSUME NEW r \in Runners, Fail(r) PROVE TmpBecomes /\ ~overrun
  <2>1. UNCHANGED <<path, file>> /\ RollsBack(r)
    BY <1>7 DEF Fail
  <2> QED
    BY <2>1, UnlinksFacts DEF RollsBack, TmpBecomes
<1>8. ASSUME NEW r \in Runners, Crash(r) PROVE TmpBecomes /\ ~overrun
  <2>1. UNCHANGED <<path, overrun>>
    BY <1>8 DEF Crash
  <2>2. CASE file' = file
    BY <2>1, <2>2 DEF TmpBecomes
  <2>3. CASE /\ runner[r].pc \in Flushing /\ ~Restorable(r)
             /\ \E x \in Torn(runner[r].ino) : file' = [file EXCEPT ![runner[r].ino] = x]
    <3>1. runner[r].ino # path["tmp"] /\ runner[r].ino \in Inodes
      BY <2>1, <2>3, TornIsNameless, WriterFacts DEF Transactions
    <3> QED
      BY <2>1, <2>3, <3>1, TmpFrame
  <2> QED
    BY <1>8, <2>2, <2>3 DEF Crash
<1> QED
  BY <1>1, <1>2, <1>3, <1>4, <1>5, <1>6, <1>7, <1>8 DEF Next

\* What is overrun stays so; before it what was kept was kept.
LEMMA KeptBefore == IInv /\ [Next]_vars /\ ~overrun' => ~overrun /\ Kept
  BY TmpSteps DEF IInv

\* Runners see what there is to be seen.
LEMMA RunnersLook ==
  ASSUME IInv, [Next]_vars, ~overrun'
  PROVE  \A s \in Runners : Looks(s)
PROOF
<1>1. CASE UNCHANGED runner
  BY <1>1 DEF Looks
<1>2. CASE \E r \in Runners : \/ FullStep(r) \/ IncrementalStep(r) \/ VerifyStep(r)
                              \/ Flush(r) \/ Fail(r) \/ Crash(r)
  BY <1>2, RunnerLooks
<1> QED
  BY <1>1, <1>2 DEF Next, EditDoc, ChangeModel, Recover, SQLiteStep, TakeJournal, vars

\* What runners hold is what they held, and what there is to be seen now.
LEMMA LookIsPromised ==
  ASSUME IInv, [Next]_vars, ~overrun'
  PROVE  Snapshot!Look
PROOF
<1>1. IInv' /\ TmpBecomes /\ \A s \in Runners : Looks(s)
  BY StepKeepsInvariant, TmpSteps, RunnersLook
<1>2. source' \in Snapshot!Contents
  BY <1>1 DEF IInv, Typed, TypeOK, Snapshot!Contents, Scans
<1>3. ASSUME NEW s \in Runners, runner[s].pc \in ScanPhases PROVE runner[s].scan \in Scanned
  BY <1>3 DEF Scanned, ScanPhases
<1>4. ASSUME NEW s \in Runners, runner'[s].pc \in ScanPhases
      PROVE  runner'[s].scan \in Scanned \cup {source, NoScan}
  BY <1>1, <1>3, <1>4 DEF Looks
<1>5. ASSUME path'["tmp"] # None, file'[path'["tmp"]] # Damaged
      PROVE  Hashes(file'[path'["tmp"]]) \in Scanned \cup {source, NoScan}
  <2>1. CASE path'["tmp"] = path["tmp"] /\ file'[path["tmp"]] = file[path["tmp"]]
    BY <1>5, <2>1 DEF Scanned
  <2>2. CASE file'[path'["tmp"]] = EmptyIndex
    BY <2>2 DEF Hashes, EmptyIndex, NoScan
  <2>3. ASSUME NEW r \in Runners, runner[r].pc = "flush tmp",
               file'[path'["tmp"]] = Embedded(runner[r].scan, runner[r].dim)
        PROVE  Hashes(file'[path'["tmp"]]) \in Scanned
    <3>1. runner[r].scan \in Scans /\ runner[r].dim \in Dims
      BY <2>3, RunnerFacts, WriterFacts DEF Transactions, Flushing, IInv
    <3>2. Hashes(file'[path'["tmp"]]) = runner[r].scan
      BY <2>3, <3>1, EmbeddedHashes
    <3> QED
      BY <1>3, <2>3, <3>2 DEF ScanPhases
  <2> QED
    BY <1>1, <1>5, <2>1, <2>2, <2>3 DEF TmpBecomes
<1>6. Scanned' = {runner'[s].scan : s \in {q \in Runners : runner'[q].pc \in ScanPhases}}
                 \cup IF path'["tmp"] = None \/ file'[path'["tmp"]] = Damaged THEN {}
                      ELSE {Hashes(file'[path'["tmp"]])}
  BY DEF Scanned, ScanPhases, Hashes
<1>7. Scanned' \subseteq Scanned \cup {source, NoScan}
  BY <1>4, <1>5, <1>6
<1>8. ASSUME NEW s \in Runners, runner'[s].pc \in ViewPhases
      PROVE  runner'[s].seen \in Viewed \cup {Shown}
  BY <1>1, <1>8 DEF Looks, Viewed, ViewPhases
<1>9. Viewed' = {runner'[s].seen : s \in {q \in Runners : runner'[q].pc \in ViewPhases}}
  BY DEF Viewed, ViewPhases
<1>10. Viewed' \subseteq Viewed \cup {Shown}
  BY <1>8, <1>9
<1> QED
  BY <1>2, <1>7, <1>10 DEF Snapshot!Look, Snapshot!Nothing, Snapshot!Hashes, NoScan, Shown, Hashes

\* Installing what a full run made is a step the promise allows.
LEMMA InstallSteps ==
  ASSUME IInv, path["tmp"] # None, OneModel(file[path["tmp"]]), Served' = file[path["tmp"]]
  PROVE  Snapshot!Install
<1>1. PICK S \in Scans, m \in Dims : file[path["tmp"]] = Embedded(S, m)
  BY DEF OneModel
<1>2. Hashes(file[path["tmp"]]) = S /\ file[path["tmp"]] # Damaged
  BY <1>1, EmbeddedHashes, EmbeddedTyped, DamagedIsNoIndex
<1>3. S \in Scanned
  BY <1>2 DEF Scanned
<1>4. Served' = Snapshot!Embedded(S, m)
  BY <1>1 DEF Embedded, Snapshot!Embedded
<1> QED
  BY <1>3, <1>4 DEF Snapshot!Install

\* So is the commit of an incremental run.
LEMMA UpdateSteps ==
  ASSUME IInv, NEW r \in Runners, runner[r].pc = "flush db",
         path["db"] # None, runner[r].ino = path["db"], Served' = Merged(r)
  PROVE  Snapshot!Update
<1> DEFINE S == runner[r].scan
           E == runner[r].seen
           m == runner[r].dim
<1>1. S \in Scanned /\ E \in Viewed /\ m \in Dims
  BY WriterFacts DEF Scanned, Viewed, Transactions, Flushing
<1>2. Served = file[path["db"]] /\ Served # None
  BY Naming, NoneIsNoIndex, RagIndexAssumption DEF Served, IInv, Typed
<1>3. Served' = [d \in Docs |-> IF S[d] = E[d] THEN Served[d] ELSE Snapshot!Embedded(S, m)[d]]
  BY <1>2 DEF Merged, Changed, Embedded, Snapshot!Embedded
<1> HIDE DEF S, E, m
<1> QED
  BY <1>1, <1>2, <1>3 DEF Snapshot!Update

\* Steps that leave rag.db and what was committed.
LEMMA OtherSteps ==
  ASSUME IInv, [Next]_vars,
         ~ \E r \in Runners : OpenDb(r) \/ Replace(r) \/ CommitWrite(r)
  PROVE  UNCHANGED <<path["db"], committed>>
PROOF
<1>1. path \in [{"db", "tmp"} -> Inodes \cup {None}]
  BY DEF IInv, Typed, TypeOK, Names
<1>2. CASE \/ \E d \in Docs, v \in Versions \cup {None} : EditDoc(d, v)
           \/ \E m \in Dims : ChangeModel(m)
  BY <1>2 DEF EditDoc, ChangeModel
<1>3. CASE (\E n \in Names : Recover(n)) \/ UNCHANGED vars
  BY <1>3 DEF Recover, vars
<1>4. ASSUME NEW r \in Runners, FullStep(r) PROVE UNCHANGED <<path["db"], committed>>
  BY <1>1, <1>4 DEF FullStep, StartFull, Unlink, Nameless, ScanFull, OpenTmp, Creates, BeginPersist,
       CommitPersist, SelfCheck, SelfCheckMissing, CleanUp
<1>5. ASSUME NEW r \in Runners, IncrementalStep(r) PROVE UNCHANGED <<path["db"], committed>>
  BY <1>5 DEF IncrementalStep, StartIncremental, CommitNothing, BeginWrite, Report
<1>6. ASSUME NEW r \in Runners, VerifyStep(r) PROVE UNCHANGED <<path["db"], committed>>
  BY <1>6 DEF VerifyStep, StartVerify, CountChunks, CompareDims, SampleQuery, SkipSampleQuery
<1>7. ASSUME NEW r \in Runners, SQLiteStep(r) PROVE UNCHANGED <<path["db"], committed>>
  BY <1>7 DEF SQLiteStep, Flush, TakeJournal
<1>8. ASSUME NEW r \in Runners, Fail(r) \/ Crash(r) PROVE UNCHANGED <<path["db"], committed>>
  BY <1>8 DEF Fail, Crash
<1> QED
  BY <1>2, <1>3, <1>4, <1>5, <1>6, <1>7, <1>8 DEF Next

\* What a search reads changes as the promise says.
LEMMA IndexIsPromised ==
  ASSUME IInv, [Next]_vars, ~overrun'
  PROVE  Snapshot!Create \/ Snapshot!Install \/ Snapshot!Update \/ UNCHANGED Served
PROOF
<1>1. IInv' /\ ~overrun
  BY StepKeepsInvariant, TmpSteps
<1>2. /\ Kept /\ Kept'
      /\ Served = IF path["db"] = None THEN None ELSE committed
      /\ Served' = IF path'["db"] = None THEN None ELSE committed'
  BY <1>1 DEF IInv, Kept, Served
<1>3. ASSUME NEW r \in Runners, OpenDb(r) PROVE Snapshot!Create \/ UNCHANGED Served
  <2>1. CASE UNCHANGED <<path, committed>>
    BY <1>2, <2>1
  <2>2. CASE path["db"] = None /\ Creates("db") /\ committed' = EmptyIndex
    <3>1. path'["db"] # None
      BY <2>2, FreshFacts, RagIndexAssumption DEF Creates, IInv, Typed, TypeOK, Names
    <3>2. Served = None /\ Served' = Snapshot!Nothing
      BY <1>2, <2>2, <3>1 DEF EmptyIndex, Snapshot!Nothing
    <3> QED
      BY <3>2 DEF Snapshot!Create
  <2> QED
    BY <1>3, <2>1, <2>2 DEF OpenDb
<1>4. ASSUME NEW r \in Runners, Replace(r) PROVE Snapshot!Install
  <2>1. path["tmp"] # None /\ path'["db"] = path["tmp"] /\ committed' = file[path["tmp"]]
    BY <1>4 DEF Replace, Names
  <2>2. OneModel(file[path["tmp"]]) /\ Served' = file[path["tmp"]]
    BY <1>2, <2>1 DEF Kept
  <2> QED
    BY <2>1, <2>2, InstallSteps
<1>5. ASSUME NEW r \in Runners, CommitWrite(r) PROVE Snapshot!Update
  <2>1. /\ UNCHANGED path /\ runner[r].pc = "flush db" /\ runner[r].pc \in Transactions
        /\ committed' = IF runner[r].ino = path["db"] THEN Merged(r) ELSE committed
    BY <1>5 DEF CommitWrite, Transactions, Flushing
  <2>2. runner[r].ino = path["db"] /\ path["db"] # None
    BY <1>2, <2>1, WriterFacts, RagIndexAssumption DEF Kept, Holds
  <2>3. Served' = Merged(r)
    BY <1>2, <2>1, <2>2
  <2> QED
    BY <2>1, <2>2, <2>3, UpdateSteps
<1>6. CASE ~ \E r \in Runners : OpenDb(r) \/ Replace(r) \/ CommitWrite(r)
  <2>1. UNCHANGED <<path["db"], committed>>
    BY <1>6, OtherSteps
  <2> QED
    BY <1>2, <2>1
<1> QED
  BY <1>3, <1>4, <1>5, <1>6

\* Every step is one of the promise, as long as there is no overrun.
LEMMA StepIsPromised ==
  ASSUME IInv, [Next]_vars, ~overrun'
  PROVE  ~overrun /\ Snapshot!Next
  BY TmpSteps, LookIsPromised, IndexIsPromised DEF Snapshot!Next

\* Any number of runners, failures and kills: what a search reads changes in
\* single steps, each the whole effect of one reindex, as long as nothing is
\* overrun.
THEOREM StepsUnlessOverrunHolds == Spec => StepsUnlessOverrun
<1>1. IInv /\ [Next]_vars => [~overrun' => [Snapshot!Next]_<<source, Served, Scanned, Viewed>>]_vars
  BY StepIsPromised
<1> QED
  BY Invariance, <1>1, PTL DEF Spec, StepsUnlessOverrun

\* Before anything is indexed there is nothing to serve.
LEMMA NothingServed == Init => Snapshot!Init /\ ~overrun
<1> SUFFICES ASSUME Init PROVE Snapshot!Init /\ ~overrun
  OBVIOUS
<1>1. \A r \in Runners : runner[r].pc = "idle"
  BY DEF Init, Ended, Begun, Local
<1>2. Served = None /\ Scanned = {} /\ Viewed = {}
  BY <1>1 DEF Init, Served, Scanned, Viewed, Names
<1> QED
  BY <1>2 DEF Init, Snapshot!Init, Snapshot!Contents, Scans

---------------------------------------------------------------------------
(* Incremental and verify runs alone                                       *)

\* Without a full reindex a connection stays on the file that is called rag.db.
OnlyDb == \A r \in Runners : runner[r].pc \in OnDb => runner[r].ino = path["db"]

\* No phase of a full run is ever reached.
LEMMA NoFullRuns ==
  ASSUME "full" \notin Modes, IInv, NEW r \in Runners
  PROVE  runner[r].pc \notin FullPhases /\ ~FullStep(r) /\ (runner[r].pc \in AllPhases \ Settled => runner[r].mode # "full")
PROOF
<1>1. runner[r].pc \notin FullPhases /\ Phases(runner[r])
  BY DEF IInv, PhasesFit, Phases
<1>2. ~StartFull(r)
  BY DEF StartFull
<1>3. ~FullStep(r)
  BY <1>1, <1>2 DEF FullStep, Unlink, ScanFull, OpenTmp, BeginPersist, CommitPersist, SelfCheck,
       SelfCheckMissing, Replace, CleanUp, FullPhases, CleanUpPhases
<1> QED
  BY <1>1, <1>3 DEF AllPhases, Phases

\* A runner that has rag.db open has the file of that name.
LEMMA OneOnDb ==
  ASSUME IInv, OnlyDb, NEW r \in Runners, NEW l, Becomes(r, l), l.pc \in OnDb => l.ino = path'["db"],
         path'["db"] = path["db"] \/ path["db"] = None
  PROVE  OnlyDb'
<1>1. runner'[r] = l /\ \A s \in Runners : s # r => runner'[s] = runner[s]
  BY DEF Becomes, IInv, Typed, TypeOK
<1>2. \A s \in Runners : runner[s].pc \in OnDb => path["db"] # None
  BY RagIndexAssumption DEF OnlyDb, IInv, PhasesFit, Phases, Opened
<1> QED
  BY <1>1, <1>2 DEF OnlyDb

\* Nothing is overrun then.
LEMMA IncrementalStepKeeps ==
  ASSUME "full" \notin Modes, IInv, OnlyDb, ~overrun, [Next]_vars
  PROVE  OnlyDb' /\ ~overrun'
PROOF
<1>1. CASE UNCHANGED <<path, runner, overrun>>
  BY <1>1 DEF OnlyDb
<1>2. ASSUME NEW r \in Runners, NEW pc, NEW scan, NEW ino, NEW seen, Sets(r, pc, scan, ino, seen),
             pc \in OnDb => ino = path'["db"], path'["db"] = path["db"] \/ path["db"] = None
      PROVE  OnlyDb'
  <2> DEFINE l == Local(pc, runner[r].mode, scan, runner[r].dim, ino, seen)
  <2>1. Becomes(r, l) /\ l.pc = pc /\ l.ino = ino
    BY <1>2 DEF Sets, Local
  <2> HIDE DEF l
  <2> QED
    BY <1>2, <2>1, OneOnDb
<1>3. ASSUME NEW r \in Runners, NEW pc \in {"open db", "validate", "failed", "idle"},
             \E mode, scan, dim : Becomes(r, Begun(pc, mode, scan, dim)), UNCHANGED path
      PROVE  OnlyDb'
  <2>1. PICK mode, scan, dim : Becomes(r, Begun(pc, mode, scan, dim))
    BY <1>3
  <2> DEFINE l == Begun(pc, mode, scan, dim)
  <2>2. Becomes(r, l) /\ l.pc \notin OnDb
    BY <2>1 DEF Begun, Local, OnDb
  <2> HIDE DEF l
  <2> QED
    BY <1>3, <2>2, OneOnDb
<1>4. ASSUME NEW r \in Runners, runner[r].pc \in Transactions, UnlinksJournal(r) PROVE ~overrun'
  <2>1. runner[r].pc \in {"writing", "flush db"} /\ NameOf(r) = "db"
    BY <1>4, NoFullRuns, WriterFacts DEF FullPhases
  <2>2. runner[r].ino = path["db"] /\ (journal["db"] = None \/ journal["db"].ino = path["db"])
    BY <2>1 DEF IInv, Kept, Holds
  <2> QED
    BY <1>4, <2>1, <2>2 DEF UnlinksJournal
<1>5. ASSUME NEW r \in Runners, IncrementalStep(r) PROVE OnlyDb' /\ ~overrun'
  <2>1. CASE StartIncremental(r)
    BY <1>3, <2>1 DEF StartIncremental
  <2>2. CASE OpenDb(r)
    <3>1. CASE UNCHANGED path /\ Sets(r, "classified", runner[r].scan, path["db"], Hashes(file[path["db"]]))
      BY <1>2, <2>2, <3>1 DEF OpenDb
    <3>2. CASE /\ path["db"] = None /\ Creates("db")
               /\ Sets(r, "classified", runner[r].scan, FreshInode, NoScan)
      <4>1. path'["db"] = FreshInode
        BY <3>2 DEF Creates, IInv, Typed, TypeOK, Names
      <4> QED
        BY <1>2, <2>2, <3>2, <4>1 DEF OpenDb
    <3> QED
      BY <2>2, <3>1, <3>2 DEF OpenDb
  <2>3. CASE CommitNothing(r) \/ BeginWrite(r) \/ CommitWrite(r)
    <3>1. runner[r].ino = path["db"] /\ UNCHANGED path
      BY <2>3 DEF CommitNothing, BeginWrite, CommitWrite, OnlyDb, OnDb
    <3>2. \E pc : Sets(r, pc, runner[r].scan, runner[r].ino, runner[r].seen)
      BY <2>3 DEF CommitNothing, BeginWrite, CommitWrite, Moves
    <3>3. OnlyDb'
      BY <1>2, <3>1, <3>2
    <3>4. ~overrun'
      BY <1>4, <2>3 DEF CommitNothing, BeginWrite, CommitWrite, Transactions, Flushing
    <3> QED
      BY <3>3, <3>4
  <2>4. CASE Report(r)
    BY <1>2, <2>4 DEF Report, OnDb
  <2> QED
    BY <1>5, <2>1, <2>2, <2>3, <2>4 DEF IncrementalStep
<1>6. ASSUME NEW r \in Runners, VerifyStep(r) PROVE OnlyDb' /\ ~overrun'
  <2>1. CASE \E e \in Dims \cup {AnyDim} : StartVerify(r, e)
    <3>1. UNCHANGED <<path, overrun>> /\ \E mode, scan, dim : Becomes(r, Begun("validate", mode, scan, dim))
      BY <2>1 DEF StartVerify
    <3> QED
      BY <1>3, <3>1
  <2>2. CASE CountChunks(r)
    BY <1>2, <2>2 DEF CountChunks
  <2>3. CASE CompareDims(r)
    <3>1. /\ UNCHANGED <<path, overrun>>
          /\ Sets(r, "sample query", runner[r].scan, None, runner[r].seen)
      BY <2>3 DEF CompareDims
    <3> QED
      BY <1>2, <3>1 DEF OnDb
  <2>4. CASE SampleQuery(r) \/ SkipSampleQuery(r)
    <3>1. /\ UNCHANGED <<path, overrun>>
          /\ Sets(r, "succeeded", runner[r].scan, runner[r].ino, runner[r].seen)
      BY <2>4 DEF SampleQuery, SkipSampleQuery, Moves
    <3> QED
      BY <1>2, <3>1 DEF OnDb
  <2> QED
    BY <1>6, <2>1, <2>2, <2>3, <2>4 DEF VerifyStep
<1>7. ASSUME NEW r \in Runners, Flush(r) PROVE OnlyDb' /\ ~overrun'
  <2>1. runner[r].pc = "writing" /\ runner[r].ino = path["db"]
    BY <1>7, NoFullRuns DEF Flush, FullPhases, OnlyDb, OnDb
  <2>2. Sets(r, "flush db", runner[r].scan, runner[r].ino, runner[r].seen) /\ UNCHANGED <<path, overrun>>
    BY <1>7, <2>1 DEF Flush, Moves
  <2> QED
    BY <1>2, <2>1, <2>2
<1>8. ASSUME NEW r \in Runners, TakeJournal(r) PROVE FALSE
  <2>1. /\ runner[r].pc \in {"begin", "classified", "stats", "dims"}
        /\ path[NameOf(r)] \notin {runner[r].ino, None}
    BY <1>8 DEF TakeJournal
  <2>2. runner[r].pc \in OnDb /\ runner[r].mode # "full"
    BY <2>1, NoFullRuns DEF OnDb, FullPhases, IncrementalPhases, VerifyPhases, AllPhases, Settled
  <2> QED
    BY <2>1, <2>2 DEF NameOf, OnlyDb
<1>9. ASSUME NEW r \in Runners, Fail(r) PROVE OnlyDb' /\ ~overrun'
  <2>1. runner[r].mode # "full"
    BY <1>9, NoFullRuns DEF Fail, MayFail, AllPhases, Settled, FullPhases, IncrementalPhases, VerifyPhases
  <2>2. OnlyDb'
    BY <1>3, <1>9, <2>1 DEF Fail, FailsWith, Ended
  <2>3. ~overrun'
    BY <1>4, <1>9 DEF Fail, RollsBack
  <2> QED
    BY <2>2, <2>3
<1>10. ASSUME NEW r \in Runners, Crash(r) PROVE OnlyDb' /\ ~overrun'
  BY <1>3, <1>10 DEF Crash, Ended
<1> QED
  BY <1>1, <1>5, <1>6, <1>7, <1>8, <1>9, <1>10, NoFullRuns
     DEF Next, EditDoc, ChangeModel, Recover, SQLiteStep, vars

\* Without full runs there is no os.replace that could overrun anything:
\* incremental runs that fail or are killed at any point leave rag.db with
\* what was committed last, and implement the promise.
THEOREM IncrementalRunsKeepThePromise ==
  ASSUME "full" \notin Modes
  PROVE  Spec => []ServesLastCommit /\ ImplementsIndex
<1>1. IInv /\ [Next]_vars /\ OnlyDb /\ ~overrun => OnlyDb' /\ ~overrun'
  BY IncrementalStepKeeps
<1>2. Init => Snapshot!Init /\ ~overrun
  BY NothingServed
<1>3. Init => OnlyDb
  <2>1. Init => \A r \in Runners : runner[r].pc = "idle"
    BY DEF Init, Ended, Begun, Local
  <2> QED
    BY <2>1 DEF OnlyDb, OnDb
<1>4. IInv /\ [Next]_vars /\ OnlyDb /\ ~overrun => [Snapshot!Next]_<<source, Served, Scanned, Viewed>>
  BY <1>1, StepIsPromised
<1>5. ServesUnlessOverrun /\ ~overrun => ServesLastCommit
  BY DEF ServesUnlessOverrun
<1> QED
  BY Invariance, ServesUnlessOverrunHolds, <1>1, <1>2, <1>3, <1>4, <1>5, PTL
     DEF Spec, ImplementsIndex, Snapshot!Spec

---------------------------------------------------------------------------
(* Runners that do not overlap                                             *)

\* One runner at work at a time, as a single worker starts them.
Alone == \A r, s \in Runners : runner[r].pc \notin Settled /\ runner[s].pc \notin Settled => r = s

\* What a kill can spoil is rag.db while its pages are written: a runner killed
\* anywhere else harms nobody.
Spared == \A r \in Runners : runner[r].pc = "flush db" => runner'[r].pc # "idle"

\* A step of runners that take turns.
InTurn == Alone /\ Alone' /\ Spared

\* Then a journal of rag.db is that of the transaction at work.
JournalAtWork == journal["db"] # None => \E r \in Runners : runner[r].pc = "flush db"

\* What a runner has achieved that nobody has disturbed, by where it is.
Reached(l) ==
  /\ l.pc \in {"scan", "open tmp"} => path["tmp"] = None
  /\ l.pc \in {"begin", "persist", "flush tmp"} => l.ino = path["tmp"]
  /\ l.pc \in {"begin", "persist", "self-check", "replace"} => journal["tmp"] = None
  /\ l.pc \in {"self-check", "replace"} =>
       (path["tmp"] # None => file[path["tmp"]] = Embedded(l.scan, l.dim))
  /\ l.pc = "replace" => (path["tmp"] # None => HasChunks(file[path["tmp"]]))
  /\ l.pc \in {"clean up ok", "unlink ok"} \/ (l.pc = "succeeded" /\ l.mode = "full") =>
       /\ path["db"] # None /\ l.dim \in Dims
       /\ file[path["db"]] = Embedded(l.scan, l.dim) /\ HasChunks(file[path["db"]])
  /\ l.pc \in {"classified", "writing", "flush db"} =>
       path["db"] # None /\ l.ino = path["db"] /\ l.seen = Hashes(file[path["db"]])
  /\ l.pc = "stats" => l.ino = path["db"]
  /\ l.pc = "stats" \/ (l.pc = "succeeded" /\ l.mode = "incremental") =>
       path["db"] # None /\ Hashes(file[path["db"]]) = l.scan
  /\ l.pc = "dims" => path["db"] # None /\ l.ino = path["db"]
  /\ l.pc = "sample query" \/ (l.pc = "succeeded" /\ l.mode = "verify") =>
       /\ path["db"] # None /\ HasChunks(file[path["db"]])
       /\ DimsAsExpected(file[path["db"]], l.dim)

\* Runners that do not overlap, and what each has achieved until it ends.
SoleInv == /\ JournalAtWork /\ ~overrun
           /\ \A r \in Runners : runner[r].pc # "succeeded" => Reached(runner[r])

\* A full reindex has no journal of rag.db.tmp to meet, and a connection to
\* rag.db no journal but that of the transaction at work.
LEMMA NothingTaken ==
  ASSUME IInv, SoleInv
  PROVE  /\ \A n \in Names : ~Recover(n)
         /\ \A r \in Runners : ~TakeJournal(r)
PROOF
<1>1. \A r \in Runners : runner[r].pc # "succeeded" => Reached(runner[r])
  BY DEF SoleInv
<1>2. journal["db"] # None => path["db"] # None /\ Writing(path["db"])
  <2> SUFFICES ASSUME journal["db"] # None PROVE path["db"] # None /\ Writing(path["db"])
    OBVIOUS
  <2>1. PICK s \in Runners : runner[s].pc = "flush db"
    BY DEF SoleInv, JournalAtWork
  <2>2. path["db"] # None /\ runner[s].ino = path["db"]
    BY <1>1, <2>1 DEF Reached
  <2> QED
    BY <2>1, <2>2 DEF Writing, Transactions, Flushing
<1>3. ~Recover("db")
  BY <1>2 DEF Recover, Hot
<1>4. ~Recover("tmp")
  <2> SUFFICES ASSUME Recover("tmp") PROVE FALSE
    OBVIOUS
  <2>1. PICK r \in Runners : runner[r].pc \in {"open tmp", "self-check", "begin"}
    BY DEF Recover
  <2>2. journal["tmp"] # None /\ path["tmp"] # None
    BY DEF Recover, Hot
  <2> QED
    BY <1>1, <2>1, <2>2 DEF Reached
<1>5. ASSUME NEW r \in Runners, TakeJournal(r) PROVE FALSE
  <2>1. /\ runner[r].pc \in {"begin", "classified", "stats", "dims"}
        /\ journal[NameOf(r)] # None /\ path[NameOf(r)] # runner[r].ino
    BY <1>5 DEF TakeJournal
  <2>2. Reached(runner[r])
    BY <1>1, <2>1
  <2>3. CASE runner[r].pc = "begin"
    <3>1. runner[r].mode = "full"
      BY <2>3, FullFacts DEF FullPhases, Failing
    <3> QED
      BY <2>1, <2>2, <2>3, <3>1 DEF Reached, NameOf
  <2>4. CASE runner[r].pc \in {"classified", "stats", "dims"}
    <3>1. runner[r].mode # "full"
      BY <2>4 DEF IInv, PhasesFit, Phases, IncrementalPhases, VerifyPhases
    <3> QED
      BY <2>1, <2>2, <2>4, <3>1 DEF Reached, NameOf
  <2> QED
    BY <2>1, <2>3, <2>4
<1> QED
  BY <1>3, <1>4, <1>5 DEF Names

\* A transaction unlinks its own journal.
LEMMA OwnJournal ==
  ASSUME IInv, SoleInv, NEW r \in Runners, runner[r].pc \in Transactions, UnlinksJournal(r)
  PROVE  ~overrun' /\ journal'[NameOf(r)] = None /\ NameOf(r) \in Names
PROOF
<1>1. Reached(runner[r]) /\ Kept /\ Holds(runner[r]) /\ ~overrun
  BY DEF SoleInv, IInv, Kept, Transactions, Flushing
<1>2. NameOf(r) \in Names /\ journal'[NameOf(r)] = None
  BY WriterFacts, UnlinksFacts
<1>3. CASE NameOf(r) = "tmp"
  <2>1. runner[r].pc \in {"persist", "flush tmp"}
    BY <1>3, WriterFacts
  <2>2. journal["tmp"] = None \/ journal["tmp"].ino = runner[r].ino
    BY <1>1, <2>1 DEF Reached, IInv, TmpNamed
  <2> QED
    BY <1>1, <1>2, <1>3, <2>2 DEF UnlinksJournal
<1>4. CASE NameOf(r) = "db"
  <2>1. runner[r].pc \in {"writing", "flush db"}
    BY <1>4, WriterFacts
  <2>2. journal["db"] = None \/ journal["db"].ino = runner[r].ino
    BY <1>1, <2>1 DEF Holds, Kept
  <2> QED
    BY <1>1, <1>2, <1>4, <2>2 DEF UnlinksJournal
<1> QED
  BY <1>2, <1>3, <1>4 DEF Names

\* A runner that does not write, and changes no journal of rag.db, leaves it so.
LEMMA JournalFrame ==
  ASSUME JournalAtWork, NEW r \in Runners, runner[r].pc # "flush db",
         NEW l, Becomes(r, l), journal'["db"] = journal["db"], IInv
  PROVE  JournalAtWork'
<1>1. \A s \in Runners : s # r => runner'[s] = runner[s]
  BY DEF Becomes, IInv, Typed, TypeOK
<1> QED
  BY <1>1 DEF JournalAtWork

\* So nothing is overrun.
LEMMA JournalStep ==
  ASSUME Alone, Spared, IInv, SoleInv, [Next]_vars
  PROVE  JournalAtWork' /\ ~overrun'
PROOF
<1> DEFINE Goal == JournalAtWork' /\ ~overrun'
<1> SUFFICES Goal
  OBVIOUS
<1>1. JournalAtWork /\ ~overrun
  BY DEF SoleInv
<1>2. ASSUME NEW r \in Runners, runner[r].pc # "flush db", journal'["db"] = journal["db"], ~overrun',
             NEW l, Becomes(r, l)
      PROVE  Goal
  BY <1>1, <1>2, JournalFrame
<1> HIDE DEF Goal
<1>3. CASE \/ \E d \in Docs, v \in Versions \cup {None} : EditDoc(d, v)
           \/ \E m \in Dims : ChangeModel(m)
           \/ UNCHANGED vars
  <2>1. UNCHANGED <<journal, runner, overrun>>
    BY <1>3 DEF EditDoc, ChangeModel, vars
  <2> QED
    BY <1>1, <2>1 DEF JournalAtWork, Goal
<1>4. ASSUME NEW r \in Runners, Replace(r) PROVE Goal
  <2>1. runner[r].pc = "replace" /\ Reached(runner[r])
    BY <1>4 DEF Replace, SoleInv
  <2>2. \A s \in Runners : runner[s].pc \notin Transactions
    <3>1. "replace" \notin Transactions /\ "replace" \notin Settled
          /\ \A pc \in Transactions : pc \notin Settled
      BY DEF Transactions, Flushing, Settled
    <3> QED
      BY <2>1, <3>1 DEF Alone
  <2>3. journal["db"] = None /\ journal["tmp"] = None
    BY <1>1, <2>1, <2>2 DEF JournalAtWork, Reached, Transactions, Flushing
  <2>4. ~InUse
    BY <2>2, <2>3 DEF InUse, Writing, Names
  <2>5. journal'["db"] = None /\ ~overrun'
    BY <1>1, <1>4, <2>3, <2>4 DEF Replace, IInv, Typed, Names
  <2> QED
    BY <2>5 DEF JournalAtWork, Goal
<1>5. ASSUME NEW r \in Runners, CommitPersist(r) PROVE Goal
  <2>1. /\ runner[r].pc = "flush tmp" /\ runner[r].pc \in Transactions /\ UnlinksJournal(r)
        /\ \E l : Becomes(r, l)
    BY <1>5 DEF CommitPersist, Sets, Transactions, Flushing
  <2>2. NameOf(r) = "tmp" /\ ~overrun'
    BY <2>1, WriterFacts, OwnJournal
  <2>3. journal'["db"] = journal["db"]
    BY <2>1, <2>2, UnlinksFacts DEF Names
  <2> QED
    BY <1>2, <2>1, <2>2, <2>3
<1>6. ASSUME NEW r \in Runners, FullStep(r), ~Replace(r), ~CommitPersist(r) PROVE Goal
  <2>1. /\ runner[r].pc # "flush db" /\ journal'["db"] = journal["db"] /\ UNCHANGED overrun
        /\ \E l : Becomes(r, l)
    BY <1>6 DEF FullStep, StartFull, Unlink, Nameless, ScanFull, OpenTmp, BeginPersist,
         SelfCheck, SelfCheckMissing, CleanUp, Moves, Sets, Settled, IInv, Typed, Names
  <2> QED
    BY <1>1, <1>2, <2>1
<1>7. ASSUME NEW r \in Runners, IncrementalStep(r), ~CommitWrite(r) PROVE Goal
  <2>1. /\ runner[r].pc # "flush db" /\ UNCHANGED <<journal, overrun>>
        /\ \E l : Becomes(r, l)
    BY <1>7 DEF IncrementalStep, StartIncremental, OpenDb, CommitNothing, BeginWrite, Report,
         Moves, Sets, Settled
  <2> QED
    BY <1>1, <1>2, <2>1
<1>8. ASSUME NEW r \in Runners, Flush(r) PROVE Goal
  <2>1. CASE runner[r].pc = "persist"
    <3>1. NameOf(r) = "tmp" /\ UNCHANGED overrun /\ \E l : Becomes(r, l)
      BY <1>8, <2>1, WriterFacts DEF Flush, Transactions, Moves, Sets
    <3>2. journal'["db"] = journal["db"]
      BY <1>8, <3>1 DEF Flush, IInv, Typed, Names
    <3> QED
      BY <1>1, <1>2, <2>1, <3>1, <3>2
  <2>2. CASE runner[r].pc = "writing"
    <3>1. runner'[r].pc = "flush db" /\ UNCHANGED overrun
      BY <1>8, <2>2 DEF Flush, Moves, Sets, Becomes, Local, IInv, Typed, TypeOK
    <3> QED
      BY <1>1, <3>1 DEF JournalAtWork, Goal
  <2> QED
    BY <1>8, <2>1, <2>2 DEF Flush
<1>9. ASSUME NEW r \in Runners, runner[r].pc \in {"writing", "flush db"}, UnlinksJournal(r) PROVE Goal
  <2>1. runner[r].pc \in Transactions
    BY <1>9 DEF Transactions, Flushing
  <2>2. NameOf(r) = "db" /\ ~overrun' /\ journal'[NameOf(r)] = None
    BY <1>9, <2>1, WriterFacts, OwnJournal
  <2> QED
    BY <2>2 DEF JournalAtWork, Goal
<1>10. ASSUME NEW r \in Runners, VerifyStep(r) PROVE Goal
  <2>1. /\ runner[r].pc # "flush db" /\ UNCHANGED <<journal, overrun>>
        /\ \E l : Becomes(r, l)
    BY <1>10 DEF VerifyStep, StartVerify, CountChunks, CompareDims, SampleQuery, SkipSampleQuery,
         Moves, Sets, Settled
  <2> QED
    BY <1>1, <1>2, <2>1
<1>11. ASSUME NEW r \in Runners, Fail(r) PROVE Goal
  <2>1. RollsBack(r) /\ \E l : Becomes(r, l)
    BY <1>11 DEF Fail, FailsWith
  <2>2. CASE runner[r].pc \in {"writing", "flush db"}
    BY <1>9, <2>1, <2>2 DEF RollsBack, Transactions, Flushing
  <2>3. CASE runner[r].pc \in {"persist", "flush tmp"}
    <3>1. runner[r].pc \in Transactions /\ UnlinksJournal(r) /\ runner[r].pc # "flush db"
      BY <2>1, <2>3 DEF RollsBack, Transactions, Flushing
    <3>2. NameOf(r) = "tmp" /\ ~overrun'
      BY <2>3, <3>1, WriterFacts, OwnJournal
    <3>3. journal'["db"] = journal["db"]
      BY <3>1, <3>2, UnlinksFacts DEF Names
    <3> QED
      BY <1>2, <2>1, <3>1, <3>2, <3>3
  <2>4. CASE runner[r].pc \notin Transactions
    <3>1. UNCHANGED <<journal, overrun>> /\ runner[r].pc # "flush db"
      BY <2>1, <2>4 DEF RollsBack, Transactions, Flushing
    <3> QED
      BY <1>1, <1>2, <2>1, <3>1
  <2> QED
    BY <2>2, <2>3, <2>4 DEF Transactions, Flushing
<1>12. ASSUME NEW r \in Runners, Crash(r) PROVE Goal
  <2>1. runner'[r].pc = "idle" /\ UNCHANGED <<journal, overrun>> /\ \E l : Becomes(r, l)
    BY <1>12 DEF Crash, Becomes, Ended, Begun, Local, IInv, Typed, TypeOK
  <2>2. runner[r].pc # "flush db"
    BY <2>1 DEF Spared
  <2> QED
    BY <1>1, <1>2, <2>1, <2>2
<1>13. ASSUME NEW r \in Runners, CommitWrite(r) PROVE Goal
  BY <1>9, <1>13 DEF CommitWrite
<1> QED
  BY <1>3, <1>4, <1>5, <1>6, <1>7, <1>8, <1>10, <1>11, <1>12, <1>13, NothingTaken
     DEF Next, IncrementalStep, SQLiteStep

\* The local variables a runner goes on with.
LEMMA SetsIs ==
  ASSUME IInv, NEW r \in Runners, NEW pc, NEW scan, NEW ino, NEW seen, Sets(r, pc, scan, ino, seen)
  PROVE  LET l == runner'[r] IN
         /\ l.pc = pc /\ l.mode = runner[r].mode /\ l.scan = scan /\ l.dim = runner[r].dim
         /\ l.ino = ino /\ l.seen = seen
<1>1. runner'[r] = Local(pc, runner[r].mode, scan, runner[r].dim, ino, seen)
  BY DEF Sets, Becomes, IInv, Typed, TypeOK
<1> QED
  BY <1>1 DEF Local

\* Those of a runner that moves on with what it has.
LEMMA MovesIs ==
  ASSUME IInv, NEW r \in Runners, NEW pc, Moves(r, pc)
  PROVE  LET l == runner'[r] IN
         /\ l.pc = pc /\ l.mode = runner[r].mode /\ l.scan = runner[r].scan /\ l.dim = runner[r].dim
         /\ l.ino = runner[r].ino /\ l.seen = runner[r].seen
<1>1. Sets(r, pc, runner[r].scan, runner[r].ino, runner[r].seen)
  BY DEF Moves
<1> QED
  BY <1>1, SetsIs

\* What was embedded by one model has one dimension.
LEMMA EmbeddedUniform ==
  ASSUME NEW scan \in Scans, NEW dim \in Dims
  PROVE  DimsAsExpected(Embedded(scan, dim), dim)
  BY DEF Embedded, DimsAsExpected

\* After the commit of an incremental run the documents map is what it scanned.
LEMMA MergedHashes ==
  ASSUME NEW r \in Runners, runner[r].scan \in Scans, runner[r].dim \in Dims,
         runner[r].seen = Hashes(file[runner[r].ino])
  PROVE  Hashes(Merged(r)) = runner[r].scan
<1> DEFINE s == runner[r].scan
           x == Merged(r)
<1>1. s = [d \in Docs |-> s[d]]
  BY DEF Scans
<1>2. ASSUME NEW d \in Docs PROVE (IF x[d] = None THEN None ELSE x[d].ver) = s[d]
  <2>1. CASE d \in Changed(r)
    <3>1. x[d] = Embedded(s, runner[r].dim)[d]
      BY <2>1 DEF Merged
    <3>2. s[d] # None => [ver |-> s[d], dim |-> runner[r].dim] # None
      BY NoneIsNoIndex DEF Entry, Scans
    <3> QED
      BY <3>1, <3>2 DEF Embedded
  <2>2. CASE d \notin Changed(r)
    BY <2>2 DEF Merged, Changed, Hashes
  <2> QED
    BY <2>1, <2>2
<1> HIDE DEF s, x
<1>3. [d \in Docs |-> IF x[d] = None THEN None ELSE x[d].ver] = s
  BY <1>1, <1>2
<1> QED
  BY <1>3 DEF Hashes, s, x

\* A full run that is alone builds, checks and installs what it scanned.
LEMMA SoleFull ==
  ASSUME IInv, SoleInv, NEW r \in Runners, FullStep(r)
  PROVE  Reached(runner[r])'
PROOF
<1>1. runner[r].pc # "succeeded" => Reached(runner[r])
  BY DEF SoleInv
<1>2. /\ runner \in [Runners -> Runner] /\ path \in [{"db", "tmp"} -> Inodes \cup {None}]
      /\ file \in [Inodes -> Index \cup {Damaged}]
      /\ journal = [n \in {"db", "tmp"} |-> journal[n]]
      /\ runner[r].pc \in {"begin", "persist", "flush tmp"} => runner[r].ino \in Inodes
  BY DEF IInv, Typed, TypeOK, PhasesFit, Phases, Names, Opened
<1>3. CASE StartFull(r)
  <2>1. /\ runner'[r].pc \in {"scan", "unlink first"} /\ UNCHANGED path
        /\ runner'[r].pc = "scan" => path["tmp"] = None
    BY <1>2, <1>3 DEF StartFull, Becomes, Begun, Local
  <2> QED
    BY <2>1 DEF Reached
<1>4. CASE ScanFull(r)
  <2>1. runner[r].pc = "scan" /\ runner'[r].pc = "open tmp" /\ UNCHANGED path
    BY <1>4, SetsIs DEF ScanFull
  <2> QED
    BY <1>1, <2>1 DEF Reached
<1>5. CASE OpenTmp(r)
  <2>1. path["tmp"] = None
    BY <1>1, <1>5 DEF OpenTmp, Reached
  <2>2. Sets(r, "begin", runner[r].scan, FreshInode, NoScan) /\ Creates("tmp") /\ UNCHANGED journal
    BY <1>5, <2>1 DEF OpenTmp
  <2>3. runner'[r].pc = "begin" /\ runner'[r].ino = path'["tmp"]
    <3>1. runner'[r].pc = "begin" /\ runner'[r].ino = FreshInode
      BY <2>2, SetsIs
    <3> QED
      BY <1>2, <2>2, <3>1 DEF Creates
  <2>4. journal'["tmp"] = None
    BY <2>1, <2>2 DEF IInv, TmpNamed
  <2> QED
    BY <2>3, <2>4 DEF Reached
<1>6. CASE BeginPersist(r)
  <2>1. /\ runner[r].pc = "begin" /\ runner'[r].pc = "persist" /\ runner'[r].ino = path["tmp"]
        /\ UNCHANGED <<path, journal>>
    <3>1. /\ runner[r].pc = "begin" /\ path["tmp"] = runner[r].ino /\ Moves(r, "persist")
          /\ UNCHANGED <<path, journal>>
      BY <1>6 DEF BeginPersist
    <3>2. runner'[r].pc = "persist" /\ runner'[r].ino = runner[r].ino
      BY <3>1, MovesIs
    <3> QED
      BY <3>1, <3>2
  <2> QED
    BY <1>1, <2>1 DEF Reached
<1>7. CASE CommitPersist(r)
  <2>1. /\ runner'[r].pc = "self-check" /\ runner'[r].scan = runner[r].scan
        /\ runner'[r].dim = runner[r].dim /\ UNCHANGED path
        /\ file' = [file EXCEPT ![runner[r].ino] = Embedded(runner[r].scan, runner[r].dim)]
    <3>1. /\ Sets(r, "self-check", runner[r].scan, None, NoScan) /\ UNCHANGED path
          /\ file' = [file EXCEPT ![runner[r].ino] = Embedded(runner[r].scan, runner[r].dim)]
      BY <1>7 DEF CommitPersist
    <3> QED
      BY <3>1, SetsIs
  <2>2. runner[r].ino = path["tmp"] /\ runner[r].ino \in Inodes
    BY <1>1, <1>2, <1>7 DEF CommitPersist, Reached
  <2>3. file'[path["tmp"]] = Embedded(runner[r].scan, runner[r].dim)
    BY <1>2, <2>1, <2>2
  <2>4. Embedded(runner'[r].scan, runner'[r].dim) = Embedded(runner[r].scan, runner[r].dim)
    BY <2>1
  <2>5. journal'["tmp"] = None
    <3>1. runner[r].pc \in Transactions /\ runner[r].pc = "flush tmp" /\ UnlinksJournal(r)
      BY <1>7 DEF CommitPersist, Transactions, Flushing
    <3> QED
      BY <3>1, WriterFacts, OwnJournal
  <2> QED
    BY <2>1, <2>3, <2>4, <2>5 DEF Reached, Embedded
<1>8. CASE SelfCheck(r)
  <2>1. /\ runner[r].pc = "self-check" /\ runner'[r].pc = "replace"
        /\ HasChunks(file[path["tmp"]])
        /\ runner'[r].scan = runner[r].scan /\ runner'[r].dim = runner[r].dim
        /\ UNCHANGED <<path, file, journal>>
    BY <1>8, MovesIs DEF SelfCheck
  <2> QED
    BY <1>1, <2>1 DEF Reached, Embedded, HasChunks
<1>9. CASE SelfCheckMissing(r)
  <2>1. runner'[r].pc = "clean up failed"
    BY <1>2, <1>9 DEF SelfCheckMissing, Becomes, Ended, Begun, Local
  <2> QED
    BY <2>1 DEF Reached
<1>10. CASE Replace(r)
  <2>1. /\ runner[r].pc = "replace" /\ path["tmp"] # None
        /\ path'["db"] = path["tmp"] /\ Moves(r, "clean up ok")
    BY <1>10 DEF Replace, Names
  <2>2. /\ runner'[r].pc = "clean up ok"
        /\ runner'[r].scan = runner[r].scan /\ runner'[r].dim = runner[r].dim
    BY <2>1, MovesIs
  <2>3. runner[r].dim \in Dims
    BY <2>1, FullFacts DEF FullPhases, Failing
  <2>4. file' = file
    <3>1. ~Hot("tmp")
      BY <1>1, <2>1 DEF Reached, Hot
    <3> QED
      BY <1>2, <1>10, <3>1 DEF Replace
  <2>5. file'[path'["db"]] = Embedded(runner[r].scan, runner[r].dim) /\ HasChunks(file[path["db"]])'
    BY <1>1, <2>1, <2>4 DEF Reached, HasChunks
  <2>6. Embedded(runner[r].scan, runner[r].dim)' = Embedded(runner[r].scan, runner[r].dim)
    BY <2>2 DEF Embedded
  <2> QED
    BY <2>1, <2>2, <2>3, <2>5, <2>6 DEF Reached
<1>11. CASE CleanUp(r) \/ Unlink(r)
  <2>1. path'["db"] = path["db"] /\ UNCHANGED file /\ runner[r].pc # "succeeded"
    BY <1>2, <1>11 DEF CleanUp, Unlink, Nameless
  <2>2. ASSUME NEW pc \in {"unlink ok", "succeeded"}, Moves(r, pc),
               runner[r].pc \in {"clean up ok", "unlink ok"}
        PROVE  Reached(runner[r])'
    <3>1. /\ runner'[r].pc = pc /\ runner'[r].mode = runner[r].mode
          /\ runner'[r].scan = runner[r].scan /\ runner'[r].dim = runner[r].dim
      BY <2>2, MovesIs
    <3>2. {"clean up ok", "unlink ok"} \subseteq FullPhases \ Failing
      BY DEF FullPhases, CleanUpPhases, Failing
    <3>3. runner[r].mode = "full"
      BY <2>2, <3>2, FullFacts
    <3>4. /\ path["db"] # None /\ runner[r].dim \in Dims
          /\ file[path["db"]] = Embedded(runner[r].scan, runner[r].dim) /\ HasChunks(file[path["db"]])
      BY <1>1, <2>1, <2>2 DEF Reached
    <3>5. Embedded(runner[r].scan, runner[r].dim)' = Embedded(runner[r].scan, runner[r].dim)
      BY <3>1 DEF Embedded
    <3>6. HasChunks(file[path["db"]])'
      BY <2>1, <3>4 DEF HasChunks
    <3> QED
      BY <2>1, <2>2, <3>1, <3>3, <3>4, <3>5, <3>6 DEF Reached
  <2>3. CASE runner[r].pc = "unlink first" /\ Moves(r, "scan") /\ Unlink(r)
    <3>1. runner'[r].pc = "scan" /\ path'["tmp"] = None
      BY <1>2, <2>3, MovesIs DEF Unlink, Nameless
    <3> QED
      BY <3>1 DEF Reached
  <2>4. ASSUME NEW pc \in {"failed", "unlink failed"}, Becomes(r, Ended(pc)) PROVE Reached(runner[r])'
    <3>1. runner'[r].pc = pc
      BY <1>2, <2>4 DEF Becomes, Ended, Begun, Local
    <3> QED
      BY <3>1 DEF Reached
  <2> QED
    BY <1>11, <2>2, <2>3, <2>4 DEF CleanUp, Unlink
<1> QED
  BY <1>3, <1>4, <1>5, <1>6, <1>7, <1>8, <1>9, <1>10, <1>11 DEF FullStep

\* An incremental run that is alone writes what it read and what it scanned.
LEMMA SoleIncremental ==
  ASSUME IInv, SoleInv, NEW r \in Runners, IncrementalStep(r)
  PROVE  Reached(runner[r])'
PROOF
<1>1. (runner[r].pc # "succeeded" => Reached(runner[r])) /\ Phases(runner[r])
  BY DEF SoleInv, IInv, PhasesFit
<1>2. /\ runner \in [Runners -> Runner] /\ path \in [{"db", "tmp"} -> Inodes \cup {None}]
      /\ file \in [Inodes -> Index \cup {Damaged}]
      /\ runner[r].scan \in Scans /\ runner[r].seen \in Scans
  BY RunnerFacts DEF IInv, Typed, TypeOK, Names
<1>3. {"open db", "classified", "writing", "flush db", "stats"} \subseteq IncrementalPhases
  BY DEF IncrementalPhases
<1>4. CASE StartIncremental(r)
  <2>1. runner'[r].pc = "open db"
    BY <1>2, <1>4 DEF StartIncremental, Becomes, Begun, Local
  <2> QED
    BY <2>1 DEF Reached
<1>5. CASE OpenDb(r)
  <2>1. CASE /\ path["db"] # None /\ UNCHANGED <<path, file, committed>>
             /\ Sets(r, "classified", runner[r].scan, path["db"], Hashes(file[path["db"]]))
    <3>1. /\ runner'[r].pc = "classified" /\ runner'[r].ino = path["db"]
          /\ runner'[r].seen = Hashes(file[path["db"]])
      BY <2>1, SetsIs
    <3> QED
      BY <2>1, <3>1 DEF Reached, Hashes
  <2>2. CASE /\ Creates("db") /\ Sets(r, "classified", runner[r].scan, FreshInode, NoScan)
    <3>1. runner'[r].pc = "classified" /\ runner'[r].ino = FreshInode /\ runner'[r].seen = NoScan
      BY <2>2, SetsIs
    <3>2. /\ path'["db"] = FreshInode /\ FreshInode \in Inodes /\ FreshInode # None
          /\ file'[FreshInode] = EmptyIndex
      BY <1>2, <2>2, FreshFacts, RagIndexAssumption DEF Creates
    <3>3. NoScan = Hashes(EmptyIndex)
      BY DEF NoScan, Hashes, EmptyIndex
    <3> QED
      BY <3>1, <3>2, <3>3 DEF Reached, Hashes
  <2> QED
    BY <1>5, <2>1, <2>2 DEF OpenDb
<1>6. CASE CommitNothing(r)
  <2>1. /\ runner[r].pc = "classified" /\ Moves(r, "stats") /\ UNCHANGED <<path, file>> /\ Changed(r) = {}
    BY <1>6 DEF CommitNothing
  <2>2. /\ runner'[r].pc = "stats" /\ runner'[r].scan = runner[r].scan /\ runner'[r].ino = runner[r].ino
    BY <2>1, MovesIs
  <2>3. runner[r].scan = runner[r].seen
    BY <1>2, <2>1 DEF Changed, Scans
  <2> QED
    BY <1>1, <2>1, <2>2, <2>3 DEF Reached, Hashes
<1>7. CASE BeginWrite(r)
  <2>1. runner[r].pc = "classified" /\ Moves(r, "writing") /\ UNCHANGED <<path, file>>
    BY <1>7 DEF BeginWrite
  <2>2. /\ runner'[r].pc = "writing" /\ runner'[r].ino = runner[r].ino /\ runner'[r].seen = runner[r].seen
    BY <2>1, MovesIs
  <2> QED
    BY <1>1, <2>1, <2>2 DEF Reached, Hashes
<1>9. CASE CommitWrite(r)
  <2>0. /\ runner[r].pc = "flush db" /\ Moves(r, "stats")
        /\ UNCHANGED path /\ file' = [file EXCEPT ![runner[r].ino] = Merged(r)]
    BY <1>9 DEF CommitWrite
  <2>1. runner'[r].pc = "stats" /\ runner'[r].scan = runner[r].scan /\ runner'[r].ino = runner[r].ino
    BY <2>0, MovesIs
  <2>2. /\ runner[r].ino \in Inodes /\ runner[r].dim \in Dims /\ path["db"] # None
        /\ runner[r].ino = path["db"] /\ runner[r].seen = Hashes(file[runner[r].ino])
    BY <1>1, <1>3, <2>0 DEF Reached, Phases, Opened, OnDb
  <2>3. Hashes(Merged(r)) = runner[r].scan
    BY <1>2, <2>2, MergedHashes
  <2>4. file'[path["db"]] = Merged(r)
    BY <1>2, <2>0, <2>2
  <2>5. Hashes(file[path["db"]])' = runner[r].scan
    BY <2>0, <2>3, <2>4 DEF Hashes
  <2>6. path'["db"] # None /\ runner'[r].ino = path'["db"]
    BY <2>0, <2>1, <2>2
  <2> QED
    BY <2>1, <2>5, <2>6 DEF Reached
<1>10. CASE Report(r)
  <2>1. /\ runner[r].pc = "stats" /\ runner'[r].pc = "succeeded" /\ runner'[r].scan = runner[r].scan
        /\ runner'[r].mode = runner[r].mode /\ UNCHANGED <<path, file>>
    BY <1>10, SetsIs DEF Report
  <2>2. runner[r].mode = "incremental"
    BY <1>1, <1>3, <2>1 DEF Phases
  <2> QED
    BY <1>1, <2>1, <2>2 DEF Reached, Hashes
<1> QED
  BY <1>4, <1>5, <1>6, <1>7, <1>9, <1>10 DEF IncrementalStep

\* A verify run that is alone finds the index as it checked it.
LEMMA SoleVerify ==
  ASSUME IInv, SoleInv, NEW r \in Runners, VerifyStep(r)
  PROVE  Reached(runner[r])'
PROOF
<1>1. /\ runner[r].pc # "succeeded" => Reached(runner[r])
      /\ Phases(runner[r]) /\ runner \in [Runners -> Runner]
  BY DEF SoleInv, IInv, PhasesFit, Typed, TypeOK
<1>2. {"validate", "dims", "sample query"} \subseteq VerifyPhases
  BY DEF VerifyPhases
<1>3. ASSUME NEW e \in Dims \cup {AnyDim}, StartVerify(r, e) PROVE Reached(runner[r])'
  <2>1. runner'[r].pc = "validate"
    BY <1>1, <1>3 DEF StartVerify, Becomes, Begun, Local
  <2> QED
    BY <2>1 DEF Reached
<1>4. CASE CountChunks(r)
  <2>1. /\ UNCHANGED path /\ path["db"] # None
        /\ Sets(r, "dims", runner[r].scan, path["db"], runner[r].seen)
    BY <1>4 DEF CountChunks
  <2>2. runner'[r].pc = "dims" /\ runner'[r].ino = path["db"]
    BY <2>1, SetsIs
  <2> QED
    BY <2>1, <2>2 DEF Reached
<1>6. CASE CompareDims(r)
  <2>1. /\ UNCHANGED <<path, file>> /\ runner[r].pc = "dims"
        /\ Sets(r, "sample query", runner[r].scan, None, runner[r].seen)
        /\ HasChunks(file[runner[r].ino]) /\ DimsAsExpected(file[runner[r].ino], runner[r].dim)
    BY <1>6 DEF CompareDims
  <2>2. runner'[r].pc = "sample query" /\ runner'[r].dim = runner[r].dim
    BY <2>1, SetsIs
  <2>3. path["db"] # None /\ runner[r].ino = path["db"]
    BY <1>1, <2>1 DEF Reached
  <2> QED
    BY <2>1, <2>2, <2>3 DEF Reached, HasChunks, DimsAsExpected
<1>5. CASE SampleQuery(r) \/ SkipSampleQuery(r)
  <2>1. /\ runner[r].pc = "sample query" /\ runner'[r].pc = "succeeded" /\ runner'[r].dim = runner[r].dim
        /\ runner'[r].mode = runner[r].mode /\ UNCHANGED <<path, file>>
    BY <1>5, SetsIs DEF SampleQuery, SkipSampleQuery, Moves
  <2>2. runner[r].mode = "verify"
    BY <1>1, <1>2, <2>1 DEF Phases
  <2> QED
    BY <1>1, <2>1, <2>2 DEF Reached, HasChunks, DimsAsExpected
<1> QED
  BY <1>3, <1>4, <1>5, <1>6 DEF VerifyStep

\* A runner of SQLite only: pages are written, of the right file.
LEMMA SoleSQLite ==
  ASSUME IInv, SoleInv, NEW r \in Runners, SQLiteStep(r)
  PROVE  Reached(runner[r])'
PROOF
<1>1. Flush(r)
  BY NothingTaken DEF SQLiteStep
<1>2. runner[r].pc \in {"persist", "writing"} /\ Reached(runner[r])
  BY <1>1 DEF Flush, SoleInv
<1>3. /\ UNCHANGED <<path, file>>
      /\ Moves(r, IF runner[r].pc = "persist" THEN "flush tmp" ELSE "flush db")
  BY <1>1 DEF Flush
<1>4. /\ runner'[r].pc = IF runner[r].pc = "persist" THEN "flush tmp" ELSE "flush db"
      /\ runner'[r].ino = runner[r].ino /\ runner'[r].seen = runner[r].seen
  BY <1>3, MovesIs
<1> QED
  BY <1>2, <1>3, <1>4 DEF Reached, Hashes

\* A runner that fails or is killed.
LEMMA Fallen ==
  ASSUME IInv, NEW r \in Runners, Fail(r) \/ Crash(r)
  PROVE  runner'[r].pc \in {"idle", "failed", "clean up failed"}
<1>1. runner \in [Runners -> Runner]
  BY DEF IInv, Typed, TypeOK
<1>2. PICK pc \in {"idle", "failed", "clean up failed"} : Becomes(r, Ended(pc))
  BY DEF Fail, FailsWith, Crash
<1>3. runner'[r] = Ended(pc)
  BY <1>1, <1>2 DEF Becomes
<1>4. Ended(pc).pc = pc
  BY DEF Ended, Begun, Local
<1> QED
  BY <1>3, <1>4

\* It has achieved nothing.
LEMMA SoleEnds ==
  ASSUME IInv, NEW r \in Runners, Fail(r) \/ Crash(r)
  PROVE  Reached(runner[r])' /\ runner'[r].pc # "succeeded"
  BY Fallen DEF Reached

\* What a runner has achieved is not lost where no file and no name changes.
LEMMA ReachedFrame ==
  ASSUME NEW r \in Runners, Reached(runner[r]), UNCHANGED <<path, file, journal>>, runner'[r] = runner[r]
  PROVE  Reached(runner[r])'
<1>1. /\ Hashes(file[path["db"]])' = Hashes(file[path["db"]])
      /\ HasChunks(file[path["db"]])' = HasChunks(file[path["db"]])
      /\ HasChunks(file[path["tmp"]])' = HasChunks(file[path["tmp"]])
      /\ DimsAsExpected(file[path["db"]], runner[r].dim)' = DimsAsExpected(file[path["db"]], runner[r].dim)
      /\ Embedded(runner[r].scan, runner[r].dim)' = Embedded(runner[r].scan, runner[r].dim)
  BY DEF Hashes, Embedded, HasChunks, DimsAsExpected
<1> QED
  BY <1>1 DEF Reached

RunnerMoves(r) == \/ FullStep(r) \/ IncrementalStep(r) \/ VerifyStep(r) \/ SQLiteStep(r)
                  \/ Fail(r) \/ Crash(r)

\* A step of no runner leaves the runners and the names of files.
LEMMA SurroundingsLeave ==
  ASSUME [Next]_vars, \A r \in Runners : ~RunnerMoves(r)
  PROVE  UNCHANGED <<path, runner>>
  BY DEF Next, RunnerMoves, vars, EditDoc, ChangeModel, Recover

\* Where runners do not overlap there is nothing to recover either.
LEMMA SurroundingsFrame ==
  ASSUME IInv, SoleInv, [Next]_vars, \A r \in Runners : ~RunnerMoves(r)
  PROVE  UNCHANGED <<path, file, journal, runner>>
  BY NothingTaken DEF Next, RunnerMoves, vars, EditDoc, ChangeModel

\* A step of one runner leaves the other runners, and is made or started by it.
LEMMA OneMoves ==
  ASSUME IInv, NEW r \in Runners, RunnerMoves(r)
  PROVE  /\ \A s \in Runners : s # r => runner'[s] = runner[s]
         /\ runner[r].pc \notin Settled \/ runner'[r].pc \notin Settled
<1> DEFINE Others == \A s \in Runners : s # r => runner'[s] = runner[s]
<1>1. ASSUME NEW l, Becomes(r, l) PROVE Others /\ runner'[r] = l
  BY <1>1 DEF Becomes, IInv, Typed, TypeOK
<1>2. ASSUME UNCHANGED runner PROVE Others
  BY <1>2
<1> HIDE DEF Others
<1>3. CASE StartFull(r) \/ StartIncremental(r) \/ \E e \in Dims \cup {AnyDim} : StartVerify(r, e)
  <2>1. \E pc \in {"scan", "unlink first", "open db", "validate"} : \E mode, scan, dim :
          Becomes(r, Begun(pc, mode, scan, dim))
    BY <1>3 DEF StartFull, StartIncremental, StartVerify
  <2>2. PICK pc \in {"scan", "unlink first", "open db", "validate"} : \E mode, scan, dim :
          Becomes(r, Begun(pc, mode, scan, dim))
    BY <2>1
  <2>3. PICK mode, scan, dim : Becomes(r, Begun(pc, mode, scan, dim))
    BY <2>2
  <2>4. Begun(pc, mode, scan, dim).pc = pc
    BY DEF Begun, Local
  <2> QED
    BY <1>1, <2>3, <2>4 DEF Others, Settled
<1>4. CASE FullStep(r) /\ ~StartFull(r)
  <2>1. runner[r].pc \notin Settled /\ \E l : Becomes(r, l)
    BY <1>4 DEF FullStep, ScanFull, OpenTmp, BeginPersist, CommitPersist, SelfCheck, SelfCheckMissing,
         Replace, CleanUp, Unlink, Moves, Sets, Settled
  <2> QED
    BY <1>1, <2>1 DEF Others
<1>5. CASE (IncrementalStep(r) /\ ~StartIncremental(r)) \/ SQLiteStep(r)
  <2>1. runner[r].pc \notin Settled /\ (UNCHANGED runner \/ \E l : Becomes(r, l))
    BY <1>5 DEF IncrementalStep, OpenDb, CommitNothing, BeginWrite, CommitWrite, Report,
         SQLiteStep, Flush, TakeJournal, Moves, Sets, Settled
  <2> QED
    BY <1>1, <1>2, <2>1 DEF Others
<1>6. CASE CountChunks(r) \/ CompareDims(r) \/ SampleQuery(r) \/ SkipSampleQuery(r) \/ Fail(r) \/ Crash(r)
  <2>1. runner[r].pc \notin Settled /\ \E l : Becomes(r, l)
    BY <1>6 DEF CountChunks, CompareDims, SampleQuery, SkipSampleQuery, Fail, FailsWith, MayFail, Crash,
         Moves, Sets, Settled, FullPhases, IncrementalPhases, VerifyPhases
  <2> QED
    BY <1>1, <2>1 DEF Others
<1> QED
  BY <1>3, <1>4, <1>5, <1>6 DEF RunnerMoves, VerifyStep

\* What a runner has achieved, whatever it does next.
LEMMA OwnStep ==
  ASSUME IInv, SoleInv, NEW r \in Runners, RunnerMoves(r)
  PROVE  Reached(runner[r])'
  BY SoleFull, SoleIncremental, SoleVerify, SoleSQLite, SoleEnds DEF RunnerMoves

\* Runners that do not overlap do not disturb each other.
LEMMA SoleStep ==
  ASSUME InTurn, IInv, SoleInv, [Next]_vars
  PROVE  SoleInv'
<1>1. JournalAtWork' /\ ~overrun'
  BY JournalStep DEF InTurn
<1>2. SUFFICES ASSUME NEW r \in Runners, runner'[r].pc # "succeeded" PROVE Reached(runner[r])'
  BY <1>1 DEF SoleInv
<1>3. CASE \A s \in Runners : ~RunnerMoves(s)
  BY <1>2, <1>3, SurroundingsFrame, ReachedFrame DEF SoleInv
<1>4. ASSUME NEW s \in Runners, RunnerMoves(s), s # r PROVE Reached(runner[r])'
  <2>1. runner'[r] = runner[r] /\ runner[r].pc \in Settled
    BY <1>4, OneMoves DEF Alone, InTurn
  <2>2. runner'[r].pc \in {"idle", "failed"}
    BY <1>2, <2>1 DEF Settled
  <2> QED
    BY <2>2 DEF Reached
<1> QED
  BY <1>3, <1>4, OwnStep

\* Nor does a step of nobody.
LEMMA StutterKeepsSole ==
  ASSUME SoleInv, UNCHANGED vars
  PROVE  SoleInv'
<1>1. ASSUME NEW r \in Runners, runner'[r].pc # "succeeded" PROVE Reached(runner[r])'
  BY <1>1, ReachedFrame DEF SoleInv, vars
<1> QED
  BY <1>1 DEF SoleInv, JournalAtWork, vars

\* A runner has what it has reached, unless another is at work.
LEMMA SoleReached == IInv /\ SoleInv /\ [Next]_vars => \A r \in Runners :
  \/ Reached(runner[r])'
  \/ runner'[r] = runner[r] /\ ~Reached(runner[r])
  \/ \E s \in Runners : s # r /\ (runner[s].pc \notin Settled \/ runner'[s].pc \notin Settled)
<1> SUFFICES ASSUME IInv, SoleInv, [Next]_vars, NEW r \in Runners
             PROVE  \/ Reached(runner[r])'
                    \/ runner'[r] = runner[r] /\ ~Reached(runner[r])
                    \/ \E s \in Runners : s # r /\ (runner[s].pc \notin Settled \/ runner'[s].pc \notin Settled)
  OBVIOUS
<1>1. CASE \A s \in Runners : ~RunnerMoves(s)
  BY <1>1, SurroundingsFrame, ReachedFrame
<1> QED
  BY <1>1, OneMoves, OwnStep

\* At first nothing is achieved.
LEMMA InitIdle == Init => \A r \in Runners : runner[r].pc = "idle" /\ Reached(runner[r])
<1> SUFFICES ASSUME Init, NEW r \in Runners PROVE runner[r].pc = "idle" /\ Reached(runner[r])
  OBVIOUS
<1>1. runner[r].pc = "idle"
  BY DEF Init, Ended, Begun, Local
<1> QED
  BY <1>1 DEF Reached

\* And nobody is at work.
LEMMA SoleStart == Init => SoleInv
  BY InitIdle DEF SoleInv, JournalAtWork, Init, Names

\* The invariant of runners that do not overlap.
LEMMA SoleInvariance == Spec /\ [][InTurn]_vars => [](IInv /\ SoleInv)
<1>1. IInv /\ SoleInv /\ [InTurn]_vars /\ [Next]_vars => SoleInv'
  <2>1. CASE InTurn
    BY <2>1, SoleStep
  <2>2. CASE UNCHANGED vars
    BY <2>2, StutterKeepsSole
  <2> QED
    BY <2>1, <2>2
<1> QED
  BY Invariance, SoleStart, <1>1, PTL DEF Spec

\* One runner after the other, of any mode and under any process, whatever
\* fails on the way: rag.db serves what was installed last, what a full run
\* has published has chunks, and a search sees the index change as promised.
THEOREM RunsInTurnKeepThePromise ==
  Spec /\ [][InTurn]_vars => []ServesLastCommit /\ []PublishedHasChunks /\ ImplementsIndex
<1>1. IInv /\ SoleInv => ServesLastCommit
  BY KeptServes DEF SoleInv, IInv
<1>2. IInv /\ SoleInv => PublishedHasChunks
  <2> SUFFICES ASSUME IInv, SoleInv, NEW r \in Runners, runner[r].pc = "clean up ok"
               PROVE  HasChunks(committed)
    BY DEF PublishedHasChunks
  <2>1. path["db"] # None /\ HasChunks(file[path["db"]])
    BY DEF SoleInv, Reached
  <2>2. file[path["db"]] = committed
    BY <2>1 DEF IInv, SoleInv, Kept
  <2> QED
    BY <2>1, <2>2
<1>3. Init => Snapshot!Init
  BY NothingServed
<1>4. IInv /\ [Next]_vars /\ SoleInv' => [Snapshot!Next]_<<source, Served, Scanned, Viewed>>
  BY StepIsPromised DEF SoleInv
<1> QED
  BY SoleInvariance, <1>1, <1>2, <1>3, <1>4, PTL DEF Spec, ImplementsIndex, Snapshot!Spec

\* What the report of a runner claims of the index.
Truth(l) ==
  /\ path["db"] # None
  /\ l.mode \in {"full", "incremental"} => Hashes(file[path["db"]]) = l.scan
  /\ l.mode \in {"full", "verify"} =>
       HasChunks(file[path["db"]]) /\ DimsAsExpected(file[path["db"]], l.dim)

\* A runner that has just succeeded, or succeeded undisturbed, tells the truth.
LEMMA ReachedIsTrue == IInv => \A r \in Runners :
  runner[r].pc = "succeeded" /\ Reached(runner[r]) => Truth(runner[r])
<1> SUFFICES ASSUME IInv, NEW r \in Runners, runner[r].pc = "succeeded", Reached(runner[r])
             PROVE  Truth(runner[r])
  OBVIOUS
<1>1. runner[r].scan \in Scans
  BY RunnerFacts DEF IInv
<1>2. CASE runner[r].mode = "full"
  <2>1. /\ path["db"] # None /\ runner[r].dim \in Dims /\ HasChunks(file[path["db"]])
        /\ file[path["db"]] = Embedded(runner[r].scan, runner[r].dim)
    BY <1>2 DEF Reached
  <2> QED
    BY <1>1, <1>2, <2>1, EmbeddedHashes, EmbeddedUniform DEF Truth
<1>3. CASE runner[r].mode \in {"incremental", "verify"}
  BY <1>3 DEF Reached, Truth
<1> QED
  BY <1>2, <1>3 DEF AllModes, IInv, PhasesFit, Phases

\* One runner after the other: at the moment a run succeeds what it reports
\* is so.  A reindex leaves the documents it scanned, all of them and no
\* others, a full one in one dimension; a verify vouches for the dimension.
RunsReportTruly == [][\A r \in Runners :
  runner[r].pc # "succeeded" /\ runner'[r].pc = "succeeded" => Truth(runner[r])']_vars

\* So it is under any process that lets runners take turns.
THEOREM RunsInTurnReportTruly == Spec /\ [][InTurn]_vars => RunsReportTruly
<1> DEFINE Reports == \A r \in Runners :
             runner[r].pc # "succeeded" /\ runner'[r].pc = "succeeded" => Truth(runner[r])'
<1>0. (IInv => \A r \in Runners : runner[r].pc = "succeeded" /\ Reached(runner[r]) => Truth(runner[r]))'
  BY ReachedIsTrue, PTL
<1>1. ASSUME IInv, SoleInv, IInv', Next PROVE Reports
  <2> SUFFICES ASSUME NEW r \in Runners, runner[r].pc # "succeeded", runner'[r].pc = "succeeded"
               PROVE  Truth(runner[r])'
    OBVIOUS
  <2>1. Reached(runner[r])'
    <3>1. RunnerMoves(r)
      BY <1>1, SurroundingsFrame, OneMoves
    <3> QED
      BY <1>1, <3>1, OwnStep
  <2> QED
    BY <1>1, <2>1, <1>0
<1>2. IInv /\ SoleInv /\ IInv' /\ [Next]_vars => [Reports]_vars
  BY <1>1
<1> QED
  BY SoleInvariance, <1>2, PTL DEF Spec, RunsReportTruly

---------------------------------------------------------------------------
(* One runner                                                              *)

\* A process that is not allowed to be killed is not, and a full or a verify
\* run has no transaction on rag.db.
LEMMA SparedUnlessKilled ==
  ASSUME MaxCrashes = 0 \/ "incremental" \notin Modes
  PROVE  Spec => [][Spared]_vars
<1>1. ASSUME IInv, [Next]_vars, NEW r \in Runners, runner[r].pc = "flush db", runner'[r].pc = "idle"
      PROVE  FALSE
  <2>1. "incremental" \in Modes
    BY <1>1, IncrementalFacts DEF IncrementalPhases
  <2>2. ~Crash(r)
    <3>1. MaxCrashes = 0 /\ crashes \in Nat
      BY <1>1, <2>1 DEF IInv, Typed
    <3>2. ~(crashes < MaxCrashes)
      BY <3>1
    <3> QED
      BY <3>2 DEF Crash
  <2>3. ~Fail(r)
    <3> SUFFICES ASSUME NEW pc \in {"clean up failed", "failed"}, Becomes(r, Ended(pc)) PROVE FALSE
      BY DEF Fail, FailsWith
    <3>1. runner'[r].pc = pc
      BY <1>1 DEF Becomes, Ended, Begun, Local, IInv, Typed, TypeOK
    <3> QED
      BY <1>1, <3>1
  <2>4. ~FullStep(r)
    <3>1. ~StartFull(r) /\ ~ScanFull(r) /\ ~OpenTmp(r) /\ ~BeginPersist(r) /\ ~CommitPersist(r)
      BY <1>1 DEF StartFull, ScanFull, OpenTmp, BeginPersist, CommitPersist, Settled
    <3>2. ~SelfCheck(r) /\ ~SelfCheckMissing(r) /\ ~Replace(r) /\ ~CleanUp(r) /\ ~Unlink(r)
      BY <1>1 DEF SelfCheck, SelfCheckMissing, Replace, CleanUp, Unlink
    <3> QED
      BY <3>1, <3>2 DEF FullStep
  <2>5. ~IncrementalStep(r) /\ ~VerifyStep(r) /\ ~SQLiteStep(r)
    <3>1. ~StartIncremental(r) /\ ~OpenDb(r) /\ ~CommitNothing(r) /\ ~BeginWrite(r) /\ ~Report(r)
      BY <1>1 DEF StartIncremental, OpenDb, CommitNothing, BeginWrite, Report, Settled
    <3>2. ~SQLiteStep(r)
      <4>1. ~Flush(r)
        BY <1>1 DEF Flush
      <4>2. ~TakeJournal(r)
        BY <1>1 DEF TakeJournal
      <4> QED
        BY <4>1, <4>2 DEF SQLiteStep
    <3>3. ~CommitWrite(r)
      <4> SUFFICES ASSUME Moves(r, "stats") PROVE FALSE
        BY DEF CommitWrite
      <4>1. runner'[r].pc = "stats"
        BY MovesIs, <1>1
      <4> QED
        BY <1>1, <4>1
    <3>4. ~VerifyStep(r)
      BY <1>1 DEF VerifyStep, StartVerify, CountChunks, CompareDims, SampleQuery, SkipSampleQuery, Settled
    <3> QED
      BY <3>1, <3>2, <3>3, <3>4 DEF IncrementalStep
  <2>6. ~RunnerMoves(r)
    BY <2>2, <2>3, <2>4, <2>5 DEF RunnerMoves
  <2>7. runner'[r] # runner[r]
    BY <1>1
  <2> QED
    BY <1>1, <2>6, <2>7, SurroundingsLeave, OneMoves
<1>2. IInv /\ [Next]_vars => Spared
  BY <1>1 DEF Spared
<1> QED
  BY Invariance, <1>2, PTL DEF Spec

\* A single runner is alone.
LEMMA OneRunnerInTurn ==
  ASSUME \A r, s \in Runners : r = s
  PROVE  Spared => InTurn
  BY DEF InTurn, Alone

\* The runner of a single worker, whatever fails on the way, and wherever it is
\* killed but in its transaction on rag.db.
THEOREM OneRunnerKeepsThePromise ==
  ASSUME \A r, s \in Runners : r = s
  PROVE  Spec /\ [][Spared]_vars => []ServesLastCommit /\ ImplementsIndex
<1>1. Spared => InTurn
  BY OneRunnerInTurn
<1> QED
  BY RunsInTurnKeepThePromise, <1>1, PTL

\* What a single runner has achieved it finds there as long as it does not
\* start again.
LEMMA OneRunnerReached ==
  ASSUME \A r, s \in Runners : r = s
  PROVE  Spec /\ [][Spared]_vars => [](IInv /\ \A r \in Runners : Reached(runner[r]))
<1> DEFINE Achieved == \A r \in Runners : Reached(runner[r])
<1>1. Spared => InTurn
  BY OneRunnerInTurn
<1>2. Init => Achieved
  BY InitIdle
<1>3. ASSUME IInv, SoleInv, Achieved, [Next]_vars PROVE Achieved'
  <2>1. CASE \A r \in Runners : ~RunnerMoves(r)
    BY <1>3, <2>1, SurroundingsFrame, ReachedFrame
  <2>2. ASSUME NEW r \in Runners, RunnerMoves(r) PROVE Achieved'
    BY <1>3, <2>2, OwnStep
  <2> QED
    BY <2>1, <2>2
<1> QED
  BY SoleInvariance, <1>1, <1>2, <1>3, PTL DEF Spec

\* A reindex that reports success leaves exactly the documents it scanned in
\* rag.db, until the next run.
THEOREM OneRunnerReportsTruly ==
  ASSUME \A r, s \in Runners : r = s
  PROVE  Spec /\ [][Spared]_vars => []SuccessReflectsScan
<1>1. IInv /\ (\A r \in Runners : Reached(runner[r])) => SuccessReflectsScan
  BY ReachedIsTrue DEF Truth, AllModes, SuccessReflectsScan
<1> QED
  BY OneRunnerReached, <1>1, PTL

\* Where kills are out of the question, as in a run in the foreground, or where
\* there is no incremental reindex, that holds of the single runner as it is.
THEOREM OneRunnerUnkilled ==
  ASSUME \A r, s \in Runners : r = s, MaxCrashes = 0 \/ "incremental" \notin Modes
  PROVE  Spec => []ServesLastCommit /\ []SuccessReflectsScan
  BY SparedUnlessKilled, OneRunnerKeepsThePromise, OneRunnerReportsTruly, PTL
============================================================================
