-------------------------- MODULE RetrievalProofs --------------------------
(* Retrieval for any number of searches: what a search answers as long as  *)
(* nothing is overrun, in any mixture of runs and kills, and what it ranks *)
(* against where runs are quiet: incremental and verify runs in any        *)
(* number, killed at any point, or runs of every mode that take turns.     *)
EXTENDS Retrieval, RagIndexProofs

\* rag.db holds what was committed last.
LEMMA InPlace ==
  ASSUME IInv, ~overrun, path["db"] # None
  PROVE  path["db"] \in Inodes /\ file[path["db"]] = committed /\ committed \in Index
  BY Naming DEF IInv, Kept

---------------------------------------------------------------------------
(* The invariant of the searches                                           *)

\* Where there is no rag.db nothing was committed.
NothingBefore == path["db"] = None => committed = None

\* What a request has in hand, by where it is: it has seen the index there is
\* now, and what it has loaded is an index it has seen.
OneMoment(s) ==
  /\ s.pc \in {"looking", "loading"} => s.got = EmptyIndex /\ committed \in s.during
  /\ s.pc = "embedding" => s.got \in s.during

SearchTyped == /\ json \in BOOLEAN /\ clean \in BOOLEAN
               /\ search \in [Searchers -> Search]

SearchInv == /\ SearchTyped /\ NothingBefore
             /\ \A c \in Searchers : OneMoment(search[c])

\* An answer is that of one moment.
Right(s, t) == \/ t.pc = "500"
               \/ t.pc = "sqlite" /\ s.got \in s.during
               \/ t.pc \in {"json", "503"} /\ None \in s.during
Answered == \A c \in Searchers :
  Ongoing(search[c]) /\ ~Ongoing(search'[c]) => Right(search[c], search'[c])

\* rag.db never goes away.
LEMMA NothingBeforeStep ==
  ASSUME IInv, ~overrun, NothingBefore, [Next]_vars
  PROVE  NothingBefore'
<1>1. ASSUME NEW r \in Runners, OpenDb(r) PROVE NothingBefore'
  <2>1. CASE UNCHANGED <<path, committed>>
    BY <2>1 DEF NothingBefore
  <2>2. CASE Creates("db")
    BY <2>2, FreshFacts, RagIndexAssumption DEF Creates, IInv, Typed, TypeOK, NothingBefore, Names
  <2> QED
    BY <1>1, <2>1, <2>2 DEF OpenDb
<1>2. ASSUME NEW r \in Runners, Replace(r) PROVE NothingBefore'
  BY <1>2 DEF Replace, NothingBefore, Names
<1>3. ASSUME NEW r \in Runners, CommitWrite(r) PROVE NothingBefore'
  <2>1. UNCHANGED path /\ runner[r].pc = "flush db" /\ runner[r].pc \in Transactions
    BY <1>3 DEF CommitWrite, Transactions, Flushing
  <2>2. path["db"] # None
    BY <2>1, WriterFacts, RagIndexAssumption DEF IInv, Kept, Holds
  <2> QED
    BY <2>1, <2>2 DEF NothingBefore
<1>4. CASE ~ \E r \in Runners : OpenDb(r) \/ Replace(r) \/ CommitWrite(r)
  BY <1>4, OtherSteps DEF NothingBefore
<1> QED
  BY <1>1, <1>2, <1>3, <1>4

\* What was committed has its type.
LEMMA CommittedTyped ==
  ASSUME IInv
  PROVE  committed \in Index \cup {None, Damaged}
  BY DEF IInv, Typed, TypeOK

\* A step of the index leaves every request where it is, with one more index seen.
LEMMA IndexStepSearches ==
  ASSUME IInv, SearchTyped, IndexStep
  PROVE  /\ SearchTyped'
         /\ \A c \in Searchers :
              /\ search'[c].pc = search[c].pc /\ search'[c].got = search[c].got
              /\ search[c].pc \in {"looking", "loading"} =>
                   search'[c].during = search[c].during \cup {committed'}
              /\ search[c].pc = "embedding" => search'[c].during = search[c].during
<1>1. IInv'
  BY StepKeepsInvariant DEF IndexStep
<1>2. committed' \in Index \cup {None, Damaged}
  BY <1>1, CommittedTyped DEF IInv, Typed, TypeOK
<1>3. clean' \in BOOLEAN /\ json' \in BOOLEAN
  BY DEF IndexStep, SearchTyped
<1>4. ASSUME NEW c \in Searchers
      PROVE  /\ search'[c] \in Search /\ search'[c].pc = search[c].pc
             /\ search'[c].got = search[c].got
             /\ search[c].pc \in {"looking", "loading"} =>
                  search'[c].during = search[c].during \cup {committed'}
             /\ search[c].pc = "embedding" => search'[c].during = search[c].during
  <2>1. search[c] \in Search
    BY DEF SearchTyped
  <2> DEFINE held == search[c].clean /\ clean'
             seen == IF search[c].pc \in {"looking", "loading"}
                     THEN search[c].during \cup {committed'} ELSE search[c].during
  <2>2. search'[c] = [search[c] EXCEPT !.clean = held, !.during = seen]
    BY DEF IndexStep
  <2>3. held \in BOOLEAN
    BY <1>3, <2>1 DEF Search
  <2>4. seen \in SUBSET (Index \cup {None, Damaged})
    BY <1>2, <2>1 DEF Search
  <2>5. search[c].pc \in {"looking", "loading"} => seen = search[c].during \cup {committed'}
    OBVIOUS
  <2>6. search[c].pc = "embedding" => seen = search[c].during
    OBVIOUS
  <2> HIDE DEF held, seen
  <2> QED
    BY <2>1, <2>2, <2>3, <2>4, <2>5, <2>6 DEF Search
<1>5. search' \in [Searchers -> Search]
  BY <1>4 DEF IndexStep
<1> QED
  BY <1>3, <1>4, <1>5 DEF SearchTyped

\* It answers none, and what they have seen stays what there was.
LEMMA IndexStepKeeps ==
  ASSUME IInv, ~overrun, SearchInv, IndexStep
  PROVE  SearchInv' /\ Answered
<1>1. NothingBefore'
  BY NothingBeforeStep DEF IndexStep, SearchInv
<1>2. \A c \in Searchers : OneMoment(search[c])'
  BY IndexStepSearches DEF SearchInv, OneMoment
<1>3. Answered
  BY IndexStepSearches DEF Answered, Ongoing, SearchInv
<1> QED
  BY <1>1, <1>2, <1>3, IndexStepSearches DEF SearchInv

---------------------------------------------------------------------------
(* The steps of a request                                                  *)

\* A request goes on to a state that keeps the types.
LEMMA GoesTyped ==
  ASSUME SearchTyped, NEW c \in Searchers, NEW s \in Search, Goes(c, s)
  PROVE  SearchTyped'
  BY DEF Goes, SearchTyped

\* A request goes on to a state that keeps the invariant.
LEMMA GoesOn ==
  ASSUME SearchInv, NEW c \in Searchers, NEW s \in Search, Goes(c, s), OneMoment(s),
         Ongoing(search[c]) /\ ~Ongoing(s) => Right(search[c], s)
  PROVE  SearchInv' /\ Answered
<1>1. /\ UNCHANGED <<path, committed, json, clean>>
      /\ search' = [search EXCEPT ![c] = s]
  BY DEF Goes, vars
<1>2. /\ search' \in [Searchers -> Search] /\ search'[c] = s
      /\ \A d \in Searchers : d # c => search'[d] = search[d]
  BY <1>1 DEF SearchInv, SearchTyped
<1>3. ASSUME NEW d \in Searchers PROVE OneMoment(search[d])'
  BY <1>1, <1>2 DEF OneMoment, SearchInv
<1>4. Answered
  BY <1>2 DEF Answered, Ongoing
<1> QED
  BY <1>1, <1>3, <1>4, GoesTyped DEF SearchInv, NothingBefore

\* What an answered request is.
LEMMA DoneFacts ==
  ASSUME NEW reply \in Replies
  PROVE  /\ Done(reply) \in Search /\ Done(reply).pc = reply
         /\ ~Ongoing(Done(reply)) /\ OneMoment(Done(reply))
  BY EmptyTyped DEF Done, Search, Replies, Ongoing, OneMoment

\* Ask, FindDb.
LEMMA Beginning ==
  ASSUME IInv, SearchInv, NEW c \in Searchers, Ask(c) \/ FindDb(c)
  PROVE  SearchInv' /\ Answered
<1>1. CASE Ask(c)
  <2> DEFINE s == [pc |-> "looking", got |-> EmptyIndex, during |-> {committed}, clean |-> clean]
  <2>1. s \in Search
    BY EmptyTyped, CommittedTyped DEF Search, SearchInv, SearchTyped
  <2>2. OneMoment(s) /\ ~Ongoing(search[c]) /\ Goes(c, s)
    BY <1>1 DEF Ask, OneMoment
  <2> HIDE DEF s
  <2> QED
    BY <2>1, <2>2, GoesOn
<1>2. CASE FindDb(c)
  <2> DEFINE s == [search[c] EXCEPT !.pc = "loading"]
  <2>1. search[c] \in Search /\ search[c].pc = "looking" /\ OneMoment(search[c])
    BY <1>2 DEF FindDb, SearchInv, SearchTyped
  <2>2. s \in Search /\ s.pc = "loading" /\ s.got = search[c].got /\ s.during = search[c].during
    BY <2>1 DEF Search
  <2>3. OneMoment(s) /\ Ongoing(s)
    BY <2>1, <2>2 DEF OneMoment, Ongoing
  <2>4. Goes(c, s)
    BY <1>2 DEF FindDb
  <2> HIDE DEF s
  <2> QED
    BY <2>2, <2>3, <2>4, GoesOn
<1> QED
  BY <1>1, <1>2

\* FallBack, NoIndex, LoadFails, Rank, EmbedFails.
LEMMA Ending ==
  ASSUME IInv, SearchInv, NEW c \in Searchers,
         FallBack(c) \/ NoIndex(c) \/ LoadFails(c) \/ Rank(c) \/ EmbedFails(c)
  PROVE  SearchInv' /\ Answered
<1>1. OneMoment(search[c]) /\ NothingBefore
  BY DEF SearchInv
<1>2. PICK reply \in Replies : /\ Goes(c, Done(reply))
                               /\ \/ reply = "500"
                                  \/ reply = "sqlite" /\ search[c].got \in search[c].during
                                  \/ reply \in {"json", "503"} /\ None \in search[c].during
  <2>1. {"json", "503", "500", "sqlite"} \subseteq Replies
    BY DEF Replies
  <2>2. CASE FallBack(c)
    BY <1>1, <2>1, <2>2 DEF FallBack, OneMoment, NothingBefore
  <2>3. CASE NoIndex(c)
    <3>1. search[c].pc \in {"looking", "loading"} /\ path["db"] = None
      BY <2>3 DEF NoIndex
    <3> QED
      BY <1>1, <2>1, <2>3, <3>1 DEF NoIndex, OneMoment, NothingBefore
  <2>4. CASE LoadFails(c) \/ EmbedFails(c)
    BY <2>1, <2>4 DEF LoadFails, EmbedFails
  <2>5. CASE Rank(c)
    BY <1>1, <2>1, <2>5 DEF Rank, OneMoment
  <2> QED
    BY <2>2, <2>3, <2>4, <2>5
<1>3. Right(search[c], Done(reply))
  BY <1>2, DoneFacts DEF Right
<1> QED
  BY <1>2, <1>3, DoneFacts, GoesOn

\* Load sees what was committed last, whole.
LEMMA Loading ==
  ASSUME IInv, ~overrun, SearchInv, NEW c \in Searchers, Load(c)
  PROVE  SearchInv' /\ Answered
<1> DEFINE x == file[path["db"]]
<1>1. search[c] \in Search /\ search[c].pc = "loading" /\ path["db"] # None
  BY DEF SearchInv, SearchTyped, Load, Loadable
<1>2. x = committed /\ x \in Index /\ search[c].got = EmptyIndex /\ x \in search[c].during
  BY <1>1, InPlace DEF SearchInv, OneMoment
<1>3. CASE HasChunks(x)
  <2> DEFINE s == [search[c] EXCEPT !.pc = "embedding", !.got = x, !.during = search[c].during \cap {x}]
  <2>1. Goes(c, s)
    BY <1>3 DEF Load
  <2>2. s \in Search /\ s.pc = "embedding" /\ s.got = x /\ s.during = search[c].during \cap {x}
    BY <1>1, <1>2 DEF Search
  <2>3. OneMoment(s) /\ Ongoing(s)
    BY <1>2, <2>2 DEF OneMoment, Ongoing
  <2> HIDE DEF s
  <2> QED
    BY <2>1, <2>2, <2>3, GoesOn
<1>4. CASE ~HasChunks(x)
  <2>1. Goes(c, Done("sqlite")) /\ "sqlite" \in Replies
    BY <1>4 DEF Load, Replies
  <2>2. x # Damaged => x = EmptyIndex
    BY <1>2, <1>4 DEF HasChunks, Index, EmptyIndex
  <2>3. x # Damaged
    BY <1>1 DEF Load, Loadable, Readable
  <2>4. Right(search[c], Done("sqlite"))
    BY <1>2, <2>1, <2>2, <2>3, DoneFacts DEF Right
  <2> QED
    BY <2>1, <2>4, DoneFacts, GoesOn
<1> QED
  BY <1>3, <1>4

\* Every request has its types, whatever the runners have done to the files.
LEMMA SearchTypedStep ==
  ASSUME IInv, SearchTyped, [RetrievalNext]_rvars
  PROVE  SearchTyped'
PROOF
<1>1. CASE UNCHANGED rvars
  BY <1>1 DEF rvars, SearchTyped
<1>2. CASE IndexStep
  BY <1>2, IndexStepSearches
<1>3. ASSUME NEW c \in Searchers, SearchStep(c) PROVE SearchTyped'
  <2>1. search[c] \in Search
    BY DEF SearchTyped
  <2>2. CASE Ask(c)
    <3> DEFINE s == [pc |-> "looking", got |-> EmptyIndex, during |-> {committed}, clean |-> clean]
    <3>1. s \in Search
      BY EmptyTyped, CommittedTyped DEF Search, SearchTyped
    <3> QED
      BY <2>2, <3>1, GoesTyped DEF Ask
  <2>3. CASE FindDb(c)
    <3>1. [search[c] EXCEPT !.pc = "loading"] \in Search
      BY <2>1 DEF Search
    <3> QED
      BY <2>3, <3>1, GoesTyped DEF FindDb
  <2>4. CASE \E reply \in Replies : Goes(c, Done(reply))
    BY <2>4, DoneFacts, GoesTyped
  <2>5. CASE Load(c) /\ HasChunks(file[path["db"]])
    <3> DEFINE x == file[path["db"]]
               s == [search[c] EXCEPT !.pc = "embedding", !.got = x, !.during = search[c].during \cap {x}]
    <3>1. x \in Index
      BY <2>5 DEF Load, Loadable, Readable, IInv, Typed, TypeOK, Names
    <3>2. s \in Search
      BY <2>1, <3>1 DEF Search
    <3>3. Goes(c, s)
      BY <2>5 DEF Load
    <3> QED
      BY <3>2, <3>3, GoesTyped
  <2>6. {"json", "503", "500", "sqlite"} \subseteq Replies
    BY DEF Replies
  <2> QED
    BY <1>3, <2>2, <2>3, <2>4, <2>5, <2>6 DEF SearchStep, FallBack, NoIndex, Load, LoadFails, Rank, EmbedFails
<1> QED
  BY <1>1, <1>2, <1>3 DEF RetrievalNext

---------------------------------------------------------------------------
(* Quiet runs                                                              *)

\* A step of incremental and verify runs only, or of runs that take turns.
QuietRuns == "full" \notin Modes \/ InTurn

Undisturbed == ~overrun /\ IF "full" \in Modes THEN SoleInv ELSE OnlyDb

\* Nothing is overrun at first ...
LEMMA UndisturbedStart == Init => Undisturbed
  BY SoleStart, NothingServed, InitIdle DEF Undisturbed, OnlyDb, OnDb

\* ... nor later.
LEMMA UndisturbedStep ==
  ASSUME QuietRuns, IInv, Undisturbed, [Next]_vars
  PROVE  Undisturbed'
<1>1. CASE "full" \notin Modes
  BY <1>1, IncrementalStepKeeps DEF Undisturbed
<1>2. CASE "full" \in Modes
  <2>1. InTurn
    BY <1>2 DEF QuietRuns
  <2>2. SoleInv'
    <3>1. SoleInv
      BY <1>2 DEF Undisturbed
    <3>2. CASE Next
      BY <2>1, <3>1, <3>2, SoleStep
    <3>3. CASE UNCHANGED vars
      BY <3>1, <3>3, StutterKeepsSole
    <3> QED
      BY <3>2, <3>3
  <2> QED
    BY <1>2, <2>2 DEF Undisturbed, SoleInv
<1> QED
  BY <1>1, <1>2

---------------------------------------------------------------------------
(* Dimensions                                                              *)

\* While the model is the one rag.db was built with, what was committed and
\* what incremental runs will write has its dimension.
CleanIndex == clean =>
  /\ committed # None => DimsAsExpected(committed, model)
  /\ \A r \in Runners : runner[r].pc \in IncrementalPhases => runner[r].dim = model

\* So has what a request has loaded meanwhile.
CleanSearch(s) == Ongoing(s) /\ s.clean =>
  clean /\ (s.pc = "embedding" => DimsAsExpected(s.got, model))

CleanInv == CleanIndex /\ \A c \in Searchers : CleanSearch(search[c])

\* A step of the runners leaves a runner alone or is its own.
LEMMA OneRunnerMoves ==
  ASSUME IInv, [Next]_vars, NEW r \in Runners, runner'[r] # runner[r]
  PROVE  RunnerMoves(r)
<1>1. CASE \A s \in Runners : ~RunnerMoves(s)
  BY <1>1, SurroundingsLeave
<1> QED
  BY <1>1, OneMoves

\* An incremental run writes with the model it began with.
LEMMA RunnerModel ==
  ASSUME IInv, [Next]_vars, NEW r \in Runners, runner'[r].pc \in IncrementalPhases
  PROVE  \/ runner'[r].dim = model
         \/ runner[r].pc \in IncrementalPhases /\ runner'[r].dim = runner[r].dim
<1>1. CASE runner'[r] = runner[r]
  BY <1>1
<1>2. CASE FullStep(r)
  <2>1. runner \in [Runners -> Runner]
    BY DEF IInv, Typed, TypeOK
  <2>2. ASSUME NEW pc, Becomes(r, Begun(pc, "full", NoScan, model)) PROVE runner'[r].dim = model
    BY <2>2, <2>1 DEF Becomes, Begun, Local
  <2>3. CASE StartFull(r)
    BY <2>2, <2>3 DEF StartFull
  <2>4. CASE SelfCheckMissing(r)
    <3>1. runner'[r].pc = "clean up failed"
      BY <2>1, <2>4 DEF SelfCheckMissing, Becomes, Ended, Begun, Local
    <3> QED
      BY <3>1 DEF IncrementalPhases
  <2>5. CASE CleanUp(r) \/ Unlink(r)
    <3>1. runner'[r].pc \in {"scan", "succeeded", "failed", "unlink ok", "unlink failed"}
      <4>1. ASSUME NEW pc, Moves(r, pc) PROVE runner'[r].pc = pc
        BY <4>1, MovesIs
      <4>2. ASSUME NEW pc, Becomes(r, Ended(pc)) PROVE runner'[r].pc = pc
        BY <2>1, <4>2 DEF Becomes, Ended, Begun, Local
      <4>3. \/ \E pc \in {"scan", "succeeded", "unlink ok"} : Moves(r, pc)
            \/ \E pc \in {"failed", "unlink failed"} : Becomes(r, Ended(pc))
        BY <2>5 DEF CleanUp, Unlink
      <4> QED
        BY <4>1, <4>2, <4>3
    <3> QED
      BY <3>1 DEF IncrementalPhases
  <2>6. CASE \/ ScanFull(r) \/ OpenTmp(r) \/ BeginPersist(r) \/ CommitPersist(r)
             \/ SelfCheck(r) \/ Replace(r)
    <3>1. PICK pc \in FullPhases : \E scan, ino, seen : Sets(r, pc, scan, ino, seen)
      BY <2>6 DEF ScanFull, OpenTmp, BeginPersist, CommitPersist, SelfCheck, Replace,
         Moves, FullPhases, CleanUpPhases
    <3>2. runner'[r].pc \in FullPhases
      BY <3>1, SetsIs
    <3> QED
      BY <3>2 DEF IncrementalPhases, FullPhases, CleanUpPhases
  <2> QED
    BY <1>2, <2>3, <2>4, <2>5, <2>6 DEF FullStep
<1>3. CASE IncrementalStep(r)
  <2>1. CASE StartIncremental(r)
    BY <2>1 DEF StartIncremental, Becomes, Begun, Local, IInv, Typed, TypeOK
  <2>2. CASE OpenDb(r) \/ CommitNothing(r) \/ BeginWrite(r) \/ CommitWrite(r) \/ Report(r)
    <3>1. runner[r].pc \in IncrementalPhases
      BY <2>2 DEF OpenDb, CommitNothing, BeginWrite, CommitWrite, Report, IncrementalPhases
    <3>2. \E pc, scan, ino, seen : Sets(r, pc, scan, ino, seen)
      BY <2>2 DEF OpenDb, CommitNothing, BeginWrite, CommitWrite, Report, Moves
    <3>3. runner'[r].dim = runner[r].dim
      BY <3>2, SetsIs
    <3> QED
      BY <3>1, <3>3
  <2> QED
    BY <1>3, <2>1, <2>2 DEF IncrementalStep
<1>4. CASE VerifyStep(r)
  <2>1. ASSUME NEW e \in Dims \cup {AnyDim}, StartVerify(r, e) PROVE runner'[r].pc = "validate"
    BY <2>1 DEF StartVerify, Becomes, Begun, Local, IInv, Typed, TypeOK
  <2>2. CASE CountChunks(r) \/ CompareDims(r) \/ SampleQuery(r) \/ SkipSampleQuery(r)
    <3>1. \E pc \in {"dims", "sample query", "succeeded"} : \E scan, ino, seen : Sets(r, pc, scan, ino, seen)
      BY <2>2 DEF CountChunks, CompareDims, SampleQuery, SkipSampleQuery, Moves
    <3>2. runner'[r].pc \in {"dims", "sample query", "succeeded"}
      BY <3>1, SetsIs
    <3> QED
      BY <3>2 DEF IncrementalPhases
  <2> QED
    BY <1>4, <2>1, <2>2 DEF VerifyStep, IncrementalPhases
<1>5. CASE Fail(r) \/ Crash(r)
  BY <1>5, Fallen DEF IncrementalPhases
<1>6. CASE SQLiteStep(r)
  <2>1. CASE Flush(r)
    <3>1. \E pc : runner[r].pc \in {"persist", "writing"} /\ Moves(r, pc)
                  /\ (runner[r].pc = "persist" => pc = "flush tmp")
      BY <2>1 DEF Flush
    <3> QED
      BY <3>1, MovesIs DEF IncrementalPhases
  <2> QED
    BY <1>1, <1>6, <2>1 DEF SQLiteStep, TakeJournal
<1> QED
  BY <1>1, <1>2, <1>3, <1>4, <1>5, <1>6, OneRunnerMoves DEF RunnerMoves

\* What puts a file in place is os.replace.
LEMMA PutInPlaceIsReplace ==
  ASSUME IInv, [Next]_vars, NEW r \in Runners, PutInPlace(r)
  PROVE  Replace(r)
<1>1. runner[r].pc = "replace" /\ runner'[r].pc = "clean up ok"
  BY DEF PutInPlace
<1>2. runner[r].pc \notin Settled
  BY <1>1 DEF Settled
<1>3. ~Fail(r) /\ ~Crash(r)
  BY <1>1, Fallen
<1>4. ~IncrementalStep(r) /\ ~VerifyStep(r)
  BY <1>1, <1>2 DEF IncrementalStep, StartIncremental, OpenDb, CommitNothing, BeginWrite,
       CommitWrite, Report, VerifyStep, StartVerify, CountChunks, CompareDims, SampleQuery, SkipSampleQuery
<1>5. FullStep(r) => Replace(r)
  BY <1>1, <1>2 DEF FullStep, StartFull, ScanFull, OpenTmp, BeginPersist, CommitPersist,
       SelfCheck, SelfCheckMissing, CleanUp, Unlink
<1>6. ~SQLiteStep(r)
  BY <1>1 DEF SQLiteStep, Flush, TakeJournal
<1> QED
  BY <1>1, <1>3, <1>4, <1>5, <1>6, OneRunnerMoves DEF RunnerMoves

\* And os.replace puts a file in place.
LEMMA ReplacePutsInPlace ==
  ASSUME IInv, NEW r \in Runners, Replace(r)
  PROVE  PutInPlace(r)
<1>1. runner[r].pc = "replace" /\ Moves(r, "clean up ok")
  BY DEF Replace
<1>2. runner'[r].pc = "clean up ok"
  BY <1>1, MovesIs
<1> QED
  BY <1>1, <1>2 DEF PutInPlace

\* What a full run installs has the dimension of its model.
LEMMA Installed ==
  ASSUME QuietRuns, IInv, Undisturbed, IndexStep, NEW r \in Runners, Replace(r), runner[r].dim = model
  PROVE  model' = model /\ CleanIndex'
<1>1. runner[r].pc = "replace" /\ runner[r].pc \in FullPhases \ Failing
  BY DEF Replace, FullPhases, Failing
<1>2. runner[r].dim \in Dims /\ "full" \in Modes
  BY <1>1, FullFacts
<1>3. Reached(runner[r]) /\ \A s \in Runners : s # r => runner[s].pc \in Settled
  BY <1>1, <1>2 DEF QuietRuns, InTurn, Alone, Settled, Undisturbed, SoleInv
<1>4. committed' = Embedded(runner[r].scan, model) /\ model' = model
  BY <1>1, <1>3 DEF Reached, Replace, Frame, Names
<1>5. DimsAsExpected(committed', model)
  BY <1>2, <1>4, RunnerFacts, EmbeddedUniform DEF IInv
<1>6. DimsAsExpected(committed, model)'
  BY <1>4, <1>5 DEF DimsAsExpected
<1>7. runner'[r].pc = "clean up ok"
  BY ReplacePutsInPlace DEF PutInPlace
<1>8. \A s \in Runners : s # r => runner'[s] = runner[s]
  <2>1. RunnerMoves(r)
    BY DEF RunnerMoves, FullStep
  <2> QED
    BY <2>1, OneMoves
<1>9. \A s \in Runners : runner'[s].pc \notin IncrementalPhases
  BY <1>3, <1>7, <1>8 DEF Settled, IncrementalPhases
<1> QED
  BY <1>4, <1>6, <1>9 DEF CleanIndex

\* What an incremental run commits to an index of the model's dimension has it too.
LEMMA MergedDims ==
  ASSUME NEW r \in Runners, runner[r].scan \in Scans, runner[r].dim = model, model \in Dims,
         DimsAsExpected(file[runner[r].ino], model)
  PROVE  DimsAsExpected(Merged(r), model)
<1> DEFINE s == runner[r].scan
<1>1. model # AnyDim
  BY RagIndexAssumption DEF AnyDim
<1>2. ASSUME NEW d \in Docs, Merged(r)[d] # None PROVE Merged(r)[d].dim = model
  <2>1. CASE d \in Changed(r)
    <3>1. Merged(r)[d] = IF s[d] = None THEN None ELSE [ver |-> s[d], dim |-> model]
      BY <2>1 DEF Merged, Embedded
    <3> QED
      BY <1>2, <3>1
  <2>2. CASE d \notin Changed(r)
    BY <1>1, <1>2, <2>2 DEF Merged, DimsAsExpected
  <2> QED
    BY <2>1, <2>2
<1> QED
  BY <1>2 DEF DimsAsExpected

\* A step that puts no file in place leaves a clean index clean, or unclean.
LEMMA NotInstalled ==
  ASSUME IInv, Undisturbed, CleanIndex, NothingBefore, [Next]_vars, clean, model' = model,
         \A r \in Runners : ~Replace(r)
  PROVE  CleanIndex'
<1>1. /\ committed # None => DimsAsExpected(committed, model)
      /\ \A r \in Runners : runner[r].pc \in IncrementalPhases => runner[r].dim = model
  BY DEF CleanIndex
<1>2. \A r \in Runners : runner'[r].pc \in IncrementalPhases => runner'[r].dim = model
  BY <1>1, RunnerModel
<1>3. ASSUME NEW r \in Runners, OpenDb(r) PROVE committed' # None => DimsAsExpected(committed', model)
  <2>1. CASE committed' = EmptyIndex
    BY <2>1 DEF EmptyIndex, DimsAsExpected
  <2> QED
    BY <1>1, <1>3, <2>1 DEF OpenDb
<1>4. ASSUME NEW r \in Runners, CommitWrite(r) PROVE DimsAsExpected(committed', model)
  <2>1. /\ runner[r].pc = "flush db" /\ runner[r].pc \in Transactions
        /\ committed' = (IF runner[r].ino = path["db"] THEN Merged(r) ELSE committed)
        /\ "flush db" \in IncrementalPhases
    BY <1>4 DEF CommitWrite, IncrementalPhases, Transactions, Flushing
  <2>2. runner[r].ino = path["db"] /\ runner[r].ino \in Inodes
    BY <2>1, WriterFacts DEF IInv, Undisturbed, Kept, Holds
  <2>3. file[runner[r].ino] = committed /\ committed # None
    BY <2>2, RagIndexAssumption, InPlace, NoneIsNoIndex DEF Undisturbed
  <2>4. runner[r].scan \in Scans /\ model \in Dims
    BY RunnerFacts DEF IInv, Typed, TypeOK
  <2> QED
    BY <1>1, <2>1, <2>2, <2>3, <2>4, MergedDims
<1>5. ASSUME ~ \E r \in Runners : OpenDb(r) \/ CommitWrite(r) PROVE committed' = committed
  BY <1>5, OtherSteps
<1>6. committed' # None => DimsAsExpected(committed', model)
  BY <1>1, <1>3, <1>4, <1>5
<1> QED
  BY <1>2, <1>6 DEF CleanIndex, DimsAsExpected

\* A step of the index.
LEMMA IndexStaysClean ==
  ASSUME QuietRuns, IInv, Undisturbed, SearchInv, CleanInv, IndexStep
  PROVE  CleanInv'
<1>1. [Next]_vars
  BY DEF IndexStep
<1>2. clean' => CleanIndex' /\ model' = model
  <2>1. CASE \E r \in Runners : PutInPlace(r)
    <3>1. clean' => \E r \in Runners : PutInPlace(r) /\ runner[r].dim = model
      BY <2>1 DEF IndexStep
    <3> QED
      BY <1>1, <3>1, PutInPlaceIsReplace, Installed
  <2>2. CASE ~ \E r \in Runners : PutInPlace(r)
    <3>1. \A r \in Runners : ~Replace(r)
      BY <2>2, ReplacePutsInPlace
    <3>2. clean' => clean /\ model' = model
      BY <2>2 DEF IndexStep
    <3> QED
      BY <1>1, <3>1, <3>2, NotInstalled DEF CleanInv, SearchInv
  <2> QED
    BY <2>1, <2>2
<1>3. CleanIndex'
  BY <1>2 DEF CleanIndex
<1>4. ASSUME NEW c \in Searchers, Ongoing(search'[c]), search'[c].clean
      PROVE  clean' /\ (search'[c].pc = "embedding" => DimsAsExpected(search'[c].got, model'))
  <2>1. search[c] \in Search /\ CleanSearch(search[c])
    BY DEF SearchInv, SearchTyped, CleanInv
  <2>2. /\ search'[c].pc = search[c].pc /\ search'[c].got = search[c].got
        /\ search'[c].clean = (search[c].clean /\ clean')
    BY <2>1 DEF IndexStep, Search
  <2>3. search[c].clean /\ clean'
    BY <1>4, <2>2
  <2> QED
    BY <1>2, <1>4, <2>1, <2>2, <2>3 DEF CleanSearch, Ongoing
<1>5. \A c \in Searchers : CleanSearch(search[c])'
  BY <1>4 DEF CleanSearch, Ongoing, DimsAsExpected
<1> QED
  BY <1>3, <1>5 DEF CleanInv

\* A step of a request.
LEMMA SearchStaysClean ==
  ASSUME IInv, Undisturbed, SearchInv, CleanInv, NEW c \in Searchers, SearchStep(c)
  PROVE  CleanInv'
<1>1. search[c] \in Search /\ CleanSearch(search[c])
  BY DEF SearchInv, SearchTyped, CleanInv
<1>2. ASSUME NEW s, Goes(c, s), CleanSearch(s) PROVE CleanInv'
  <2>1. UNCHANGED <<vars, clean>> /\ search' = [search EXCEPT ![c] = s]
    BY <1>2 DEF Goes
  <2>2. CleanIndex'
    BY <2>1 DEF CleanInv, CleanIndex, vars, DimsAsExpected
  <2>3. \A d \in Searchers : search'[d] = IF d = c THEN s ELSE search[d]
    BY <2>1 DEF SearchInv, SearchTyped
  <2>4. \A d \in Searchers : CleanSearch(search'[d])
    BY <1>2, <2>3 DEF CleanInv
  <2> QED
    BY <2>1, <2>2, <2>4 DEF CleanInv, CleanSearch, Ongoing, vars, DimsAsExpected
<1>3. ASSUME NEW reply \in Replies PROVE CleanSearch(Done(reply))
  BY <1>3, DoneFacts DEF CleanSearch
<1>4. CASE Ask(c)
  <2> DEFINE s == [pc |-> "looking", got |-> EmptyIndex, during |-> {committed}, clean |-> clean]
  <2>1. CleanSearch(s) /\ Goes(c, s)
    BY <1>4 DEF CleanSearch, Ask
  <2> QED
    BY <1>2, <2>1
<1>5. CASE FindDb(c)
  <2> DEFINE s == [search[c] EXCEPT !.pc = "loading"]
  <2>1. Goes(c, s) /\ search[c].pc = "looking"
    BY <1>5 DEF FindDb
  <2>2. s.pc = "loading" /\ s.clean = search[c].clean
    BY <1>1 DEF Search
  <2>3. CleanSearch(s)
    BY <1>1, <2>1, <2>2 DEF CleanSearch, Ongoing
  <2> QED
    BY <1>2, <2>1, <2>3
<1>6. CASE Load(c)
  <2> DEFINE x == file[path["db"]]
             s == [search[c] EXCEPT !.pc = "embedding", !.got = x, !.during = @ \cap {x}]
  <2>1. search[c].pc = "loading" /\ path["db"] # None
    BY <1>6 DEF Load, Loadable
  <2>2. x = committed /\ committed # None
    BY <2>1, InPlace, NoneIsNoIndex DEF Undisturbed
  <2>3. s.pc = "embedding" /\ s.got = x /\ s.clean = search[c].clean
    BY <1>1 DEF Search
  <2>4. CleanSearch(s)
    BY <1>1, <2>1, <2>2, <2>3 DEF CleanSearch, Ongoing, CleanInv, CleanIndex
  <2>5. Goes(c, s) \/ Goes(c, Done("sqlite"))
    BY <1>6 DEF Load
  <2>6. "sqlite" \in Replies
    BY DEF Replies
  <2> HIDE DEF s
  <2> QED
    BY <1>2, <1>3, <2>4, <2>5, <2>6
<1>7. CASE FallBack(c) \/ NoIndex(c) \/ LoadFails(c) \/ Rank(c) \/ EmbedFails(c)
  BY <1>2, <1>3, <1>7 DEF FallBack, NoIndex, LoadFails, Rank, EmbedFails, Replies
<1> QED
  BY <1>4, <1>5, <1>6, <1>7 DEF SearchStep

---------------------------------------------------------------------------
(* Theorems                                                                *)

\* Searches change nothing the runners could see.
LEMMA RunnersAlone == RetrievalInit => Init
  BY DEF RetrievalInit

\* Every step of requests and runners is one of the runners, or none of theirs.
LEMMA RunnersStep == [RetrievalNext]_rvars => [Next]_vars
  BY DEF RetrievalNext, IndexStep, SearchStep, Ask, FindDb, FallBack, NoIndex, Load, LoadFails,
         Rank, EmbedFails, Goes, rvars

\* Requests begin with nothing in hand.
LEMMA SearchesBegin == RetrievalInit => SearchInv
<1> SUFFICES ASSUME RetrievalInit PROVE SearchInv
  OBVIOUS
<1>1. Done("idle") \in Search /\ OneMoment(Done("idle"))
  BY EmptyTyped DEF Done, Search, OneMoment
<1> QED
  BY <1>1 DEF RetrievalInit, Init, SearchInv, SearchTyped, NothingBefore

\* Every step keeps the searches' invariant, and answers rightly.
LEMMA SearchesKeep ==
  ASSUME IInv, ~overrun, SearchInv, [RetrievalNext]_rvars
  PROVE  SearchInv' /\ (Answered \/ UNCHANGED rvars)
<1>1. CASE UNCHANGED rvars
  BY <1>1 DEF rvars, vars, SearchInv, SearchTyped, NothingBefore, OneMoment
<1>2. CASE IndexStep
  BY <1>2, IndexStepKeeps
<1>3. ASSUME NEW c \in Searchers, SearchStep(c) PROVE SearchInv' /\ Answered
  BY <1>3, Beginning, Ending, Loading DEF SearchStep
<1> QED
  BY <1>1, <1>2, <1>3 DEF RetrievalNext

\* The invariant: searches have their types, and as long as nothing has been
\* overrun what they have seen is what there was.
LEMMA SearchesInvariance ==
  RetrievalSpec => [](IInv /\ SearchTyped /\ (~overrun => SearchInv))
<1>1. RetrievalInit => IInv /\ SearchTyped /\ SearchInv
  BY RunnersAlone, InitInvariant, SearchesBegin DEF SearchInv
<1>2. IInv /\ SearchTyped /\ (~overrun => SearchInv) /\ [RetrievalNext]_rvars
        => (IInv /\ SearchTyped /\ (~overrun => SearchInv))'
  <2> SUFFICES ASSUME IInv, SearchTyped, ~overrun => SearchInv, [RetrievalNext]_rvars
               PROVE  IInv' /\ SearchTyped' /\ (~overrun' => SearchInv')
    OBVIOUS
  <2>1. IInv' /\ (~overrun' => ~overrun)
    BY RunnersStep, StepKeepsInvariant, StepIsPromised
  <2> QED
    BY <2>1, SearchTypedStep, SearchesKeep
<1> QED
  BY <1>1, <1>2, PTL DEF RetrievalSpec

\* Type correctness of the index, its runners and the searches, whatever the
\* runners do to each other.
THEOREM RetrievalTypeCorrect == RetrievalSpec => []RetrievalTypeOK
<1>1. IInv /\ SearchTyped => RetrievalTypeOK
  BY DEF IInv, Typed, SearchTyped, RetrievalTypeOK
<1> QED
  BY SearchesInvariance, <1>1, PTL

\* search_index under GET /rag/search and POST /ask, any number of requests
\* and any mixture of runs and kills: until an os.replace meets a writer or a
\* journal the hits are all the chunks of one index that was in place during
\* the request, and a 503 or index.json is the answer only if there was none.
AnswersUnlessOverrun == [][~overrun' => Answered]_rvars

\* So every answer is that of one moment, up to the first overrun.
THEOREM AnswersUnlessOverrunHold == RetrievalSpec => AnswersUnlessOverrun
<1>1. IInv /\ (~overrun => SearchInv) /\ [RetrievalNext]_rvars => [~overrun' => Answered]_rvars
  BY RunnersStep, StepIsPromised, SearchesKeep
<1> QED
  BY SearchesInvariance, <1>1, PTL DEF RetrievalSpec, AnswersUnlessOverrun

\* And to the end where nothing is overrun.
THEOREM AnswerOfOneMomentHolds == RetrievalSpec /\ []~overrun => AnswerOfOneMoment
<1>1. [~overrun' => Answered]_rvars /\ ~overrun' =>
        [\A c \in Searchers : Ongoing(search[c]) /\ ~Ongoing(search'[c]) =>
           \/ search'[c].pc = "500"
           \/ search'[c].pc = "sqlite" /\ search[c].got \in search[c].during
           \/ search'[c].pc \in {"json", "503"} /\ None \in search[c].during]_rvars
  BY DEF Answered, Right
<1> QED
  BY AnswersUnlessOverrunHold, <1>1, PTL DEF AnswersUnlessOverrun, AnswerOfOneMoment

\* Where runs are quiet nothing is.
LEMMA UndisturbedAlways == RetrievalSpec /\ [][QuietRuns]_rvars => [](IInv /\ Undisturbed)
<1>1. RetrievalInit => IInv /\ Undisturbed
  BY RunnersAlone, InitInvariant, UndisturbedStart
<1>2. [QuietRuns]_rvars /\ IInv /\ Undisturbed /\ [RetrievalNext]_rvars => (IInv /\ Undisturbed)'
  <2> SUFFICES ASSUME [QuietRuns]_rvars, IInv, Undisturbed, [RetrievalNext]_rvars
               PROVE  Undisturbed'
    BY RunnersStep, StepKeepsInvariant
  <2>1. CASE QuietRuns
    BY <2>1, RunnersStep, UndisturbedStep
  <2>2. CASE UNCHANGED rvars
    BY <2>2, StutterKeepsSole DEF rvars, vars, Undisturbed, OnlyDb
  <2> QED
    BY <2>1, <2>2
<1> QED
  BY <1>1, <1>2, PTL DEF RetrievalSpec

\* Incremental and verify runs in any number, killed anywhere, or runs of all
\* modes that take turns: every answer is that of one moment.
THEOREM QuietAnswers == RetrievalSpec /\ [][QuietRuns]_rvars => AnswerOfOneMoment
<1>1. Undisturbed => ~overrun
  BY DEF Undisturbed
<1> QED
  BY UndisturbedAlways, AnswerOfOneMomentHolds, <1>1, PTL

\* _cosine never has to cut a vector off if the model has not been changed
\* since the full reindex began whose index is searched.
THEOREM ScoresComparableHolds == RetrievalSpec /\ [][QuietRuns]_rvars => []ScoresComparable
<1>1. RetrievalInit => SearchInv /\ CleanInv
  <2> SUFFICES ASSUME RetrievalInit PROVE CleanInv
    BY SearchesBegin
  <2>1. Init
    BY RunnersAlone
  <2>2. \A c \in Searchers : ~Ongoing(search[c])
    BY DEF RetrievalInit, Done, Ongoing
  <2>3. \A r \in Runners : runner[r].pc = "idle"
    BY <2>1, InitIdle
  <2> QED
    BY <2>1, <2>2, <2>3 DEF CleanInv, CleanIndex, CleanSearch, IncrementalPhases, Init
<1>2. [QuietRuns]_rvars /\ IInv /\ Undisturbed /\ SearchInv /\ CleanInv /\ [RetrievalNext]_rvars
        => (SearchInv /\ CleanInv)'
  <2> SUFFICES ASSUME [QuietRuns]_rvars, IInv, Undisturbed, SearchInv, CleanInv, [RetrievalNext]_rvars
               PROVE  CleanInv'
    BY SearchesKeep DEF Undisturbed
  <2>1. CASE UNCHANGED rvars
    BY <2>1 DEF rvars, vars, CleanInv, CleanIndex, CleanSearch, Ongoing, DimsAsExpected
  <2> QED
    BY <2>1, IndexStaysClean, SearchStaysClean DEF RetrievalNext
<1>3. CleanInv => ScoresComparable
  BY DEF CleanInv, CleanSearch, ScoresComparable, Ongoing
<1> QED
  BY UndisturbedAlways, <1>1, <1>2, <1>3, PTL DEF RetrievalSpec
============================================================================
