----------------------------- MODULE RagIndex -----------------------------
(* The SQLite retrieval index (rag.db) and the runner processes that       *)
(* rebuild it, update it and verify it (apps/api/src/api/services/rag).    *)
(*                                                                         *)
(* The file system is modelled where the runners depend on it: rag.db and  *)
(* rag.db.tmp are names of files that can be replaced or unlinked while a  *)
(* process holds them open.  SQLite is modelled by what the runners get    *)
(* from it: one writer per file, atomic commit, and crash recovery from a  *)
(* rollback journal that is found, and unlinked, by the NAME of the        *)
(* database.  A document row and its chunks are written by one             *)
(* transaction, so they are one entry here: the version of the text and    *)
(* the embedding dimension.                                                *)
EXTENDS Integers

CONSTANTS Docs,          \* source paths
          Versions,      \* contents a document can have (its content_hash)
          Dims,          \* embedding dimensions of the configurable models
          Inodes,        \* bound: files, a set of naturals
          Runners,       \* runner processes that may be alive together
          Modes,         \* the runners that are started, of AllModes
          None,          \* no document, no file, no index
          Damaged,       \* a file that is malformed: pages of two databases, or
                         \* of before and after half a commit
          MaxEdits,      \* bound: changes of the source directory
          MaxModels,     \* bound: changes of the embedding model
          MaxCrashes     \* bound: runner processes killed

AllModes == {"full", "incremental", "verify"}

ASSUME RagIndexAssumption ==
  /\ None \notin Docs \cup Versions \cup Dims \cup Inodes \cup {Damaged}
  /\ Versions # {} /\ Dims \subseteq Nat \ {0} /\ Dims # {}
  /\ Inodes \subseteq Nat
  /\ Modes \subseteq AllModes
  /\ MaxEdits \in Nat /\ MaxModels \in Nat /\ MaxCrashes \in Nat

VARIABLES source,        \* the source directory: Docs -> content or None
          model,         \* dimension of the configured embedding model
          path,          \* rag.db and rag.db.tmp: which file has the name
          file,          \* contents of the files
          journal,       \* rag.db-journal and rag.db.tmp-journal once they are
                         \* hot: of which file, and what a rollback puts back
          runner,        \* per process: where it is and its local variables
          edits, models, crashes,
          committed,     \* history: what the last commit or replace installed
          overrun        \* history: a replace has met a writer or a journal, or
                         \* a connection has taken another file's journal

vars == <<source, model, path, file, journal, runner, edits, models, crashes,
          committed, overrun>>

---------------------------------------------------------------------------
(* State                                                                   *)

Entry == [ver : Versions, dim : Dims]
Index == [Docs -> Entry \cup {None}]
EmptyIndex == [d \in Docs |-> None]
Journal == [ino : Inodes, before : Index]

ASSUME NoneIsNoIndex == None \notin Index \cup Entry \cup Journal
ASSUME DamagedIsNoIndex == Damaged \notin Index

Scans == [Docs -> Versions \cup {None}]
NoScan == [d \in Docs |-> None]
AnyDim == 0              \* RAG_EXPECTED_EMBED_DIM <= 0 turns the check off

Settled == {"idle", "succeeded", "failed"}
CleanUpPhases == {"clean up ok", "unlink ok", "clean up failed", "unlink failed"}
FullPhases == {"unlink first", "scan", "open tmp", "begin", "persist", "flush tmp",
               "self-check", "replace"} \cup CleanUpPhases
IncrementalPhases == {"open db", "classified", "writing", "flush db", "stats"}
VerifyPhases == {"validate", "dims", "sample query"}

Flushing == {"flush tmp", "flush db"}
Transactions == {"persist", "writing"} \cup Flushing
Names == {"db", "tmp"}

\* Local variables of a runner: its mode, what it scanned, its model's (for
\* verify: the expected) dimension, the file it has open and the documents
\* map it read.
Runner == [pc : Settled \cup FullPhases \cup IncrementalPhases \cup VerifyPhases,
           mode : AllModes \cup {None}, scan : Scans, dim : Dims \cup {AnyDim},
           ino : Inodes \cup {None}, seen : Scans]

Local(pc, mode, scan, dim, ino, seen) ==
  [pc |-> pc, mode |-> mode, scan |-> scan, dim |-> dim, ino |-> ino, seen |-> seen]

Begun(pc, mode, scan, dim) == Local(pc, mode, scan, dim, None, NoScan)
Ended(pc) == Begun(pc, None, NoScan, AnyDim)

\* One type invariant: ranges, and that no file has both names.
TypeOK ==
  /\ source \in Scans
  /\ model \in Dims
  /\ path \in [Names -> Inodes \cup {None}]
  /\ path["db"] # None => path["db"] # path["tmp"]
  /\ \A i \in Inodes : file[i] = Damaged \/ file[i] \in Index
  /\ \A n \in Names : journal[n] = None \/ journal[n] \in Journal
  /\ runner \in [Runners -> Runner]
  /\ committed \in {None, Damaged} \/ committed \in Index
  /\ overrun \in BOOLEAN

Init ==
  /\ source \in Scans
  /\ model \in Dims
  /\ path = [n \in Names |-> None]
  /\ file = [i \in Inodes |-> EmptyIndex]
  /\ journal = [n \in Names |-> None]
  /\ runner = [r \in Runners |-> Ended("idle")]
  /\ edits = 0 /\ models = 0 /\ crashes = 0
  /\ committed = None
  /\ overrun = FALSE

---------------------------------------------------------------------------
(* Surroundings: people edit the documents and change the configuration    *)

EditDoc(d, v) ==
  /\ edits < MaxEdits
  /\ source[d] # v
  /\ source' = [source EXCEPT ![d] = v]
  /\ edits' = edits + 1
  /\ UNCHANGED <<model, path, file, journal, runner, models, crashes, committed, overrun>>

ChangeModel(m) ==
  /\ models < MaxModels
  /\ model # m
  /\ model' = m
  /\ models' = models + 1
  /\ UNCHANGED <<source, path, file, journal, runner, edits, crashes, committed, overrun>>

---------------------------------------------------------------------------
(* Files and SQLite                                                        *)

Frame == UNCHANGED <<source, model, edits, models>>

\* A file nobody names and nobody has open.  The file a journal belongs to is
\* kept apart only so that the model can tell whose journal it is.
Free == {i \in Inodes : /\ \A n \in Names : path[n] # i /\ (journal[n] = None \/ journal[n].ino # i)
                        /\ \A r \in Runners : runner[r].ino # i}
FreshInode == CHOOSE i \in Free : TRUE

Becomes(r, l) == runner' = [runner EXCEPT ![r] = l]

\* Runner r goes on with another scan, file and documents map, or with the
\* ones it has.
Sets(r, pc, scan, ino, seen) ==
  Becomes(r, Local(pc, runner[r].mode, scan, runner[r].dim, ino, seen))
Moves(r, pc) == Sets(r, pc, runner[r].scan, runner[r].ino, runner[r].seen)

\* The name a runner's connection was opened by: its journal is found there.
NameOf(r) == IF runner[r].mode = "full" THEN "tmp" ELSE "db"

\* A transaction holds the RESERVED lock, and the EXCLUSIVE one as soon as it
\* writes pages to the file.
Writing(i) == \E r \in Runners : runner[r].ino = i /\ runner[r].pc \in Transactions
Locked(i) == \E r \in Runners : runner[r].ino = i /\ runner[r].pc \in Flushing

\* A connection finds a journal whose writer does not lock the file that now
\* has this name: it takes it for the trace of a crash.
Hot(n) == journal[n] # None /\ path[n] # None /\ ~Writing(path[n])

\* The journal's pages go into file i.  Into its own file they restore what
\* was there before; over another file they leave the old index or a mix.
Overwritten(i, j) == IF j.ino = i THEN {file[i]} ELSE {j.before, Damaged}
Recovered(n) == IF Hot(n) THEN Overwritten(path[n], journal[n]) ELSE {file[path[n]]}

\* Pages of file i have been written, and the journal is gone.
Torn(i) == {file[i], Damaged}

\* What a statement needs of file i, opened by name n.
Readable(n, i) == /\ file[i] # Damaged /\ ~Locked(i)
                  /\ journal[n] = None \/ Writing(i)

HasChunks(x) == x # Damaged /\ \E d \in Docs : x[d] # None

\* Whoever opens the file called n next runs the recovery: a GET /rag/search,
\* or a runner before its next statement, whose own step comes after it.
Recover(n) ==
  /\ Hot(n)
  /\ n = "tmp" => \E r \in Runners :
       \/ runner[r].pc \in {"open tmp", "self-check"}
       \/ runner[r].pc = "begin" /\ runner[r].ino = path["tmp"]
  /\ \E x \in Recovered(n) : file' = [file EXCEPT ![path[n]] = x]
  /\ journal' = [journal EXCEPT ![n] = None]
  /\ UNCHANGED <<path, runner, crashes, committed, overrun>> /\ Frame

\* A connection that was opened before another file got the name, and is not
\* in a transaction: its next statement finds the other file's journal, sees
\* nobody lock its own file, rolls the journal back into that and unlinks it.
TakeJournal(r) == LET n == NameOf(r)  i == runner[r].ino  j == journal[n] IN
  /\ runner[r].pc \in {"begin", "classified", "stats", "dims"}
  /\ j # None /\ path[n] \notin {i, None} /\ ~Writing(i)
  /\ \E x \in Overwritten(i, j),
        y \in IF j.ino # path[n] \/ Writing(path[n]) THEN {file[path[n]]} ELSE Torn(path[n]) :
       file' = [file EXCEPT ![i] = x, ![path[n]] = y]
  /\ journal' = [journal EXCEPT ![n] = None]
  /\ overrun' = TRUE
  /\ UNCHANGED <<path, runner, crashes, committed>> /\ Frame

\* Commit and rollback unlink the journal by its name, whosever it is.
UnlinksJournal(r) == LET j == journal[NameOf(r)] IN
  /\ journal' = [journal EXCEPT ![NameOf(r)] = None]
  /\ overrun' = (overrun \/ (j # None /\ j.ino # runner[r].ino))

\* Without a name a file has no journal: with the next file of the name SQLite
\* unlinks what journal there is.
Nameless == /\ path' = [path EXCEPT !["tmp"] = None]
            /\ journal' = [journal EXCEPT !["tmp"] = None]

---------------------------------------------------------------------------
(* run_reindex_job                                                         *)

\* exists(): a temporary file left behind is unlinked first.
StartFull(r) ==
  /\ "full" \in Modes
  /\ runner[r].pc \in Settled
  /\ Becomes(r, Begun(IF path["tmp"] = None THEN "scan" ELSE "unlink first", "full", NoScan, model))
  /\ UNCHANGED <<path, file, journal, crashes, committed, overrun>> /\ Frame

\* load_documents, chunk_documents, embed_texts.  An empty directory is an
\* error for the full reindex (and so the run fails, see Fail).
ScanFull(r) ==
  /\ runner[r].pc = "scan" /\ runner[r].mode = "full"
  /\ source # NoScan
  /\ Sets(r, "open tmp", source, None, NoScan)
  /\ UNCHANGED <<path, file, journal, crashes, committed, overrun>> /\ Frame

\* A new file gets a name.
Creates(name) == /\ Free # {}
                 /\ path' = [path EXCEPT ![name] = FreshInode]
                 /\ file' = [file EXCEPT ![FreshInode] = EmptyIndex]

\* sqlite3.connect and ensure_sqlite_schema: the file is created if it is
\* not there.
OpenTmp(r) ==
  /\ runner[r].pc = "open tmp"
  /\ \/ /\ path["tmp"] # None
        /\ Readable("tmp", path["tmp"])
        /\ Sets(r, "begin", runner[r].scan, path["tmp"], NoScan)
        /\ UNCHANGED <<path, file>>
     \/ /\ path["tmp"] = None
        /\ Creates("tmp")
        /\ Sets(r, "begin", runner[r].scan, FreshInode, NoScan)
  /\ UNCHANGED <<journal, crashes, committed, overrun>> /\ Frame

\* DELETE FROM chunks begins the transaction.  SQLite refuses to write to a
\* file that is no longer the one of that name, or that another one writes.
BeginPersist(r) ==
  /\ runner[r].pc = "begin"
  /\ path["tmp"] = runner[r].ino
  /\ ~Hot("tmp")
  /\ ~Writing(runner[r].ino)
  /\ Moves(r, "persist")
  /\ UNCHANGED <<path, file, journal, crashes, committed, overrun>> /\ Frame

Embedded(scan, dim) ==
  [d \in Docs |-> IF scan[d] = None THEN None ELSE [ver |-> scan[d], dim |-> dim]]

\* The journal is synced before pages are written to the file: when the page
\* cache overflows during the transaction, or at its commit.  The file may
\* have lost its name meanwhile, and the journal with it.
Flush(r) == LET i == runner[r].ino  n == NameOf(r) IN
  /\ runner[r].pc \in {"persist", "writing"}
  /\ file[i] # Damaged
  /\ Moves(r, IF runner[r].pc = "persist" THEN "flush tmp" ELSE "flush db")
  /\ journal' = IF n = "tmp" /\ path["tmp"] # i THEN journal
                ELSE [journal EXCEPT ![n] = [ino |-> i, before |-> file[i]]]
  /\ UNCHANGED <<path, file, crashes, committed, overrun>> /\ Frame

\* Fault: what is known of an unchanged document is not embedded again.
CommitPersistReuses(r) == LET old == file[path["db"]]  scan == runner[r].scan IN
  /\ runner[r].pc = "flush tmp"
  /\ file' = [file EXCEPT ![runner[r].ino] =
       [d \in Docs |-> IF path["db"] # None /\ old[d] # None /\ old[d].ver = scan[d] THEN old[d]
                       ELSE Embedded(scan, runner[r].dim)[d]]]
  /\ UnlinksJournal(r)
  /\ Sets(r, "self-check", runner[r].scan, None, NoScan)
  /\ UNCHANGED <<path, crashes, committed>> /\ Frame

CommitPersist(r) ==
  /\ runner[r].pc = "flush tmp"
  /\ file' = [file EXCEPT ![runner[r].ino] = Embedded(runner[r].scan, runner[r].dim)]
  /\ UnlinksJournal(r)
  /\ Sets(r, "self-check", runner[r].scan, None, NoScan)
  /\ UNCHANGED <<path, crashes, committed>> /\ Frame

\* _self_check_sqlite opens whatever file is called rag.db.tmp now.
SelfCheck(r) ==
  /\ runner[r].pc = "self-check"
  /\ path["tmp"] # None
  /\ Readable("tmp", path["tmp"])
  /\ HasChunks(file[path["tmp"]])
  /\ Moves(r, "replace")
  /\ UNCHANGED <<path, file, journal, crashes, committed, overrun>> /\ Frame

\* If another run has taken the file away, the connection creates an empty
\* one, the query finds no table, and the clean-up follows.
SelfCheckMissing(r) ==
  /\ runner[r].pc = "self-check"
  /\ path["tmp"] = None
  /\ Creates("tmp")
  /\ Becomes(r, Ended("clean up failed"))
  /\ UNCHANGED <<journal, crashes, committed, overrun>> /\ Frame

\* Fault: the file is linked to the new name instead of moved.
ReplaceByLink(r) ==
  /\ runner[r].pc = "replace"
  /\ path["tmp"] # None
  /\ path' = [path EXCEPT !["db"] = path["tmp"]]
  /\ committed' = file[path["tmp"]]
  /\ Moves(r, "clean up ok")
  /\ UNCHANGED <<file, journal, crashes, overrun>> /\ Frame

\* Somebody writes to one of the two files, or one of them has a hot journal.
InUse == \E n \in Names : journal[n] # None \/ (path[n] # None /\ Writing(path[n]))

\* os.replace.  Nothing looks at the journals, or for writers: pages of a
\* writer that was killed stay without the journal that would restore them.
Replace(r) == LET i == path["tmp"] IN
  /\ runner[r].pc = "replace"
  /\ i # None
  /\ path' = [n \in Names |-> IF n = "db" THEN i ELSE None]
  /\ journal' = [journal EXCEPT !["tmp"] = None]
  /\ \E x \in IF Hot("tmp") THEN Torn(i) ELSE {file[i]} : file' = [file EXCEPT ![i] = x]
  /\ committed' = file[i]
  /\ overrun' = (overrun \/ InUse)
  /\ Moves(r, "clean up ok")
  /\ UNCHANGED crashes /\ Frame

\* Fault: the temporary file is looked for after a success only.
CleanUpKeepsTmp(r) ==
  /\ \/ runner[r].pc = "clean up ok" /\ Moves(r, IF path["tmp"] = None THEN "succeeded" ELSE "unlink ok")
     \/ runner[r].pc = "clean up failed" /\ Becomes(r, Ended("failed"))
  /\ UNCHANGED <<path, file, journal, crashes, committed, overrun>> /\ Frame

\* The finally clause, whatever the outcome: exists() ...
CleanUp(r) ==
  /\ \/ runner[r].pc = "clean up ok" /\ Moves(r, IF path["tmp"] = None THEN "succeeded" ELSE "unlink ok")
     \/ /\ runner[r].pc = "clean up failed"
        /\ Becomes(r, Ended(IF path["tmp"] = None THEN "failed" ELSE "unlink failed"))
  /\ UNCHANGED <<path, file, journal, crashes, committed, overrun>> /\ Frame

\* ... and unlink(), which raises if another run has taken the file away.
Unlink(r) ==
  /\ \/ runner[r].pc = "unlink first" /\ path["tmp"] # None /\ Moves(r, "scan")
     \/ runner[r].pc = "unlink ok" /\ path["tmp"] # None /\ Moves(r, "succeeded")
     \/ /\ \/ runner[r].pc \in {"unlink first", "unlink ok"} /\ path["tmp"] = None
           \/ runner[r].pc = "unlink failed"
        /\ Becomes(r, Ended("failed"))
  /\ Nameless
  /\ UNCHANGED <<file, crashes, committed, overrun>> /\ Frame

---------------------------------------------------------------------------
(* run_incremental_reindex_job                                             *)

\* _load_documents_allow_empty: no documents is a valid scan here.
StartIncremental(r) ==
  /\ "incremental" \in Modes
  /\ runner[r].pc \in Settled
  /\ Becomes(r, Begun("open db", "incremental", source, model))
  /\ UNCHANGED <<path, file, journal, crashes, committed, overrun>> /\ Frame

Hashes(x) == [d \in Docs |-> IF x[d] = None THEN None ELSE x[d].ver]

\* Connect, create the file and the schema if there is none, and read the
\* documents map.  The connection stays on this file.
OpenDb(r) ==
  /\ runner[r].pc = "open db"
  /\ \/ /\ path["db"] # None
        /\ Readable("db", path["db"])
        /\ Sets(r, "classified", runner[r].scan, path["db"], Hashes(file[path["db"]]))
        /\ UNCHANGED <<path, file, committed>>
     \/ /\ path["db"] = None
        /\ Creates("db")
        /\ Sets(r, "classified", runner[r].scan, FreshInode, NoScan)
        /\ committed' = EmptyIndex
  /\ UNCHANGED <<journal, crashes, overrun>> /\ Frame

\* Fault: documents that are gone from the source are not looked for.
ChangedPresent(r) == {d \in Docs : runner[r].scan[d] # None /\ runner[r].scan[d] # runner[r].seen[d]}

\* _classify_documents: new, updated and removed documents, told apart by
\* content hash only.  A change of the embedding model does not show here.
Changed(r) == {d \in Docs : runner[r].scan[d] # runner[r].seen[d]}

\* No document changed: the transaction is empty.
CommitNothing(r) ==
  /\ runner[r].pc = "classified"
  /\ Changed(r) = {}
  /\ Moves(r, "stats")
  /\ UNCHANGED <<path, file, journal, crashes, committed, overrun>> /\ Frame

\* The first write takes the lock, on the file that still has its name.
BeginWrite(r) ==
  /\ runner[r].pc = "classified"
  /\ Changed(r) # {}
  /\ path["db"] = runner[r].ino
  /\ ~Hot("db")
  /\ ~Writing(runner[r].ino)
  /\ Moves(r, "writing")
  /\ UNCHANGED <<path, file, journal, crashes, committed, overrun>> /\ Frame

Merged(r) == [d \in Docs |-> IF d \in Changed(r) THEN Embedded(runner[r].scan, runner[r].dim)[d]
                             ELSE file[runner[r].ino][d]]

\* Fault: a document is committed as soon as it is embedded.
CommitWritePartly(r) == LET i == runner[r].ino IN
  /\ runner[r].pc = "flush db"
  /\ \E d \in Changed(r) : file' = [file EXCEPT ![i] = [file[i] EXCEPT ![d] = Merged(r)[d]]]
  /\ committed' = file'[i]
  /\ UnlinksJournal(r)
  /\ \/ file'[i] = Merged(r) /\ Moves(r, "stats")
     \/ file'[i] # Merged(r) /\ Moves(r, "writing")
  /\ UNCHANGED <<path, crashes>> /\ Frame

\* COMMIT is complete when the journal is unlinked.
CommitWrite(r) == LET i == runner[r].ino IN
  /\ runner[r].pc = "flush db"
  /\ file[i] # Damaged
  /\ file' = [file EXCEPT ![i] = Merged(r)]
  /\ committed' = IF i = path["db"] THEN Merged(r) ELSE committed
  /\ UnlinksJournal(r)
  /\ Moves(r, "stats")
  /\ UNCHANGED <<path, crashes>> /\ Frame

\* sqlite_index_stats after the commit, then the result line.
Report(r) ==
  /\ runner[r].pc = "stats"
  /\ Readable("db", runner[r].ino)
  /\ Sets(r, "succeeded", runner[r].scan, None, runner[r].seen)
  /\ UNCHANGED <<path, file, journal, crashes, committed, overrun>> /\ Frame

---------------------------------------------------------------------------
(* run_verify_index_job                                                    *)

StartVerify(r, expected) ==
  /\ "verify" \in Modes
  /\ runner[r].pc \in Settled
  /\ Becomes(r, Begun("validate", "verify", NoScan, expected))
  /\ UNCHANGED <<path, file, journal, crashes, committed, overrun>> /\ Frame

DimsAsExpected(x, expected) ==
  expected = AnyDim \/ \A d \in Docs : x[d] # None => x[d].dim = expected

\* _validate_sqlite reads on one connection, but not in one transaction: it
\* counts the chunks, ...
CountChunks(r) ==
  /\ runner[r].pc = "validate"
  /\ path["db"] # None
  /\ Readable("db", path["db"])
  /\ HasChunks(file[path["db"]])
  /\ Sets(r, "dims", runner[r].scan, path["db"], runner[r].seen)
  /\ UNCHANGED <<path, file, journal, crashes, committed, overrun>> /\ Frame

\* Fault: having counted the chunks it takes it for granted that there are
\* dimensions.
CompareDimsUnchecked(r) == LET i == runner[r].ino IN
  /\ runner[r].pc = "dims"
  /\ Readable("db", i)
  /\ DimsAsExpected(file[i], runner[r].dim)
  /\ Sets(r, "sample query", runner[r].scan, None, runner[r].seen)
  /\ UNCHANGED <<path, file, journal, crashes, committed, overrun>> /\ Frame

\* ... and later SELECTs the dimensions, of which there must be one at least.
CompareDims(r) == LET i == runner[r].ino IN
  /\ runner[r].pc = "dims"
  /\ Readable("db", i)
  /\ HasChunks(file[i])
  /\ DimsAsExpected(file[i], runner[r].dim)
  /\ Sets(r, "sample query", runner[r].scan, None, runner[r].seen)
  /\ UNCHANGED <<path, file, journal, crashes, committed, overrun>> /\ Frame

\* _run_sample_query goes through search_index, on another connection.
SampleQuery(r) ==
  /\ runner[r].pc = "sample query"
  /\ Readable("db", path["db"])
  /\ HasChunks(file[path["db"]])
  /\ Moves(r, "succeeded")
  /\ UNCHANGED <<path, file, journal, crashes, committed, overrun>> /\ Frame

\* A blank RAG_VERIFY_SAMPLE_QUERY asks nothing.
SkipSampleQuery(r) ==
  /\ runner[r].pc = "sample query"
  /\ Moves(r, "succeeded")
  /\ UNCHANGED <<path, file, journal, crashes, committed, overrun>> /\ Frame

---------------------------------------------------------------------------
(* Failures                                                                *)

\* The steps in which something may raise.  What unlink() raises is in Unlink.
MayFail == (FullPhases \cup IncrementalPhases \cup VerifyPhases)
             \ (CleanUpPhases \cup {"unlink first"})

FailsWith(r) == Becomes(r, Ended(IF runner[r].mode = "full" THEN "clean up failed" ELSE "failed"))

\* A transaction is rolled back.
RollsBack(r) == IF runner[r].pc \in Transactions THEN UnlinksJournal(r)
                ELSE UNCHANGED <<journal, overrun>>

\* Fault: a failing incremental run removes the database it worked on.
FailDropsIndex(r) ==
  /\ runner[r].pc \in MayFail
  /\ FailsWith(r)
  /\ path' = IF runner[r].mode = "incremental" THEN [path EXCEPT !["db"] = None] ELSE path
  /\ RollsBack(r)
  /\ UNCHANGED <<file, crashes, committed>> /\ Frame

\* Fault: the documents written so far are committed.
FailCommits(r) == LET i == runner[r].ino IN
  /\ runner[r].pc \in MayFail
  /\ FailsWith(r)
  /\ IF runner[r].pc # "flush db" THEN UNCHANGED file
     ELSE \E d \in Changed(r) : file' = [file EXCEPT ![i] = [file[i] EXCEPT ![d] = Merged(r)[d]]]
  /\ RollsBack(r)
  /\ UNCHANGED <<path, crashes, committed>> /\ Frame

\* Fault: a transaction waits for its lock without a timeout.
FailNeverAtLock(r) ==
  /\ runner[r].pc \in MayFail \ {"classified"}
  /\ FailsWith(r)
  /\ RollsBack(r)
  /\ UNCHANGED <<path, file, crashes, committed>> /\ Frame

\* An embedding request fails, the database is locked, malformed or moved, a
\* check finds nothing.  The full reindex cleans up.
Fail(r) ==
  /\ runner[r].pc \in MayFail
  /\ FailsWith(r)
  /\ RollsBack(r)
  /\ UNCHANGED <<path, file, crashes, committed>> /\ Frame

\* The journal of r's transaction is where the next connection to its file
\* will look for it.
Restorable(r) == LET n == NameOf(r)  j == journal[n] IN
  path[n] = runner[r].ino /\ j # None /\ j.ino = runner[r].ino

\* The process is killed (container stop, out of memory).  Its locks go; what
\* is on disk stays, half-written pages included.
Crash(r) ==
  /\ runner[r].pc \notin Settled
  /\ crashes < MaxCrashes
  /\ crashes' = crashes + 1
  /\ IF runner[r].pc \in Flushing /\ ~Restorable(r)
     THEN \E x \in Torn(runner[r].ino) : file' = [file EXCEPT ![runner[r].ino] = x]
     ELSE UNCHANGED file
  /\ Becomes(r, Ended("idle"))
  /\ UNCHANGED <<path, journal, committed, overrun>> /\ Frame

---------------------------------------------------------------------------
FullStep(r) == \/ StartFull(r) \/ Unlink(r) \/ ScanFull(r) \/ OpenTmp(r) \/ BeginPersist(r)
               \/ CommitPersist(r) \/ SelfCheck(r) \/ SelfCheckMissing(r)
               \/ Replace(r) \/ CleanUp(r)

IncrementalStep(r) == \/ StartIncremental(r) \/ OpenDb(r) \/ CommitNothing(r) \/ BeginWrite(r)
                      \/ CommitWrite(r) \/ Report(r)

VerifyStep(r) == \/ \E e \in Dims \cup {AnyDim} : StartVerify(r, e)
                 \/ CountChunks(r) \/ CompareDims(r) \/ SampleQuery(r) \/ SkipSampleQuery(r)

SQLiteStep(r) == Flush(r) \/ TakeJournal(r)

Next == \/ \E d \in Docs, v \in Versions \cup {None} : EditDoc(d, v)
        \/ \E m \in Dims : ChangeModel(m)
        \/ \E n \in Names : Recover(n)
        \/ \E r \in Runners : \/ FullStep(r) \/ IncrementalStep(r) \/ VerifyStep(r)
                              \/ SQLiteStep(r) \/ Fail(r) \/ Crash(r)

Spec == Init /\ [][Next]_vars

---------------------------------------------------------------------------
(* Properties                                                              *)

\* Readers get what the last commit or os.replace installed, at once and
\* until the next one, whatever failed or died in between: opening rag.db
\* finds no foreign journal and no half-written index.  The full runner
\* describes itself as "sqlite reindex with atomic replace"
\* (reindex_job_runner.py:29).
ServesLastCommit ==
  path["db"] # None => Recovered("db") = {committed}

\* Which is so in every mixture of runners and kills as long as no full
\* reindex has put its file in place while another runner was writing rag.db
\* or rag.db.tmp, or after one was killed that had begun to flush, and no
\* connection that outlived its file has taken the journal of the next one.
ServesUnlessOverrun == ~overrun => ServesLastCommit

\* When a reindex reports success the index holds exactly the documents it
\* scanned: nothing stale, nothing that was removed.  (Of one runner at a
\* time; the scan is the runner's, the directory may have moved on.)
SuccessReflectsScan == \A r \in Runners :
  runner[r].pc = "succeeded" /\ runner[r].mode \in {"full", "incremental"}
    => /\ Hashes(file[path["db"]]) = runner[r].scan
       /\ runner[r].mode = "full" => DimsAsExpected(file[path["db"]], runner[r].dim)

\* rag.db.tmp exists only while a full reindex is at work, failed runs
\* included, unless a runner was killed.
TmpOnlyDuringFull ==
  path["tmp"] # None /\ crashes = 0 => \E r \in Runners : runner[r].pc \in FullPhases

\* The self-check (reindex_job_runner.py:47) says: no index without chunks is
\* put in place by a full reindex.
PublishedHasChunks == \A r \in Runners :
  runner[r].pc = "clean up ok" /\ runner[r].mode = "full" => HasChunks(committed)

\* What a search reads, and what runners hold that is still to come: the scans
\* they have not committed or installed, and the documents maps they compare
\* them with.
Served == IF path["db"] = None THEN None ELSE file[path["db"]]
Scanned == {runner[r].scan : r \in {q \in Runners : runner[q].pc \in
              {"open tmp", "begin", "persist", "flush tmp",
               "open db", "classified", "writing", "flush db"}}}
           \cup IF path["tmp"] = None \/ file[path["tmp"]] = Damaged THEN {}
                ELSE {Hashes(file[path["tmp"]])}
Viewed == {runner[r].seen : r \in {q \in Runners : runner[q].pc \in {"classified", "writing", "flush db"}}}

Snapshot == INSTANCE IndexSnapshot WITH index <- Served, scans <- Scanned, views <- Viewed

\* What a search reads changes as the promise says, each time by the whole
\* effect of one reindex.
ImplementsIndex == Snapshot!Spec

\* As long as nothing is overrun every step is one the promise allows, in any
\* mixture of runners and kills.
StepsUnlessOverrun == [][~overrun' => [Snapshot!Next]_<<source, Served, Scanned, Viewed>>]_vars
===========================================================================
