----------------------------- MODULE Retrieval -----------------------------
(* Searching the index while runners rebuild it: search_index              *)
(* (apps/api/src/api/services/rag/query.py) under GET /rag/search and      *)
(* POST /ask (apps/api/src/api/main.py).  A handler looks for rag.db,      *)
(* loads all of its chunks, has the query embedded and ranks the chunks;   *)
(* runners take any steps in between.  What POST /ask does with the hits   *)
(* is in Answering.                                                        *)
EXTENDS RagIndex

CONSTANTS Searchers      \* concurrent requests

VARIABLES json,          \* whether an earlier release left an index.json
          clean,         \* history: the model has not been changed since the
                         \* full reindex began whose index is in place
          search         \* per request: where it is, its hits, its history

rvars == <<vars, json, clean, search>>

---------------------------------------------------------------------------
(* State                                                                   *)

Replies == {"sqlite", "json", "503", "500"}

\* got: the chunks loaded, which make the hits.  History: the indexes there
\* were from the start of the request until the chunks were loaded, and
\* whether `clean` held all the time.
Search == [pc : {"idle", "looking", "loading", "embedding"} \cup Replies,
           got : Index, during : SUBSET (Index \cup {None, Damaged}), clean : BOOLEAN]

Ongoing(s) == s.pc \in {"looking", "loading", "embedding"}

RetrievalTypeOK == TypeOK /\ json \in BOOLEAN /\ clean \in BOOLEAN
                          /\ search \in [Searchers -> Search]

Done(reply) == [pc |-> reply, got |-> EmptyIndex, during |-> {}, clean |-> FALSE]

RetrievalInit == /\ Init
                 /\ json \in BOOLEAN
                 /\ clean = TRUE
                 /\ search = [c \in Searchers |-> Done("idle")]

---------------------------------------------------------------------------
(* The index moves on                                                      *)

PutInPlace(r) == runner[r].pc = "replace" /\ runner'[r].pc = "clean up ok"

IndexStep ==
  /\ Next
  /\ clean' = IF \E r \in Runners : PutInPlace(r)
              THEN \E r \in Runners : PutInPlace(r) /\ runner[r].dim = model
              ELSE clean /\ model' = model
  /\ search' = [c \in Searchers |->
       [search[c] EXCEPT !.clean = @ /\ clean',
          !.during = IF search[c].pc \in {"looking", "loading"} THEN @ \cup {committed'} ELSE @]]
  /\ UNCHANGED json

---------------------------------------------------------------------------
(* rag_search, ask and search_index                                        *)

Goes(c, s) == /\ search' = [search EXCEPT ![c] = s]
              /\ UNCHANGED <<vars, json, clean>>

\* A query that is not blank (a blank one is refused: 400).
Ask(c) ==
  /\ ~Ongoing(search[c])
  /\ Goes(c, [pc |-> "looking", got |-> EmptyIndex, during |-> {committed},
             clean |-> clean])

FindDb(c) ==
  /\ search[c].pc = "looking"
  /\ path["db"] # None
  /\ Goes(c, [search[c] EXCEPT !.pc = "loading"])

\* One release of compatibility: index.json is read if there is no rag.db.
\* Its vectors and the query's come from the same hash, of the same length.
FallBack(c) ==
  /\ search[c].pc = "looking"
  /\ path["db"] = None /\ json
  /\ Goes(c, Done("json"))

\* Neither file, or load_sqlite_chunks looks again and rag.db is gone: 503.
NoIndex(c) ==
  /\ path["db"] = None
  /\ search[c].pc \in (IF json THEN {"loading"} ELSE {"looking", "loading"})
  /\ Goes(c, Done("503"))

\* Malformed, or held exclusively: a writer whose page cache has spilled keeps
\* readers out until it commits, which takes as long as its embedding calls.
Loadable == path["db"] # None /\ Readable("db", path["db"])
Unreadable == path["db"] # None /\ ~Hot("db") /\ ~Loadable

\* Fault: documents and chunks are read by two statements, each of which
\* opens rag.db anew.
LoadTwice(c) ==
  /\ search[c].pc = "loading"
  /\ Loadable
  /\ LET x == file[path["db"]]  y == search[c].got IN
     Goes(c, IF y = EmptyIndex THEN [search[c] EXCEPT !.got = x]
             ELSE [search[c] EXCEPT !.pc = "embedding",
                     !.got = [d \in Docs |-> IF y[d] = None THEN None ELSE x[d]]])

\* load_sqlite_chunks: one SELECT, which sees the file it has opened as a
\* whole.  No chunks: no hits, and the query is not embedded.
Load(c) ==
  /\ search[c].pc = "loading"
  /\ Loadable
  /\ LET x == file[path["db"]] IN
     Goes(c, IF HasChunks(x) THEN [search[c] EXCEPT !.pc = "embedding", !.got = x,
                                           !.during = @ \cap {x}]
             ELSE Done("sqlite"))

\* sqlite3.Error is not among the exceptions the handlers translate.
LoadFails(c) ==
  /\ search[c].pc = "loading"
  /\ Unreadable
  /\ Goes(c, Done("500"))

\* The query is embedded by the model configured now, and the chunks loaded
\* before are ranked by cosine.
Rank(c) == search[c].pc = "embedding" /\ Goes(c, Done("sqlite"))

\* EmbeddingClientError becomes a ValueError and that a 500.
EmbedFails(c) == search[c].pc = "embedding" /\ Goes(c, Done("500"))

SearchStep(c) == \/ Ask(c) \/ FindDb(c) \/ FallBack(c) \/ NoIndex(c)
                 \/ Load(c) \/ LoadFails(c) \/ Rank(c) \/ EmbedFails(c)

RetrievalNext == IndexStep \/ \E c \in Searchers : SearchStep(c)

RetrievalSpec == RetrievalInit /\ [][RetrievalNext]_rvars

---------------------------------------------------------------------------
(* Properties                                                              *)

\* An answer is the right one of some moment of the request: the hits are
\* all the chunks of one index that was installed then, never of two, and
\* index.json or a 503 is the answer only if there was no rag.db.  A request
\* is split over a test for the file, a SELECT and a call to another server,
\* and a full reindex unlinks and renames files meanwhile.
AnswerOfOneMoment == [][\A c \in Searchers :
  Ongoing(search[c]) /\ ~Ongoing(search'[c]) =>
    \/ search'[c].pc = "500"
    \/ search'[c].pc = "sqlite" /\ search[c].got \in search[c].during
    \/ search'[c].pc \in {"json", "503"} /\ None \in search[c].during]_rvars

\* _cosine cuts the longer of two vectors off without a word
\* (query.py:18).  It never has to if the model has not been changed since
\* the full reindex began whose index is searched, whatever was mixed before
\* it and whatever incremental reindexes followed.
ScoresComparable == \A c \in Searchers :
  search[c].pc = "embedding" /\ search[c].clean => DimsAsExpected(search[c].got, model)
===========================================================================
