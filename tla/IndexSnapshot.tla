--------------------------- MODULE IndexSnapshot ---------------------------
(* What the retrieval index promises to its readers, without files,        *)
(* journals, processes or failures: once there is an index there always is *)
(* one, and it changes in single steps, each the whole effect of one       *)
(* reindex.  A full reindex installs what was found by one scan of the     *)
(* source directory, embedded by one model; an incremental one embeds what *)
(* tells its scan from the index it has looked at, and leaves the rest.    *)
CONSTANTS Docs, Versions, Dims, None

VARIABLES source,        \* the documents there are
          index,         \* what a search reads: None before the first reindex
          scans,         \* what reindexes under way found in the directory
          views          \* and the documents of the index they looked at

Contents == [Docs -> Versions \cup {None}]
Nothing == [d \in Docs |-> None]

Embedded(S, m) == [d \in Docs |-> IF S[d] = None THEN None ELSE [ver |-> S[d], dim |-> m]]
Hashes(x) == [d \in Docs |-> IF x[d] = None THEN None ELSE x[d].ver]

Init == source \in Contents /\ index = None /\ scans = {} /\ views = {}

Create == /\ index = None
          /\ index' = Nothing

\* A full reindex puts its scan in place.  (That a scan of nothing is among
\* them is the accident PublishedHasChunks of RagIndex is about.)
Install == \E S \in scans, m \in Dims : index' = Embedded(S, m)

\* S: the scan, E: what the index held when it was compared with it.
Update == /\ index # None
          /\ \E S \in scans, E \in views, m \in Dims :
               index' = [d \in Docs |-> IF S[d] = E[d] THEN index[d] ELSE Embedded(S, m)[d]]

\* Reindexes begin and end, with what there is to be seen now; a file that
\* has just been made is as good as a scan of nothing.
Look == /\ source' \in Contents
        /\ scans' \subseteq scans \cup {source, Nothing}
        /\ views' \subseteq views \cup {IF index = None THEN Nothing ELSE Hashes(index)}

Next == Look /\ (Create \/ Install \/ Update \/ UNCHANGED index)

Spec == Init /\ [][Next]_<<source, index, scans, views>>
============================================================================
