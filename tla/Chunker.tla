------------------------------ MODULE Chunker ------------------------------
(* Cutting documents into overlapping chunks                               *)
(* (apps/api/src/api/services/rag/chunker.py).  A text is a sequence of    *)
(* visible and blank characters; a chunk is the range of positions that    *)
(* str.strip leaves of its window.  Position p of the model is the         *)
(* character text[p - 1] of the code, so the window text[cursor:end] is    *)
(* cursor + 1 .. end.                                                      *)
EXTENDS Integers, Sequences

CONSTANTS NumDocs,       \* documents of one chunk_documents call
          Texts,         \* texts that load_documents can return
          Sizes,         \* values of RAG_CHUNK_SIZE or the payload
          Overlaps       \* values of RAG_CHUNK_OVERLAP or the payload

Visible == "visible"
Blank == "blank"

\* load_documents strips each text and drops the empty ones (loader.py:31).
ASSUME ChunkerAssumption ==
  /\ NumDocs \in Nat \ {0}
  /\ Texts \subseteq Seq({Visible, Blank})
  /\ \A t \in Texts : t # <<>> /\ t[1] = Visible /\ t[Len(t)] = Visible
  /\ Sizes \subseteq Int /\ Overlaps \subseteq Int

VARIABLES text,          \* the documents' texts, in the order of the list
          size, overlap, \* chunk_size and chunk_overlap
          pc,            \* where chunk_documents is
          doc,           \* the document at hand
          cursor,
          chunks         \* per document its chunks; the k-th has the id
                         \* <doc_id>-<k - 1>
vars == <<text, size, overlap, pc, doc, cursor, chunks>>

Docs == 1..NumDocs
Length == Len(text[doc])
Span == [from : Nat, to : Nat]

TypeOK == /\ text \in [Docs -> Texts]
          /\ size \in Int /\ overlap \in Int
          /\ pc \in {"guards", "loop", "done", "rejected"}
          /\ doc \in Docs
          /\ cursor \in Nat
          /\ chunks \in [Docs -> Seq(Span)]

Init == /\ text \in [Docs -> Texts]
        /\ size \in Sizes /\ overlap \in Overlaps
        /\ pc = "guards" /\ doc = 1 /\ cursor = 0
        /\ chunks = [d \in Docs |-> <<>>]

---------------------------------------------------------------------------
\* Fault: an overlap as large as the chunk is let through.
ParametersAllowEqual == size > 0 /\ overlap >= 0 /\ overlap <= size

ParametersValid == size > 0 /\ overlap >= 0 /\ overlap < size

\* A ValueError ends the whole call.
Reject == /\ pc = "guards" /\ ~ParametersValid
          /\ pc' = "rejected"
          /\ UNCHANGED <<text, size, overlap, doc, cursor, chunks>>

Begin == /\ pc = "guards" /\ ParametersValid
         /\ pc' = "loop" /\ cursor' = 0
         /\ UNCHANGED <<text, size, overlap, doc, chunks>>

\* Fault: the end of the window counts as part of it.
EndInclusive == IF cursor + size + 1 < Length THEN cursor + size + 1 ELSE Length

End == IF cursor + size < Length THEN cursor + size ELSE Length

\* Fault: the overlap is counted once too little.
AdvanceTooFar ==
  IF End >= Length
  THEN /\ IF doc = NumDocs THEN pc' = "done" /\ UNCHANGED doc
                           ELSE pc' = "guards" /\ doc' = doc + 1
       /\ UNCHANGED cursor
  ELSE cursor' = End - overlap + 1 /\ UNCHANGED <<pc, doc>>

\* The break at the end of the text, and chunk_documents' next document.
Advance ==
  IF End >= Length
  THEN /\ IF doc = NumDocs THEN pc' = "done" /\ UNCHANGED doc
                           ELSE pc' = "guards" /\ doc' = doc + 1
       /\ UNCHANGED cursor
  ELSE cursor' = End - overlap /\ UNCHANGED <<pc, doc>>

VisibleAt(d, p) == text[d][p] = Visible

\* s is what strip leaves of the window.
Stripped(s) == /\ VisibleAt(doc, s.from) /\ VisibleAt(doc, s.to)
               /\ \A p \in (cursor + 1)..End : VisibleAt(doc, p) => p \in s.from..s.to

CutChunk ==
  /\ pc = "loop" /\ cursor < Length
  /\ \E a, b \in (cursor + 1)..End :
       /\ Stripped([from |-> a, to |-> b])
       /\ chunks' = [chunks EXCEPT ![doc] = Append(@, [from |-> a, to |-> b])]
  /\ Advance
  /\ UNCHANGED <<text, size, overlap>>

\* Fault: a blank window goes back to the loop before the cursor moves.
SkipBlankStays ==
  /\ pc = "loop" /\ cursor < Length
  /\ \A p \in (cursor + 1)..End : ~VisibleAt(doc, p)
  /\ UNCHANGED vars

\* A window of blanks makes no chunk and takes no index.
SkipBlank ==
  /\ pc = "loop" /\ cursor < Length
  /\ \A p \in (cursor + 1)..End : ~VisibleAt(doc, p)
  /\ Advance
  /\ UNCHANGED <<text, size, overlap, chunks>>

Next == Reject \/ Begin \/ CutChunk \/ SkipBlank

Spec == Init /\ [][Next]_vars

\* A function that was called runs on.
FairSpec == Spec /\ WF_vars(Next)

---------------------------------------------------------------------------
(* Properties                                                              *)

Finished(d) == d < doc \/ pc = "done"

\* A passage that a question may hit: visible at both ends, and no longer
\* than what the overlap is there to keep together.
Passage(d, a, b) == /\ VisibleAt(d, a) /\ VisibleAt(d, b)
                    /\ a <= b /\ b - a <= overlap

Whole(d, a, b) == \E k \in DOMAIN chunks[d] :
  chunks[d][k].from <= a /\ b <= chunks[d][k].to

\* What the overlap is for: a passage of at most overlap + 1 characters is
\* whole in one chunk wherever the cuts fall, and so nothing visible is lost
\* and a document that was loaded has a chunk (the self-check of
\* reindex_job_runner.py:47 counts on that).
PassagesWhole == \A d \in Docs : Finished(d) =>
  \A a, b \in 1..Len(text[d]) : Passage(d, a, b) => Whole(d, a, b)

\* What is sent to the embedding model: no chunk is longer than chunk_size
\* or empty, or begins or ends with a blank, and chunks follow the text.
ChunksFit == \A d \in Docs : \A k \in DOMAIN chunks[d] : LET c == chunks[d][k] IN
  /\ 1 <= c.from /\ c.from <= c.to /\ c.to <= Len(text[d])
  /\ c.to - c.from < size
  /\ VisibleAt(d, c.from) /\ VisibleAt(d, c.to)
  /\ \A j \in 1..(k - 1) : chunks[d][j].from <= c.from /\ chunks[d][j].to <= c.to

\* chunker.py:24-26: each turn of the loop ends the document or moves the
\* cursor forward inside the text, so the loop ends for every accepted size
\* and overlap.
CursorAdvances ==
  [][pc = "loop" /\ pc' = "loop" => cursor < cursor' /\ cursor' < Length]_vars

\* chunk_documents returns or raises, whatever the texts and parameters.
Terminates == <>(pc \in {"done", "rejected"})

\* Inductive invariant: what a turn of the loop relies on.  The chunks made
\* so far end in the last window, begin no later than any character still to
\* come, and hold every passage that begins before the cursor.
UpToCursor ==
  /\ cursor < Length
  /\ \A k \in DOMAIN chunks[doc] :
       /\ chunks[doc][k].to <= cursor + overlap
       /\ \A p \in (cursor + 1)..Length : VisibleAt(doc, p) => chunks[doc][k].from <= p
  /\ \A a, b \in 1..Length : a <= cursor /\ Passage(doc, a, b) => Whole(doc, a, b)

IInv ==
  /\ TypeOK
  /\ PassagesWhole
  /\ ChunksFit
  /\ pc \in {"loop", "done"} => ParametersValid
  /\ pc = "loop" => UpToCursor
  /\ pc = "guards" => chunks[doc] = <<>>
  /\ \A d \in Docs : d > doc => chunks[d] = <<>>
===========================================================================
