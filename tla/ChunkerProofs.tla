--------------------------- MODULE ChunkerProofs ---------------------------
(* Theorems about Chunker, for every list of texts, every chunk size and   *)
(* every overlap.                                                          *)
EXTENDS Chunker, TLAPS

---------------------------------------------------------------------------
(* The window                                                              *)

\* In the loop the window min(text_length, cursor + chunk_size) is not empty,
\* lies inside the text, and is longer than the overlap when it is not the
\* last one.
LEMMA WindowInside ==
  ASSUME TypeOK, ParametersValid, cursor < Length
  PROVE  /\ Length \in Nat
         /\ End \in Nat /\ cursor < End /\ End <= Length /\ End - cursor <= size
         /\ End < Length => End = cursor + size
<1>1. text[doc] \in Seq({Visible, Blank}) BY ChunkerAssumption DEF TypeOK
<1>2. Length \in Nat BY <1>1 DEF Length
<1> QED BY <1>2 DEF TypeOK, ParametersValid, End

\* Appending a chunk keeps the chunks there are and adds the new one.
LEMMA AppendedChunk ==
  ASSUME NEW s \in Seq(Span), NEW c \in Span
  PROVE  /\ Append(s, c) \in Seq(Span)
         /\ DOMAIN s = 1..Len(s) /\ Len(s) \in Nat
         /\ DOMAIN Append(s, c) = 1..(Len(s) + 1)
         /\ \A k \in DOMAIN s : Append(s, c)[k] = s[k]
         /\ Append(s, c)[Len(s) + 1] = c
OBVIOUS

---------------------------------------------------------------------------
(* One turn of the loop                                                    *)

\* What CutChunk does to the chunks: the stripped window is appended.
LEMMA CutAppends ==
  ASSUME IInv, CutChunk
  PROVE  \E a, b \in (cursor + 1)..End :
           /\ Stripped([from |-> a, to |-> b])
           /\ a <= b
           /\ [from |-> a, to |-> b] \in Span
           /\ chunks' = [chunks EXCEPT ![doc] = Append(chunks[doc], [from |-> a, to |-> b])]
<1>1. PICK a, b \in (cursor + 1)..End :
        /\ Stripped([from |-> a, to |-> b])
        /\ chunks' = [chunks EXCEPT ![doc] = Append(chunks[doc], [from |-> a, to |-> b])]
  BY DEF CutChunk
<1>2. End \in Nat /\ cursor \in Nat
  BY WindowInside DEF IInv, CutChunk, TypeOK
<1>3. a \in Nat /\ b \in Nat /\ a \in (cursor + 1)..End /\ b \in (cursor + 1)..End BY <1>2
<1>4. VisibleAt(doc, a) /\ \A p \in (cursor + 1)..End : VisibleAt(doc, p) => p \in a..b
  BY <1>1 DEF Stripped
<1>5. a \in a..b BY <1>3, <1>4
<1>6. a <= b BY <1>3, <1>5
<1> QED BY <1>1, <1>3, <1>6 DEF Span

\* Both kinds of turn leave the parameters, the texts and the chunks of other
\* documents alone, keep every chunk of this one, and hold each passage of
\* the window in a chunk.
LEMMA TurnKeepsChunks ==
  ASSUME IInv, CutChunk \/ SkipBlank
  PROVE  /\ chunks' \in [Docs -> Seq(Span)]
         /\ \A d \in Docs : d # doc => chunks'[d] = chunks[d]
         /\ \A k \in DOMAIN chunks[doc] : k \in DOMAIN chunks'[doc] /\ chunks'[doc][k] = chunks[doc][k]
         /\ \A k \in DOMAIN chunks'[doc] : LET c == chunks'[doc][k] IN
              \/ k \in DOMAIN chunks[doc]
              \/ /\ c.from \in (cursor + 1)..End /\ c.to \in (cursor + 1)..End /\ c.from <= c.to
                 /\ Stripped(c)
                 /\ k = Len(chunks[doc]) + 1
         /\ \A a, b \in (cursor + 1)..End : VisibleAt(doc, a) /\ VisibleAt(doc, b) =>
              \E k \in DOMAIN chunks'[doc] : chunks'[doc][k].from <= a /\ b <= chunks'[doc][k].to
<1>1. /\ chunks \in [Docs -> Seq(Span)] /\ doc \in Docs /\ chunks[doc] \in Seq(Span)
      /\ cursor \in Nat /\ End \in Nat
  BY WindowInside DEF IInv, TypeOK, CutChunk, SkipBlank
<1>2. CASE CutChunk
  <2>1. PICK a, b \in (cursor + 1)..End :
          /\ Stripped([from |-> a, to |-> b])
          /\ a <= b
          /\ [from |-> a, to |-> b] \in Span
          /\ chunks' = [chunks EXCEPT ![doc] = Append(chunks[doc], [from |-> a, to |-> b])]
    BY <1>2, CutAppends
  <2> DEFINE c == [from |-> a, to |-> b]
  <2>2. c \in Span /\ c.from = a /\ c.to = b /\ Stripped(c) BY <2>1
  <2>3. /\ chunks'[doc] = Append(chunks[doc], c)
        /\ \A d \in Docs : d # doc => chunks'[d] = chunks[d]
    BY <2>1, <1>1
  <2> HIDE DEF c
  <2>4. /\ Append(chunks[doc], c) \in Seq(Span)
        /\ DOMAIN chunks[doc] = 1..Len(chunks[doc]) /\ Len(chunks[doc]) \in Nat
        /\ DOMAIN Append(chunks[doc], c) = 1..(Len(chunks[doc]) + 1)
        /\ \A k \in DOMAIN chunks[doc] : Append(chunks[doc], c)[k] = chunks[doc][k]
        /\ Append(chunks[doc], c)[Len(chunks[doc]) + 1] = c
    BY <1>1, <2>2, AppendedChunk
  <2>5. chunks' \in [Docs -> Seq(Span)]
    BY <2>1, <2>4, <1>1 DEF c
  <2>6. \A x, y \in (cursor + 1)..End : VisibleAt(doc, x) /\ VisibleAt(doc, y) => c.from <= x /\ y <= c.to
    BY <1>1, <2>1, <2>2 DEF Stripped
  <2>7. \A k \in DOMAIN chunks[doc] : k \in DOMAIN chunks'[doc] /\ chunks'[doc][k] = chunks[doc][k]
    BY <2>3, <2>4
  <2>8. \A k \in DOMAIN chunks'[doc] :
          k \in DOMAIN chunks[doc] \/ (k = Len(chunks[doc]) + 1 /\ chunks'[doc][k] = c)
    BY <2>3, <2>4
  <2>9. Len(chunks[doc]) + 1 \in DOMAIN chunks'[doc] /\ chunks'[doc][Len(chunks[doc]) + 1] = c
    BY <2>3, <2>4
  <2>10. c.from \in (cursor + 1)..End /\ c.to \in (cursor + 1)..End /\ c.from <= c.to
    BY <2>1, <2>2
  <2> QED BY <2>2, <2>3, <2>5, <2>6, <2>7, <2>8, <2>9, <2>10
<1>3. CASE SkipBlank
  <2>1. chunks' = chunks /\ \A p \in (cursor + 1)..End : ~VisibleAt(doc, p)
    BY <1>3 DEF SkipBlank
  <2> QED BY <2>1, <1>1
<1> QED BY <1>2, <1>3

\* Where a turn leaves the loop: on in the same text, past what the window
\* gave; with the next document; or done.
LEMMA TurnAdvances ==
  ASSUME IInv, CutChunk \/ SkipBlank
  PROVE  /\ UNCHANGED <<text, size, overlap>> /\ pc = "loop" /\ ParametersValid
         /\ \/ /\ End < Length /\ pc' = "loop" /\ doc' = doc
               /\ cursor' = End - overlap /\ cursor' \in Nat
               /\ cursor < cursor' /\ cursor' < Length
            \/ End = Length /\ cursor' = cursor /\ doc = NumDocs /\ doc' = doc /\ pc' = "done"
            \/ End = Length /\ cursor' = cursor /\ doc < NumDocs /\ doc' = doc + 1 /\ pc' = "guards"
<1>1. /\ TypeOK /\ ParametersValid /\ pc = "loop" /\ cursor < Length /\ Advance
      /\ UNCHANGED <<text, size, overlap>>
  BY DEF IInv, CutChunk, SkipBlank
<1>2. /\ Length \in Nat /\ End \in Nat /\ cursor < End /\ End <= Length
      /\ End < Length => End = cursor + size
  BY <1>1, WindowInside
<1>3. CASE End < Length
  <2>1. cursor' = End - overlap /\ pc' = pc /\ doc' = doc BY <1>1, <1>2, <1>3 DEF Advance
  <2> QED BY <2>1, <1>1, <1>2, <1>3 DEF TypeOK, ParametersValid
<1>4. CASE ~(End < Length)
  <2>1. End = Length BY <1>2, <1>4
  <2>2. doc \in 1..NumDocs /\ NumDocs \in Nat BY <1>1, ChunkerAssumption DEF TypeOK, Docs
  <2> QED BY <2>1, <2>2, <1>1, <1>2 DEF Advance
<1> QED BY <1>3, <1>4

\* The chunks of the document at hand still fit after a turn.
LEMMA TurnFits ==
  ASSUME IInv, CutChunk \/ SkipBlank
  PROVE  ChunksFit'
<1>1. /\ TypeOK /\ ParametersValid /\ cursor < Length /\ ChunksFit /\ UpToCursor
      /\ UNCHANGED <<text, size, overlap>>
  BY TurnAdvances DEF IInv, CutChunk, SkipBlank
<1>2. /\ Length \in Nat /\ End \in Nat /\ cursor \in Nat /\ cursor < End /\ End <= Length
      /\ End - cursor <= size /\ (End < Length => End = cursor + size)
      /\ size \in Int /\ overlap \in Int /\ overlap < size
  BY <1>1, WindowInside DEF TypeOK, ParametersValid
<1>3. SUFFICES ASSUME NEW d \in Docs, NEW k \in DOMAIN chunks'[d]
               PROVE  LET c == chunks'[d][k] IN
                 /\ 1 <= c.from /\ c.from <= c.to /\ c.to <= Len(text[d])
                 /\ c.to - c.from < size
                 /\ VisibleAt(d, c.from) /\ VisibleAt(d, c.to)
                 /\ \A j \in 1..(k - 1) : chunks'[d][j].from <= c.from /\ chunks'[d][j].to <= c.to
  BY <1>1 DEF ChunksFit, VisibleAt
<1>4. CASE d # doc
  <2>1. chunks'[d] = chunks[d] BY <1>4, TurnKeepsChunks
  <2> QED BY <2>1, <1>1, <1>3 DEF ChunksFit
<1>5. CASE d = doc /\ k \in DOMAIN chunks[doc]
  <2>1. chunks[doc] \in Seq(Span) /\ doc \in Docs BY <1>1 DEF TypeOK
  <2>2. chunks'[doc][k] = chunks[doc][k] BY <1>5, TurnKeepsChunks
  <2>3. \A j \in 1..(k - 1) : j \in DOMAIN chunks[doc]
    BY <2>1, <1>5
  <2>4. \A j \in 1..(k - 1) : chunks'[doc][j] = chunks[doc][j] BY <2>3, TurnKeepsChunks
  <2> QED BY <2>1, <2>2, <2>4, <1>1, <1>5 DEF ChunksFit
<1>6. CASE d = doc /\ k \notin DOMAIN chunks[doc]
  <2> DEFINE c == chunks'[doc][k]
  <2>1. /\ c.from \in (cursor + 1)..End /\ c.to \in (cursor + 1)..End /\ c.from <= c.to
        /\ Stripped(c) /\ k = Len(chunks[doc]) + 1
    BY <1>3, <1>6, TurnKeepsChunks
  <2> HIDE DEF c
  <2>2. chunks[doc] \in Seq(Span) /\ doc \in Docs BY <1>1 DEF TypeOK
  <2>3. \A j \in 1..(k - 1) : j \in DOMAIN chunks[doc] BY <2>1, <2>2
  <2>4. \A j \in 1..(k - 1) : chunks'[doc][j].from <= c.from /\ chunks'[doc][j].to <= c.to
    <3>1. SUFFICES ASSUME NEW j \in DOMAIN chunks[doc]
                   PROVE  chunks[doc][j].from <= c.from /\ chunks[doc][j].to <= c.to
      BY <2>3, TurnKeepsChunks
    <3>2. chunks[doc][j] \in Span BY <2>2, <3>1
    <3>3. chunks[doc][j].from \in Nat /\ chunks[doc][j].to \in Nat BY <3>2 DEF Span
    <3>4. VisibleAt(doc, c.from) /\ c.from \in (cursor + 1)..Length
      BY <2>1, <1>2 DEF Stripped
    <3>5. chunks[doc][j].from <= c.from BY <1>1, <3>1, <3>4 DEF UpToCursor
    <3>6. chunks[doc][j].to <= cursor + overlap /\ VisibleAt(doc, chunks[doc][j].to)
          /\ chunks[doc][j].to <= Length
      BY <1>1, <2>2, <3>1 DEF UpToCursor, ChunksFit, Length
    <3>7. CASE chunks[doc][j].to <= cursor BY <3>3, <3>5, <3>7, <2>1, <1>2
    <3>8. CASE chunks[doc][j].to > cursor
      <4>1. chunks[doc][j].to \in (cursor + 1)..End BY <3>3, <3>6, <3>8, <1>2
      <4>2. chunks[doc][j].to \in c.from..c.to BY <4>1, <3>6, <2>1 DEF Stripped
      <4> QED BY <3>5, <4>2, <2>1, <1>2
    <3> QED BY <3>3, <3>5, <3>7, <3>8, <1>2
  <2>5. VisibleAt(doc, c.from) /\ VisibleAt(doc, c.to) BY <2>1 DEF Stripped
  <2>6. 1 <= c.from /\ c.from <= c.to /\ c.to <= Length /\ c.to - c.from < size
    BY <2>1, <1>2
  <2> QED BY <2>4, <2>5, <2>6, <1>6 DEF Length, c
<1> QED BY <1>4, <1>5, <1>6

\* Passages that were whole stay whole, and those that begin in the window
\* and end in it are.
LEMMA TurnHoldsPassages ==
  ASSUME IInv, CutChunk \/ SkipBlank,
         NEW a \in 1..Length, NEW b \in 1..Length, Passage(doc, a, b),
         a <= cursor \/ b <= End
  PROVE  \E k \in DOMAIN chunks'[doc] : chunks'[doc][k].from <= a /\ b <= chunks'[doc][k].to
<1>1. UpToCursor /\ TypeOK /\ cursor < Length /\ ParametersValid
  BY TurnAdvances DEF IInv, CutChunk, SkipBlank
<1>2. Length \in Nat /\ End \in Nat /\ cursor \in Nat BY <1>1, WindowInside DEF TypeOK
<1>3. CASE a <= cursor
  <2>1. PICK k \in DOMAIN chunks[doc] : chunks[doc][k].from <= a /\ b <= chunks[doc][k].to
    BY <1>1, <1>3 DEF UpToCursor, Whole
  <2> QED BY <2>1, TurnKeepsChunks
<1>4. CASE ~(a <= cursor)
  <2>1. b <= End /\ a <= b /\ VisibleAt(doc, a) /\ VisibleAt(doc, b) BY <1>4 DEF Passage
  <2>2. a \in (cursor + 1)..End /\ b \in (cursor + 1)..End BY <1>2, <1>4, <2>1
  <2> QED BY <2>1, <2>2, TurnKeepsChunks
<1> QED BY <1>3, <1>4

---------------------------------------------------------------------------
(* The inductive invariant                                                 *)

\* Before the first guard nothing is cut.
LEMMA Initially == Init => IInv
<1> SUFFICES ASSUME Init PROVE IInv OBVIOUS
<1>1. /\ \A d \in Docs : chunks[d] = <<>>
      /\ DOMAIN (<<>>) = {}
      /\ doc = 1 /\ pc = "guards" /\ cursor = 0
  BY DEF Init
<1>2. TypeOK
  <2>1. <<>> \in Seq(Span) OBVIOUS
  <2> QED BY <2>1, ChunkerAssumption DEF Init, TypeOK, Docs
<1>3. PassagesWhole
  BY <1>1, ChunkerAssumption DEF PassagesWhole, Finished, Docs
<1>4. ChunksFit BY <1>1 DEF ChunksFit
<1> QED BY <1>1, <1>2, <1>3, <1>4, ChunkerAssumption DEF IInv, Docs

\* The guards change no chunk; an accepted document starts with none.
LEMMA GuardsKeep == ASSUME IInv, Reject \/ Begin PROVE IInv'
<1>1. /\ UNCHANGED <<text, size, overlap, doc, chunks>>
      /\ pc = "guards" /\ chunks[doc] = <<>> /\ TypeOK
  BY DEF Reject, Begin, IInv
<1>2. \/ pc' = "rejected" /\ cursor' = cursor
      \/ pc' = "loop" /\ cursor' = 0 /\ ParametersValid
  BY DEF Reject, Begin
<1>3. TypeOK' BY <1>1, <1>2 DEF TypeOK
<1>4. PassagesWhole' BY <1>1, <1>2 DEF IInv, PassagesWhole, Finished, Passage, Whole, VisibleAt
<1>5. ChunksFit' BY <1>1 DEF IInv, ChunksFit, VisibleAt
<1>6. ParametersValid' <=> ParametersValid BY <1>1 DEF ParametersValid
<1>7. (pc = "loop" => UpToCursor)'
  <2> SUFFICES ASSUME pc' = "loop" PROVE UpToCursor' OBVIOUS
  <2>1. cursor' = 0 /\ chunks'[doc'] = <<>> /\ Length' = Length BY <1>1, <1>2 DEF Length
  <2>2. text[doc] \in Texts BY <1>1 DEF TypeOK
  <2>3. Length \in Nat /\ Length > 0 BY <2>2, ChunkerAssumption DEF Length
  <2> QED BY <2>1, <2>3 DEF UpToCursor
<1>8. \A d \in Docs : d > doc' => chunks'[d] = <<>> BY <1>1 DEF IInv
<1> QED BY <1>1, <1>2, <1>3, <1>4, <1>5, <1>6, <1>7, <1>8 DEF IInv

\* A turn of the loop: the window's passages become whole, and with the last
\* window the document is finished.
LEMMA TurnKeeps == ASSUME IInv, CutChunk \/ SkipBlank PROVE IInv'
<1>1. /\ TypeOK /\ ParametersValid /\ pc = "loop" /\ UpToCursor /\ cursor < Length
      /\ UNCHANGED <<text, size, overlap>>
  BY TurnAdvances DEF IInv, CutChunk, SkipBlank
<1>2. /\ Length \in Nat /\ End \in Nat /\ cursor \in Nat /\ cursor < End /\ End <= Length
      /\ End < Length => End = cursor + size
      /\ size \in Int /\ overlap \in Int /\ overlap < size /\ overlap >= 0
  BY <1>1, WindowInside DEF TypeOK, ParametersValid
<1>3. doc \in 1..NumDocs /\ NumDocs \in Nat BY <1>1, ChunkerAssumption DEF TypeOK, Docs
<1>4. TypeOK'
  BY <1>1, <1>3, TurnAdvances, TurnKeepsChunks DEF TypeOK, Docs
<1>5. ChunksFit' BY TurnFits
<1>6. ParametersValid' BY <1>1 DEF ParametersValid
<1>7. \A d \in Docs : d > doc' => chunks'[d] = <<>>
  BY <1>3, TurnAdvances, TurnKeepsChunks DEF IInv, Docs
<1>8. (pc = "guards" => chunks[doc] = <<>>)'
  BY <1>1, <1>3, TurnAdvances, TurnKeepsChunks DEF IInv, Docs
<1>9. (pc = "loop" => UpToCursor)'
  <2> SUFFICES ASSUME pc' = "loop" PROVE UpToCursor' OBVIOUS
  <2>1. /\ End < Length /\ doc' = doc /\ cursor' = End - overlap /\ cursor' \in Nat
        /\ cursor < cursor' /\ cursor' < Length
    BY TurnAdvances
  <2>2. Length' = Length BY <1>1, <2>1 DEF Length
  <2>3. ASSUME NEW k \in DOMAIN chunks'[doc]
        PROVE  /\ chunks'[doc][k].to <= cursor' + overlap
               /\ \A p \in (cursor' + 1)..Length : VisibleAt(doc, p) => chunks'[doc][k].from <= p
    <3>1. CASE k \in DOMAIN chunks[doc]
      <4>1. chunks'[doc][k] = chunks[doc][k] BY <3>1, TurnKeepsChunks
      <4>2. chunks[doc] \in Seq(Span) BY <1>1 DEF TypeOK
      <4>3. chunks[doc][k] \in Span BY <4>2, <3>1
      <4>4. chunks[doc][k].from \in Nat /\ chunks[doc][k].to \in Nat BY <4>3 DEF Span
      <4>5. chunks[doc][k].to <= cursor + overlap
            /\ \A p \in (cursor + 1)..Length : VisibleAt(doc, p) => chunks[doc][k].from <= p
        BY <1>1, <3>1 DEF UpToCursor
      <4> QED BY <4>1, <4>4, <4>5, <2>1, <1>2
    <3>2. CASE k \notin DOMAIN chunks[doc]
      <4> DEFINE c == chunks'[doc][k]
      <4>1. c.from \in (cursor + 1)..End /\ c.to \in (cursor + 1)..End /\ c.from <= c.to /\ Stripped(c)
        BY <2>3, <3>2, TurnKeepsChunks
      <4> HIDE DEF c
      <4>2. c.to <= cursor' + overlap BY <4>1, <2>1, <1>2
      <4>3. ASSUME NEW p \in (cursor' + 1)..Length, VisibleAt(doc, p) PROVE c.from <= p
        <5>1. CASE p <= End
          <6>1. p \in (cursor + 1)..End BY <5>1, <2>1, <1>2
          <6>2. p \in c.from..c.to BY <6>1, <4>1, <4>3 DEF Stripped
          <6> QED BY <6>2, <4>1, <1>2
        <5>2. CASE ~(p <= End) BY <5>2, <4>1, <2>1, <1>2
        <5> QED BY <5>1, <5>2
      <4> QED BY <4>2, <4>3 DEF c
    <3> QED BY <3>1, <3>2
  <2>4. ASSUME NEW a \in 1..Length, NEW b \in 1..Length, a <= cursor', Passage(doc, a, b)
        PROVE  \E k \in DOMAIN chunks'[doc] : chunks'[doc][k].from <= a /\ b <= chunks'[doc][k].to
    <3>1. b - a <= overlap BY <2>4 DEF Passage
    <3>2. b <= End BY <3>1, <2>4, <2>1, <1>2
    <3> QED BY <3>2, <2>4, TurnHoldsPassages
  <2>5. \A a, b : Passage(doc, a, b)' <=> Passage(doc, a, b)
    BY <1>1, <2>1 DEF Passage, VisibleAt
  <2>6. \A p : VisibleAt(doc, p)' <=> VisibleAt(doc, p) BY <1>1, <2>1 DEF VisibleAt
  <2>7. \A a, b \in 1..Length' : a <= cursor' /\ Passage(doc, a, b)' => Whole(doc, a, b)'
    BY <2>1, <2>2, <2>4, <2>5 DEF Whole
  <2> QED BY <2>1, <2>2, <2>3, <2>6, <2>7, <1>1 DEF UpToCursor
<1>10. PassagesWhole'
  <2>1. SUFFICES ASSUME NEW d \in Docs, Finished(d)', NEW a \in 1..Len(text[d]), NEW b \in 1..Len(text[d]),
                        Passage(d, a, b)
                 PROVE  \E k \in DOMAIN chunks'[d] : chunks'[d][k].from <= a /\ b <= chunks'[d][k].to
    BY <1>1 DEF PassagesWhole, Passage, Whole, VisibleAt
  <2>2. d \in Int BY <1>3 DEF Docs
  <2>3. CASE d = doc
    <3>1. End = Length BY <2>1, <2>3, <1>1, <1>3, TurnAdvances DEF Finished
    <3>2. b <= End BY <3>1, <2>1, <2>3, <1>2 DEF Length
    <3> QED BY <3>2, <2>1, <2>3, TurnHoldsPassages DEF Length
  <2>4. CASE d # doc
    <3>1. Finished(d) BY <2>1, <2>2, <2>4, <1>3, TurnAdvances DEF Finished, Docs
    <3>2. Whole(d, a, b) BY <3>1, <2>1 DEF IInv, PassagesWhole
    <3> QED BY <3>2, <2>4, TurnKeepsChunks DEF Whole
  <2> QED BY <2>3, <2>4
<1> QED BY <1>4, <1>5, <1>6, <1>7, <1>8, <1>9, <1>10 DEF IInv

\* Nothing else changes.
LEMMA StutterKeeps == ASSUME IInv, UNCHANGED vars PROVE IInv'
<1>1. UNCHANGED <<text, size, overlap, pc, doc, cursor, chunks>> BY DEF vars
<1>2. TypeOK' BY <1>1 DEF IInv, TypeOK
<1>3. ChunksFit' BY <1>1 DEF IInv, ChunksFit, VisibleAt
<1>4. PassagesWhole' BY <1>1 DEF IInv, PassagesWhole, Finished, Passage, Whole, VisibleAt
<1>5. (pc = "loop" => UpToCursor)'
  BY <1>1 DEF IInv, UpToCursor, Passage, Whole, VisibleAt, Length
<1>6. (pc \in {"loop", "done"} => ParametersValid)' BY <1>1 DEF IInv, ParametersValid
<1> QED BY <1>1, <1>2, <1>3, <1>4, <1>5, <1>6 DEF IInv

---------------------------------------------------------------------------
(* Theorems                                                                *)

\* The invariant holds for every list of texts, chunk size and overlap.
THEOREM Invariance == Spec => []IInv
<1>1. IInv /\ [Next]_vars => IInv'
  BY GuardsKeep, TurnKeeps, StutterKeeps DEF Next
<1> QED BY Initially, <1>1, PTL DEF Spec

\* A passage of at most overlap + 1 characters is never cut, and no visible
\* character is lost.
THEOREM PassagesWholeHolds == Spec => []PassagesWhole
<1>1. IInv => PassagesWhole BY DEF IInv
<1> QED BY Invariance, <1>1, PTL

\* Chunks are stripped, in order, and no longer than chunk_size.
THEOREM ChunksFitHolds == Spec => []ChunksFit
<1>1. IInv => ChunksFit BY DEF IInv
<1> QED BY Invariance, <1>1, PTL

\* Each turn moves the cursor towards the end of the text or ends the text.
THEOREM CursorAdvancesHolds == Spec => CursorAdvances
<1>1. IInv /\ [Next]_vars => [pc = "loop" /\ pc' = "loop" => cursor < cursor' /\ cursor' < Length]_vars
  <2> SUFFICES ASSUME IInv, Next, pc = "loop", pc' = "loop"
               PROVE  cursor < cursor' /\ cursor' < Length
    OBVIOUS
  <2>1. CutChunk \/ SkipBlank BY DEF Next, Reject, Begin
  <2> QED BY <2>1, TurnAdvances
<1> QED BY Invariance, <1>1, PTL DEF Spec, CursorAdvances
============================================================================
