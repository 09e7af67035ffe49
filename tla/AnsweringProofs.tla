-------------------------- MODULE AnsweringProofs --------------------------
(* Answering for any number of clients, models and changes.                *)
EXTENDS Answering, TLAPS

---------------------------------------------------------------------------
(* The inductive invariant                                                 *)

\* What a request has seen includes what there is now, while it goes on.
SeenIsCurrent == \A c \in Clients :
  request[c].pc \in Calling => \A m \in Models : ollama[m] \in request[c].seen[m]

\* What lets a question fail without ending it at once, and what answers one.
Lapses == {"error", "invalid", "strained"}
Fit == {"good", "strained"}

\* The model in reserve is asked after the default one has failed.
FallbackHasCause == \A c \in Clients :
  request[c].pc = "fallback" => /\ HasFallback
                                /\ Lapses \cap request[c].seen[settings.chat] # {}

\* The marks of a request are set when it gets there, and not before.
ChattedLater == \A c \in Clients :
  /\ request[c].chatted => request[c].pc \notin {"idle", "searching", "embedding"}
  /\ request[c].usedFallback => request[c].pc = "200"

\* What a warmup has found still holds while nothing changes.
ProbesHold ==
  /\ warmup.steady /\ warmup.pc \in {"probe chat", "succeeded"} => Passes(settings.embed)
  /\ warmup.steady /\ warmup.pc = "succeeded" => Passes(settings.chat)

\* Nothing has changed since a request with a warmup behind it began.
VouchedIsSteady == \A c \in Clients :
  request[c].vouched => /\ \A m \in Models : request[c].seen[m] = {ollama[m]}
                        /\ Passes(settings.embed) /\ Passes(settings.chat)

IInv == /\ TypeOK /\ SeenIsCurrent /\ FallbackHasCause /\ ChattedLater
        /\ ProbesHold /\ VouchedIsSteady
        /\ OneGoodModelSuffices /\ MetaIsTrue /\ WarmupVouches

---------------------------------------------------------------------------

\* Init: no request is under way and no warmup has run.
LEMMA InitInvariant == Init => IInv
  BY AnsweringAssumption DEF Init, Idle, IInv, TypeOK, SeenIsCurrent, FallbackHasCause,
     ChattedLater, ProbesHold, VouchedIsSteady, OneGoodModelSuffices, MetaIsTrue, WarmupVouches,
     Request, Warmup, Calling, Replies, Settings

\* A change at the server is seen by every request under way and withdraws
\* every warmup's word.
LEMMA ChangePreserves ==
  ASSUME IInv, NEW m \in Models, NEW x \in Conduct, Change(m, x)
  PROVE  IInv'
PROOF
<1>1. TypeOK'
  <2>1. \A c \in Clients : request'[c] \in Request
    <3> SUFFICES ASSUME NEW c \in Clients PROVE request'[c] \in Request
      OBVIOUS
    <3>1. request[c] \in Request /\ request[c].seen[m] \in SUBSET Conduct
      BY DEF IInv, TypeOK, Request
    <3>2. (IF request[c].pc \in Calling THEN request[c].seen[m] \cup {x} ELSE request[c].seen[m])
            \in SUBSET Conduct
      BY <3>1
    <3> QED
      BY <3>1, <3>2 DEF Change, Request
  <2>2. request' \in [Clients -> Request]
    BY <2>1 DEF Change
  <2>3. settings' \in Settings /\ ollama' \in [Models -> Conduct]
    BY DEF IInv, TypeOK, Change
  <2>4. changes' \in 0 .. MaxChanges
    <3>1. changes \in 0 .. MaxChanges /\ changes < MaxChanges /\ changes' = changes + 1
      BY DEF IInv, TypeOK, Change
    <3>2. MaxChanges \in Nat
      BY AnsweringAssumption
    <3> QED
      BY <3>1, <3>2
  <2>5. warmup' \in Warmup
    BY DEF IInv, TypeOK, Change, Warmup
  <2> QED
    BY <2>2, <2>3, <2>4, <2>5 DEF TypeOK
<1>2. \A c \in Clients : /\ request'[c].pc = request[c].pc
                         /\ request'[c].by = request[c].by
                         /\ request'[c].usedFallback = request[c].usedFallback
                         /\ request'[c].chatted = request[c].chatted
                         /\ request'[c].vouched = FALSE
                         /\ \A n \in Models : request'[c].seen[n] =
                              IF n = m /\ request[c].pc \in Calling
                              THEN request[c].seen[n] \cup {x} ELSE request[c].seen[n]
  BY DEF IInv, TypeOK, Change, Request
<1>3. UNCHANGED settings /\ warmup'.pc = warmup.pc /\ warmup'.steady = FALSE
  BY DEF IInv, TypeOK, Change, Warmup
<1>4. \A n \in Models : ollama'[n] = IF n = m THEN x ELSE ollama[n]
  BY DEF IInv, TypeOK, Change
<1>5. settings.embed \in Models /\ settings.chat \in Models
      /\ Candidates \subseteq Models /\ Candidates' = Candidates /\ HasFallback' = HasFallback
  BY <1>3 DEF IInv, TypeOK, Settings, Candidates, HasFallback
<1>6. SeenIsCurrent'
  BY <1>2, <1>4 DEF IInv, SeenIsCurrent
<1>7. FallbackHasCause' /\ ChattedLater'
  BY <1>2, <1>3, <1>5 DEF IInv, FallbackHasCause, ChattedLater
<1>8. ProbesHold' /\ VouchedIsSteady' /\ WarmupVouches'
  BY <1>2, <1>3 DEF ProbesHold, VouchedIsSteady, WarmupVouches
<1> DEFINE same(c) == \A n \in Models : request'[c].seen[n] = request[c].seen[n]
<1>a. \A c \in Clients : request[c].pc \in {"200", "500", "502"} => same(c)
  BY <1>2 DEF Calling
<1>9. OneGoodModelSuffices'
  <2> SUFFICES ASSUME NEW c \in Clients, request'[c].chatted, request'[c].pc \in {"500", "502"}
               PROVE  \/ \A n \in Candidates : request'[c].seen[n] # {"good"}
                      \/ request'[c].pc = "500" /\ \E n \in Candidates : "foreign" \in request'[c].seen[n]
    BY <1>5 DEF OneGoodModelSuffices
  <2>1. \A n \in Candidates : request'[c].seen[n] = request[c].seen[n]
    BY <1>2, <1>5, <1>a
  <2> QED
    BY <1>2, <2>1 DEF IInv, OneGoodModelSuffices
<1>10. MetaIsTrue'
  <2> SUFFICES ASSUME NEW c \in Clients, request'[c].pc = "200"
               PROVE  /\ request'[c].by \in Candidates /\ Fit \cap request'[c].seen[request'[c].by] # {}
                      /\ request'[c].usedFallback = (request'[c].by # settings.chat)
                      /\ request'[c].usedFallback => request'[c].seen[settings.chat] # {"good"}
    BY <1>3, <1>5 DEF MetaIsTrue, Fit
  <2>1. /\ request[c].by \in Candidates /\ Fit \cap request[c].seen[request[c].by] # {}
        /\ request[c].usedFallback = (request[c].by # settings.chat)
        /\ request[c].usedFallback => request[c].seen[settings.chat] # {"good"}
    BY <1>2 DEF IInv, MetaIsTrue, Fit
  <2>2. same(c) /\ request[c].by \in Models
    BY <1>2, <1>5, <1>a, <2>1
  <2>3. request'[c].usedFallback = request[c].usedFallback /\ request'[c].by = request[c].by
    BY <1>2
  <2>4. /\ request'[c].seen[settings.chat] = request[c].seen[settings.chat]
        /\ request'[c].seen[request[c].by] = request[c].seen[request[c].by]
    BY <2>2, <1>5
  <2> QED
    BY <2>1, <2>3, <2>4
<1> QED
  BY <1>1, <1>6, <1>7, <1>8, <1>9, <1>10 DEF IInv

\* A step of the warmup touches no request.
LEMMA WarmupPreserves ==
  ASSUME IInv, WarmupBegins \/ ProbeEmbed \/ ProbeChat
  PROVE  IInv'
PROOF
<1>1. UNCHANGED <<settings, ollama, changes, request>>
  BY DEF WarmupBegins, ProbeEmbed, ProbeChat, WarmupGoes
<1>2. warmup' \in Warmup /\ ProbesHold'
  <2>1. CASE WarmupBegins
    BY <2>1 DEF Warmup, WarmupBegins, ProbesHold
  <2>2. CASE ProbeEmbed
    <3>1. /\ warmup'.steady = warmup.steady /\ warmup' \in Warmup
          /\ warmup'.pc = IF Passes(settings.embed) THEN "probe chat" ELSE "failed"
      BY <2>2 DEF IInv, TypeOK, Warmup, ProbeEmbed, WarmupGoes
    <3> QED
      BY <1>1, <3>1 DEF ProbesHold, Passes
  <2>3. CASE ProbeChat
    <3>1. /\ warmup'.steady = warmup.steady /\ warmup' \in Warmup
          /\ warmup'.pc = IF Passes(settings.chat) THEN "succeeded" ELSE "failed"
      BY <2>3 DEF IInv, TypeOK, Warmup, ProbeChat, WarmupGoes
    <3> QED
      BY <1>1, <2>3, <3>1 DEF IInv, ProbesHold, Passes, ProbeChat
  <2> QED
    BY <2>1, <2>2, <2>3
<1>3. TypeOK'
  BY <1>1, <1>2 DEF IInv, TypeOK
<1>4. /\ SeenIsCurrent' /\ FallbackHasCause' /\ ChattedLater' /\ VouchedIsSteady'
      /\ OneGoodModelSuffices' /\ MetaIsTrue' /\ WarmupVouches'
  BY <1>1 DEF IInv, SeenIsCurrent, FallbackHasCause, ChattedLater, VouchedIsSteady, Passes,
     OneGoodModelSuffices, MetaIsTrue, WarmupVouches, Candidates, HasFallback
<1> QED
  BY <1>2, <1>3, <1>4 DEF IInv

\* What the parts of the invariant say of one request.
Fine(q) ==
  /\ q \in Request
  /\ q.pc \in Calling => \A m \in Models : ollama[m] \in q.seen[m]
  /\ q.pc = "fallback" => HasFallback /\ Lapses \cap q.seen[settings.chat] # {}
  /\ q.chatted => q.pc \notin {"idle", "searching", "embedding"}
  /\ q.usedFallback => q.pc = "200"
  /\ q.vouched => /\ \A m \in Models : q.seen[m] = {ollama[m]}
                  /\ Passes(settings.embed) /\ Passes(settings.chat)
  /\ q.chatted /\ q.pc \in {"500", "502"} =>
       \/ \A m \in Candidates : q.seen[m] # {"good"}
       \/ q.pc = "500" /\ \E m \in Candidates : "foreign" \in q.seen[m]
  /\ q.pc = "200" => /\ q.by \in Candidates /\ Fit \cap q.seen[q.by] # {}
                     /\ q.usedFallback = (q.by # settings.chat)
                     /\ q.usedFallback => q.seen[settings.chat] # {"good"}
  /\ q.vouched => /\ "error" \notin q.seen[settings.embed] \cup q.seen[settings.chat]
                  /\ q.pc \in {"fallback", "502"} \/ q.usedFallback
                       => {"invalid", "strained"} \cap q.seen[settings.chat] # {}

\* The invariant is what it says of the requests, and of the rest.
LEMMA InvariantByRequest ==
  IInv <=> /\ settings \in Settings /\ ollama \in [Models -> Conduct] /\ changes \in 0 .. MaxChanges
           /\ warmup \in Warmup /\ ProbesHold
           /\ request \in [Clients -> Request]
           /\ \A c \in Clients : Fine(request[c])
  BY DEF IInv, TypeOK, Fine, SeenIsCurrent, FallbackHasCause, ChattedLater, VouchedIsSteady,
     OneGoodModelSuffices, MetaIsTrue, WarmupVouches, Lapses, Fit

\* A handler that leaves its request fine leaves the invariant.
LEMMA OneRequest ==
  ASSUME IInv, NEW c \in Clients, NEW q \in Request, Fine(q), Goes(c, q)
  PROVE  IInv'
PROOF
<1>1. UNCHANGED <<settings, ollama, changes, warmup>> /\ request' = [request EXCEPT ![c] = q]
  BY DEF Goes
<1>2. request' \in [Clients -> Request] /\ \A d \in Clients : Fine(request'[d])
  BY <1>1, InvariantByRequest
<1>3. \A d \in Clients : Fine(request[d])'
  BY <1>1, <1>2 DEF Fine, Passes, Candidates, HasFallback
<1>4. ProbesHold'
  BY <1>1, InvariantByRequest DEF ProbesHold, Passes
<1> QED
  <2>1. TypeOK'
    BY <1>1, <1>2, InvariantByRequest DEF TypeOK
  <2> QED
    BY <1>3, <1>4, <2>1 DEF Fine, IInv, SeenIsCurrent, FallbackHasCause, ChattedLater,
       VouchedIsSteady, OneGoodModelSuffices, MetaIsTrue, WarmupVouches, Lapses, Fit

---------------------------------------------------------------------------
(* The handlers                                                            *)

\* A request begins with what there is; it has a warmup behind it only if
\* nothing has changed since.
LEMMA BeginPreserves ==
  ASSUME IInv, NEW c \in Clients, Begin(c)
  PROVE  IInv'
PROOF
<1> DEFINE q == [Idle EXCEPT !.pc = "searching", !.seen = [m \in Models |-> {ollama[m]}],
                             !.vouched = (warmup.pc = "succeeded" /\ warmup.steady)]
<1>1. Goes(c, q)
  BY DEF Begin
<1>2. /\ q \in Request /\ q.pc = "searching" /\ ~q.usedFallback /\ ~q.chatted
      /\ \A m \in Models : q.seen[m] = {ollama[m]}
      /\ q.vouched => warmup.pc = "succeeded" /\ warmup.steady
  <2>1. [m \in Models |-> {ollama[m]}] \in [Models -> SUBSET Conduct]
    BY DEF IInv, TypeOK
  <2>2. (warmup.pc = "succeeded" /\ warmup.steady) \in BOOLEAN
    OBVIOUS
  <2>3. Idle \in Request
    BY DEF Idle, Request, Calling, Replies
  <2>4. /\ q.pc = "searching" /\ q.seen = [m \in Models |-> {ollama[m]}]
        /\ q.vouched = (warmup.pc = "succeeded" /\ warmup.steady)
        /\ q.by = Unset /\ q.usedFallback = FALSE /\ q.chatted = FALSE
    BY DEF Idle
  <2>5. q \in Request
    BY <2>1, <2>2, <2>3 DEF Request, Calling
  <2> QED
    BY <2>4, <2>5
<1>3. settings.embed \in Models /\ settings.chat \in Models
  BY DEF IInv, TypeOK, Settings
<1>4. q.vouched => Passes(settings.embed) /\ Passes(settings.chat)
  BY <1>2 DEF IInv, ProbesHold
<1>5. Fine(q)
  BY <1>2, <1>3, <1>4 DEF Fine, Passes
<1> QED
  BY <1>1, <1>2, <1>5, OneRequest

\* A request that goes on has the same history.
LEMMA RequestMoves ==
  ASSUME IInv, NEW c \in Clients, request[c].pc \in Calling,
         NEW q \in Request, Goes(c, q),
         q.seen = request[c].seen, q.vouched = request[c].vouched,
         q.pc \notin {"idle", "searching"}, q.chatted => q.pc # "embedding",
         q.pc = "fallback" => HasFallback /\ ollama[settings.chat] \in Lapses,
         q.chatted /\ q.pc = "502" => \A m \in Candidates : q.seen[m] # {"good"},
         q.chatted /\ q.pc = "500" => \E m \in Candidates : "foreign" \in q.seen[m],
         q.pc = "200" => /\ q.by \in Candidates /\ Fit \cap q.seen[q.by] # {}
                         /\ q.usedFallback = (q.by # settings.chat),
         q.usedFallback => q.pc = "200",
         q.pc = "502" \/ q.usedFallback => Lapses \cap q.seen[settings.chat] # {}
  PROVE  IInv'
PROOF
<1>1. request[c] \in Request /\ Fine(request[c])
  BY InvariantByRequest
<1>2. settings.embed \in Models /\ settings.chat \in Models
  BY DEF IInv, TypeOK, Settings
<1>3. \A m \in Models : ollama[m] \in q.seen[m]
  BY <1>1 DEF Fine
<1>4. q.vouched => /\ \A m \in Models : q.seen[m] = {ollama[m]}
                   /\ Passes(settings.embed) /\ Passes(settings.chat)
  BY <1>1 DEF Fine
<1>5. q.pc = "fallback" => HasFallback /\ Lapses \cap q.seen[settings.chat] # {}
  BY <1>2, <1>3
<1>6. q.vouched => /\ "error" \notin q.seen[settings.embed] \cup q.seen[settings.chat]
                   /\ q.pc \in {"fallback", "502"} \/ q.usedFallback
                        => {"invalid", "strained"} \cap q.seen[settings.chat] # {}
  BY <1>2, <1>4, <1>5 DEF Passes, Lapses
<1>7. Fine(q)
  BY <1>2, <1>3, <1>4, <1>5, <1>6 DEF Fine, Lapses
<1> QED
  BY <1>7, OneRequest

\* What the invariant says of a request that is in a call.
LEMMA InACall ==
  ASSUME IInv, NEW c \in Clients, request[c].pc \in Calling
  PROVE  /\ request[c] \in Request /\ request[c].usedFallback = FALSE
         /\ request[c].pc \in {"searching", "embedding"} => request[c].chatted = FALSE
         /\ \A m \in Models : ollama[m] \in request[c].seen[m]
         /\ request[c].pc = "fallback" => /\ HasFallback
                                          /\ Lapses \cap request[c].seen[settings.chat] # {}
         /\ settings.embed \in Models /\ settings.chat \in Models /\ Candidates \subseteq Models
PROOF
<1>1. request[c] \in Request /\ Fine(request[c])
  BY InvariantByRequest
<1>2. request[c].usedFallback \in BOOLEAN /\ request[c].chatted \in BOOLEAN
  BY <1>1 DEF Request
<1>3. settings.embed \in Models /\ settings.chat \in Models /\ Candidates \subseteq Models
  BY DEF IInv, TypeOK, Settings, Candidates, HasFallback
<1> QED
  BY <1>1, <1>2, <1>3 DEF Fine, Calling

\* A request ends before the chat, or has an embedding to ask for.
LEMMA SearchPreserves ==
  ASSUME IInv, NEW c \in Clients, request[c].pc \in {"searching", "embedding"},
         NEW pc \in {"503", "500", "embedding"}, MovesTo(c, pc)
  PROVE  IInv'
PROOF
<1> DEFINE q == [request[c] EXCEPT !.pc = pc]
<1>1. request[c].pc \in Calling
  BY DEF Calling
<1>2. /\ request[c] \in Request /\ request[c].usedFallback = FALSE /\ request[c].chatted = FALSE
  BY <1>1, InACall
<1>3. /\ q \in Request /\ q.pc = pc /\ q.seen = request[c].seen /\ q.vouched = request[c].vouched
      /\ q.usedFallback = FALSE /\ q.chatted = FALSE
  BY <1>2 DEF Request, Calling, Replies
<1>4. Goes(c, q)
  BY DEF MovesTo
<1> HIDE DEF q
<1> QED
  BY <1>1, <1>3, <1>4, RequestMoves

\* The chat is reached.
LEMMA ReachesChat ==
  ASSUME IInv, NEW c \in Clients, request[c].pc \in {"searching", "embedding"},
         Goes(c, [request[c] EXCEPT !.pc = "chat", !.chatted = TRUE])
  PROVE  IInv'
PROOF
<1> DEFINE q == [request[c] EXCEPT !.pc = "chat", !.chatted = TRUE]
<1>1. request[c].pc \in Calling
  BY DEF Calling
<1>2. request[c] \in Request /\ request[c].usedFallback = FALSE
  BY <1>1, InACall
<1>3. /\ q \in Request /\ q.pc = "chat" /\ q.seen = request[c].seen /\ q.vouched = request[c].vouched
      /\ q.usedFallback = FALSE
  BY <1>2 DEF Request, Calling
<1>4. Goes(c, q)
  OBVIOUS
<1> HIDE DEF q
<1> QED
  BY <1>1, <1>3, <1>4, RequestMoves

\* A chat model answers.
LEMMA ModelAnswers ==
  ASSUME IInv, NEW c \in Clients, NEW m \in Candidates, NEW used \in BOOLEAN,
         ollama[m] \in Fit, Answers(c, m, used),
         \/ request[c].pc = "chat" /\ m = settings.chat /\ used = FALSE
         \/ request[c].pc = "fallback" /\ m = settings.fallback /\ used = TRUE
  PROVE  IInv'
PROOF
<1> DEFINE q == [request[c] EXCEPT !.pc = "200", !.by = m, !.usedFallback = used]
<1>1. request[c].pc \in Calling
  BY DEF Calling
<1>2. /\ request[c] \in Request /\ m \in Models /\ Fit \cap request[c].seen[m] # {}
      /\ request[c].pc = "fallback" => /\ HasFallback
                                       /\ Lapses \cap request[c].seen[settings.chat] # {}
  BY <1>1, InACall
<1>3. /\ q \in Request /\ q.pc = "200" /\ q.by = m /\ q.usedFallback = used
      /\ q.seen = request[c].seen /\ q.vouched = request[c].vouched
  BY <1>2 DEF Request, Replies
<1>4. used = (m # settings.chat)
  BY <1>2 DEF HasFallback
<1>5. used => Lapses \cap request[c].seen[settings.chat] # {}
  BY <1>2
<1>6. Goes(c, q)
  BY DEF Answers
<1> HIDE DEF q
<1> QED
  BY <1>1, <1>2, <1>3, <1>4, <1>5, <1>6, RequestMoves

\* A chat model does not answer well, and the request ends or the model in
\* reserve is asked.
LEMMA ModelFails ==
  ASSUME IInv, NEW c \in Clients, NEW m \in Candidates, NEW pc \in {"500", "502", "fallback"},
         ollama[m] \in Lapses \cup {"foreign"}, MovesTo(c, pc),
         pc = "500" <=> ollama[m] = "foreign",
         \/ request[c].pc = "chat" /\ m = settings.chat /\ (pc = "fallback" => HasFallback)
                                   /\ (pc = "502" => ~HasFallback)
         \/ request[c].pc = "fallback" /\ m = settings.fallback /\ pc # "fallback"
  PROVE  IInv'
PROOF
<1> DEFINE q == [request[c] EXCEPT !.pc = pc]
<1>1. request[c].pc \in Calling
  BY DEF Calling
<1>2. /\ request[c] \in Request /\ m \in Models /\ ollama[m] \in request[c].seen[m]
      /\ request[c].usedFallback = FALSE /\ settings.chat \in Models
      /\ request[c].pc = "fallback" => /\ HasFallback
                                       /\ Lapses \cap request[c].seen[settings.chat] # {}
  BY <1>1, InACall
<1>3. /\ q \in Request /\ q.pc = pc /\ q.usedFallback = FALSE
      /\ q.seen = request[c].seen /\ q.vouched = request[c].vouched
  BY <1>2 DEF Request, Replies, Calling
<1>4. pc = "500" => "foreign" \in request[c].seen[m]
  BY <1>2
<1>5. pc = "502" => /\ Lapses \cap request[c].seen[settings.chat] # {}
                    /\ \A n \in Candidates : request[c].seen[n] # {"good"}
  BY <1>2 DEF Candidates, HasFallback, Lapses
<1>6. pc = "fallback" => HasFallback /\ ollama[settings.chat] \in Lapses
  OBVIOUS
<1>7. Goes(c, q)
  BY DEF MovesTo
<1> HIDE DEF q
<1> QED
  BY <1>1, <1>3, <1>4, <1>5, <1>6, <1>7, RequestMoves

---------------------------------------------------------------------------

\* Every step keeps the invariant.
LEMMA StepPreserves == IInv /\ [Next]_vars => IInv'
PROOF
<1> SUFFICES ASSUME IInv, [Next]_vars PROVE IInv'
  OBVIOUS
<1>1. CASE \E m \in Models, x \in Conduct : Change(m, x)
  BY <1>1, ChangePreserves
<1>2. ASSUME NEW c \in Clients, AskStep(c) PROVE IInv'
  <2>1. CASE Begin(c)
    BY <2>1, BeginPreserves
  <2>2. CASE SearchEnds(c)
    BY <2>2, SearchPreserves, ReachesChat DEF SearchEnds
  <2>3. CASE Embed(c)
    BY <2>3, SearchPreserves, ReachesChat DEF Embed
  <2>4. CASE Chat(c)
    <3>1. settings.chat \in Candidates /\ TRUE \in BOOLEAN /\ FALSE \in BOOLEAN
      BY DEF Candidates
    <3>2. request[c].pc = "chat"
      BY <2>4 DEF Chat
    <3>3. CASE ollama[settings.chat] \in Fit /\ Answers(c, settings.chat, FALSE)
      BY <3>1, <3>2, <3>3, ModelAnswers
    <3>4. CASE ollama[settings.chat] = "foreign" /\ MovesTo(c, "500")
      BY <3>1, <3>2, <3>4, ModelFails
    <3>5. CASE /\ ollama[settings.chat] \in Lapses
               /\ MovesTo(c, IF HasFallback THEN "fallback" ELSE "502")
      <4>1. CASE HasFallback
        BY <3>1, <3>2, <3>5, <4>1, ModelFails DEF Lapses
      <4>2. CASE ~HasFallback
        BY <3>1, <3>2, <3>5, <4>2, ModelFails DEF Lapses
      <4> QED
        BY <4>1, <4>2
    <3> QED
      BY <2>4, <3>3, <3>4, <3>5 DEF Chat, Outcomes, Lapses, Fit
  <2>5. CASE ChatFallback(c)
    <3>1. request[c].pc = "fallback" /\ settings.fallback \in Candidates /\ TRUE \in BOOLEAN
      BY <2>5, InACall DEF ChatFallback, Calling, Candidates
    <3>2. CASE ollama[settings.fallback] \in Fit /\ Answers(c, settings.fallback, TRUE)
      BY <3>1, <3>2, ModelAnswers
    <3>3. CASE ollama[settings.fallback] = "foreign" /\ MovesTo(c, "500")
      BY <3>1, <3>3, ModelFails
    <3>4. CASE ollama[settings.fallback] \in Lapses /\ MovesTo(c, "502")
      BY <3>1, <3>4, ModelFails DEF Lapses
    <3> QED
      BY <2>5, <3>2, <3>3, <3>4 DEF ChatFallback, Outcomes, Lapses, Fit
  <2> QED
    BY <1>2, <2>1, <2>2, <2>3, <2>4, <2>5 DEF AskStep
<1>3. CASE WarmupBegins \/ ProbeEmbed \/ ProbeChat
  BY <1>3, WarmupPreserves
<1>4. CASE UNCHANGED vars
  <2>1. TypeOK' /\ ProbesHold'
    BY <1>4 DEF vars, IInv, TypeOK, ProbesHold, Passes
  <2>2. /\ SeenIsCurrent' /\ FallbackHasCause' /\ ChattedLater' /\ VouchedIsSteady'
        /\ OneGoodModelSuffices' /\ MetaIsTrue' /\ WarmupVouches'
    BY <1>4 DEF vars, IInv, SeenIsCurrent, FallbackHasCause, ChattedLater, VouchedIsSteady, Passes,
       OneGoodModelSuffices, MetaIsTrue, WarmupVouches, Candidates, HasFallback
  <2> QED
    BY <2>1, <2>2 DEF IInv
<1> QED
  BY <1>1, <1>2, <1>3, <1>4 DEF Next

\* The invariant holds for any number of clients, models and changes.
THEOREM Invariance == Spec => []IInv
  BY InitInvariant, StepPreserves, PTL DEF Spec

\* The types of the model.
THEOREM TypeCorrect == Spec => []TypeOK
<1>1. IInv => TypeOK
  BY DEF IInv
<1> QED
  BY Invariance, <1>1, PTL

\* OllamaChatClient: a model that answers well throughout is enough.
THEOREM OneGoodModelSufficesHolds == Spec => []OneGoodModelSuffices
<1>1. IInv => OneGoodModelSuffices
  BY DEF IInv
<1> QED
  BY Invariance, <1>1, PTL

\* The meta of an answer (main.py:309-316) is true.
THEOREM MetaIsTrueHolds == Spec => []MetaIsTrue
<1>1. IInv => MetaIsTrue
  BY DEF IInv
<1> QED
  BY Invariance, <1>1, PTL

\* The worth of a successful warmup.
THEOREM WarmupVouchesHolds == Spec => []WarmupVouches
<1>1. IInv => WarmupVouches
  BY DEF IInv
<1> QED
  BY Invariance, <1>1, PTL
============================================================================
