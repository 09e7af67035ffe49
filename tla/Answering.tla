----------------------------- MODULE Answering -----------------------------
(* POST /ask after its search (apps/api/src/api/main.py, llm.py,            *)
(* embedding_client.py) and the warmup runner (warmup_job_runner.py), which *)
(* call the same models of an Ollama server while models are pulled,        *)
(* removed, unloaded or slow.  The search itself is in Retrieval; here it   *)
(* has an outcome.                                                          *)
EXTENDS Naturals

CONSTANTS Clients,       \* concurrent requests
          Models,        \* models the server may be asked for
          Unset,         \* OLLAMA_FALLBACK_MODEL is blank
          MaxChanges     \* bound: changes of what the server does

ASSUME AnsweringAssumption == Unset \notin Models /\ MaxChanges \in Nat

VARIABLES settings,      \* configuration of both containers (compose.yml)
          ollama,        \* what a call to a model is answered with
          changes,
          request,       \* per client: where its request is and what it got
          warmup         \* the warmup runner

vars == <<settings, ollama, changes, request, warmup>>

---------------------------------------------------------------------------
(* State                                                                   *)

Settings == [embed : Models, chat : Models, fallback : Models \cup {Unset}]

\* "error": no connection, a timeout or an HTTP status such as 404.
\* "strained": a few tokens come in time; a question with its context may
\* time out or be turned down, and the next one not.
\* "invalid": 200 and a body without the field that is asked for, a blank
\* one, or no JSON.  "foreign": JSON that is not an object, on which .get
\* raises an AttributeError.
Conduct == {"good", "strained", "error", "invalid", "foreign"}

Calling == {"searching", "embedding", "chat", "fallback"}
Replies == {"200", "500", "502", "503"}

\* by and usedFallback: the meta of the answer.  History: what each model
\* has done since the request began, whether the chat has been reached, and
\* whether a warmup vouches for the models.
Request == [pc : {"idle"} \cup Calling \cup Replies, by : Models \cup {Unset},
            usedFallback : BOOLEAN, seen : [Models -> SUBSET Conduct],
            chatted : BOOLEAN, vouched : BOOLEAN]

\* steady (history): nothing has changed at the server since it began.
Warmup == [pc : {"idle", "probe embed", "probe chat", "succeeded", "failed"},
           steady : BOOLEAN]

TypeOK == /\ settings \in Settings
          /\ ollama \in [Models -> Conduct]
          /\ changes \in 0 .. MaxChanges
          /\ request \in [Clients -> Request]
          /\ warmup \in Warmup

Idle == [pc |-> "idle", by |-> Unset, usedFallback |-> FALSE,
         seen |-> [m \in Models |-> {}], chatted |-> FALSE, vouched |-> FALSE]

Init == /\ settings \in Settings
        /\ ollama \in [Models -> Conduct]
        /\ changes = 0
        /\ request = [c \in Clients |-> Idle]
        /\ warmup = [pc |-> "idle", steady |-> FALSE]

\* The server behaves differently towards one model.
Change(m, x) ==
  /\ changes < MaxChanges
  /\ ollama[m] # x
  /\ ollama' = [ollama EXCEPT ![m] = x]
  /\ changes' = changes + 1
  /\ request' = [c \in Clients |->
       [request[c] EXCEPT !.seen[m] = IF request[c].pc \in Calling THEN @ \cup {x} ELSE @,
                          !.vouched = FALSE]]
  /\ warmup' = [warmup EXCEPT !.steady = FALSE]
  /\ UNCHANGED settings

---------------------------------------------------------------------------
(* POST /ask                                                               *)

HasFallback == settings.fallback \notin {Unset, settings.chat}
Candidates == {settings.chat} \cup (IF HasFallback THEN {settings.fallback} ELSE {})

Goes(c, r) == /\ request' = [request EXCEPT ![c] = r]
              /\ UNCHANGED <<settings, ollama, changes, warmup>>
MovesTo(c, pc) == Goes(c, [request[c] EXCEPT !.pc = pc])

Begin(c) ==
  /\ request[c].pc \notin Calling
  /\ Goes(c, [Idle EXCEPT !.pc = "searching", !.seen = [m \in Models |-> {ollama[m]}],
                          !.vouched = (warmup.pc = "succeeded" /\ warmup.steady)])

\* There is no index (503), or SQLite raises (500); or there are chunks to
\* compare the question with, or none, or those of index.json, for which no
\* embedding is asked for.  Without hits the chat is asked all the same.
SearchEnds(c) ==
  /\ request[c].pc = "searching"
  /\ \/ \E pc \in {"503", "500", "embedding"} : MovesTo(c, pc)
     \/ Goes(c, [request[c] EXCEPT !.pc = "chat", !.chatted = TRUE])

\* What the call with a question may end in.
Outcomes(m) == IF ollama[m] = "strained" THEN {"good", "error"} ELSE {ollama[m]}

\* Whatever goes wrong, the answer is a 500: search_index makes it a
\* ValueError, or nobody catches it.
Embed(c) ==
  /\ request[c].pc = "embedding"
  /\ \E x \in Outcomes(settings.embed) :
       IF x = "good" THEN Goes(c, [request[c] EXCEPT !.pc = "chat", !.chatted = TRUE])
                     ELSE MovesTo(c, "500")

Answers(c, m, fallback) ==
  Goes(c, [request[c] EXCEPT !.pc = "200", !.by = m, !.usedFallback = fallback])

\* Fault: the error of the first candidate is raised at once.
ChatGivesUp(c) ==
  /\ request[c].pc = "chat"
  /\ \E x \in Outcomes(settings.chat) :
     \/ x = "good" /\ Answers(c, settings.chat, FALSE)
     \/ x = "foreign" /\ MovesTo(c, "500")
     \/ x \in {"error", "invalid"} /\ MovesTo(c, "502")

\* Fault: the answer is built from the configuration.
FallbackNamesDefault(c) ==
  /\ request[c].pc = "fallback"
  /\ \E x \in Outcomes(settings.fallback) :
     \/ x = "good" /\ Answers(c, settings.chat, FALSE)
     \/ x = "foreign" /\ MovesTo(c, "500")
     \/ x \in {"error", "invalid"} /\ MovesTo(c, "502")

\* The default model: an HTTP error or a ValueError leads on to the fallback
\* model, if there is one; if not, "No model candidates configured".
Chat(c) ==
  /\ request[c].pc = "chat"
  /\ \E x \in Outcomes(settings.chat) :
     \/ x = "good" /\ Answers(c, settings.chat, FALSE)
     \/ x = "foreign" /\ MovesTo(c, "500")
     \/ x \in {"error", "invalid"} /\ MovesTo(c, IF HasFallback THEN "fallback" ELSE "502")

ChatFallback(c) ==
  /\ request[c].pc = "fallback"
  /\ \E x \in Outcomes(settings.fallback) :
     \/ x = "good" /\ Answers(c, settings.fallback, TRUE)
     \/ x = "foreign" /\ MovesTo(c, "500")
     \/ x \in {"error", "invalid"} /\ MovesTo(c, "502")

---------------------------------------------------------------------------
(* run_warmup_job                                                          *)

WarmupGoes(pc) == /\ warmup' = [warmup EXCEPT !.pc = pc]
                  /\ UNCHANGED <<settings, ollama, changes, request>>

WarmupBegins ==
  /\ warmup.pc \in {"idle", "succeeded", "failed"}
  /\ warmup' = [pc |-> "probe embed", steady |-> TRUE]
  /\ UNCHANGED <<settings, ollama, changes, request>>

\* _probe: "hello" and one token of "warmup ping", short enough for a server
\* that is only strained; raise_for_status, and the body is not read.
Passes(m) == ollama[m] # "error"

ProbeEmbed == /\ warmup.pc = "probe embed"
              /\ WarmupGoes(IF Passes(settings.embed) THEN "probe chat" ELSE "failed")

\* Fault: any of the chat models will do.
ProbeAnyChat ==
  /\ warmup.pc = "probe chat"
  /\ WarmupGoes(IF \E m \in Candidates : Passes(m) THEN "succeeded" ELSE "failed")

ProbeChat == /\ warmup.pc = "probe chat"
             /\ WarmupGoes(IF Passes(settings.chat) THEN "succeeded" ELSE "failed")

---------------------------------------------------------------------------
AskStep(c) == Begin(c) \/ SearchEnds(c) \/ Embed(c) \/ Chat(c) \/ ChatFallback(c)

Next == \/ \E m \in Models, x \in Conduct : Change(m, x)
        \/ \E c \in Clients : AskStep(c)
        \/ WarmupBegins \/ ProbeEmbed \/ ProbeChat

Spec == Init /\ [][Next]_vars

---------------------------------------------------------------------------
(* Properties                                                              *)

\* While one of the configured models answers well from the beginning of a
\* request to its end, whatever the other one does meanwhile, the question is
\* not refused once the chat is reached, with one exception: a candidate whose
\* answer is JSON but no object ends the request, and the model in reserve is
\* not asked (llm.py:42 catches no AttributeError).
OneGoodModelSuffices == \A c \in Clients : LET q == request[c] IN
  q.chatted /\ q.pc \in {"500", "502"} =>
    \/ \A m \in Candidates : q.seen[m] # {"good"}
    \/ q.pc = "500" /\ \E m \in Candidates : "foreign" \in q.seen[m]

\* An answer says which model it is of: the one named has been fit to answer
\* during the request, and the model in reserve is named, with used_fallback,
\* only if the default one did not do so throughout.
MetaIsTrue == \A c \in Clients : LET q == request[c] IN
  q.pc = "200" => /\ q.by \in Candidates /\ {"good", "strained"} \cap q.seen[q.by] # {}
                  /\ q.usedFallback = (q.by # settings.chat)
                  /\ q.usedFallback => q.seen[settings.chat] # {"good"}

\* What a successful warmup is worth: unless the server changes after the
\* warmup began, both models are there for a request that comes after it.
\* If the default one still fails it, or the reserve answers, it is for what
\* the probes do not try: the content of a 200, or a question longer than
\* theirs under the same timeout (warmup_job_runner.py:108-127, llm.py:58-78).
WarmupVouches == \A c \in Clients : LET q == request[c] IN
  q.vouched => /\ "error" \notin q.seen[settings.embed] \cup q.seen[settings.chat]
               /\ q.pc \in {"fallback", "502"} \/ q.usedFallback
                    => {"invalid", "strained"} \cap q.seen[settings.chat] # {}
============================================================================
