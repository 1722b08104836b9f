----------------------------- MODULE ModelCalls -----------------------------
(***************************************************************************)
(* Calls of models: which endpoint and which key the environment stands for *)
(* (jinshu/model_config.py), the clients of the workspace (core/provider.py),*)
(* of the financial runtime (jinshu/live.py) and of the engine (llm/*.py),   *)
(* and the gateway that serves private models one request at a time         *)
(* (services/model-gateway).  A caller gives up when it has waited too long; *)
(* the gateway does not notice.  Of a text it is kept which it is, of a      *)
(* vector or a score which text it is of.                                   *)
(***************************************************************************)
EXTENDS Integers, SequencesExt, FiniteSetsExt

CONSTANTS
  Calls,
  Texts,      \* how many a call sends: chunks to embed, candidates to rank
  BatchSize,  \* of the financial runtime
  Capacity,   \* texts the gateway takes at once
  TopK,       \* candidates asked for
  Retries,    \* requests of one call of the relay
  None

VARIABLES
  env,       \* variables of the environment
  endpoint,  \* "gateway", or "provider" somewhere else
  call,      \* of each call: where it is and what it has
  waiting,   \* requests at the gateway, in the order they came
  serving,   \* the one it works on, or None
  loaded,    \* models it has in memory
  answers    \* answers on their way

gateway == <<waiting, serving, loaded>>
vars == <<env, endpoint, call, gateway, answers>>
-----------------------------------------------------------------------------
(* resolve_chat.  "" is a variable that is not set or blank; a base is the   *)
(* official one of DeepSeek, some other of https or http, one of this       *)
(* machine, or none a call could be sent to.                                *)
Bases == {"", "official", "https", "http", "local", "odd"}
Group(key) == [base : Bases, key : {"", key}, model : {"", "named", "bad"}]
Environments ==
  [selection : {"auto", "deepseek", "openai_compatible", "other"},
   chat : Group("chat"), deepseek : Group("deepseek"),
   relay : {[base |-> b, key |-> k, model |-> "named"] : b \in {"", "official", "https"}, k \in {"", "relay"}},
   vercel : BOOLEAN]

Present(group) == group.base # "" \/ group.key # "" \/ group.model # ""
Or(value, default) == IF value = "" THEN default ELSE value

UsesChat == env.selection = "openai_compatible" \/ (env.selection = "auto" /\ Present(env.chat))
UsesRelay ==
  ~UsesChat /\ env.selection = "auto" /\ ~Present(env.deepseek) /\ env.relay.key # ""

Chosen ==
  IF UsesChat THEN env.chat
  ELSE IF UsesRelay THEN env.relay
  ELSE [env.deepseek EXCEPT !.base = Or(@, "official"), !.model = Or(@, "named")]

Missing == Chosen.base = "" \/ Chosen.key = "" \/ Chosen.model = ""

\* Mutant: any address is good enough for the key of DeepSeek.
AnyAddress ==
  \/ env.selection = "other"
  \/ env.selection = "deepseek" /\ Present(env.chat)
  \/ Chosen.base = "odd" \/ Chosen.model = "bad"
  \/ env.vercel /\ Chosen.base \in {"http", "local"}

Invalid ==
  \/ env.selection = "other"
  \/ env.selection = "deepseek" /\ Present(env.chat)
  \/ Chosen.base = "odd" \/ Chosen.model = "bad"
  \/ ~UsesChat /\ ~UsesRelay /\ Chosen.base # "official"
  \/ env.vercel /\ Chosen.base \in {"http", "local"}

Configured == ~Missing /\ ~Invalid

\* Who gets the parameter that only DeepSeek knows.
Provider ==
  IF Chosen.base = "official" \/ (~UsesChat /\ ~UsesRelay) THEN "deepseek" ELSE "openai_compatible"
-----------------------------------------------------------------------------
Clients == {"workspace", "runtime", "engine", "embedding", "rerank", "relay_embedding", "relay_rerank"}
Relays == {"relay_embedding", "relay_rerank"}
KindOf(by) ==
  CASE by \in {"workspace", "runtime", "engine"} -> "chat"
    [] by \in {"embedding", "relay_embedding"} -> "embedding"
    [] OTHER -> "rerank"

Unused == [by |-> None, at |-> "idle", sent |-> 0, batch |-> 1, got |-> <<>>]

Init ==
  /\ env \in Environments
  /\ endpoint \in {"gateway", "provider"}
  /\ call = [c \in Calls |-> Unused]
  /\ waiting = <<>> /\ serving = None /\ loaded = {}
  /\ answers = {}

\* The texts of a request: a batch of them, or all.
Sent(by, batch) ==
  LET all == [i \in 1 .. Texts |-> i]
  IN  IF by # "embedding" THEN all
      ELSE SubSeq(all, (batch - 1) * BatchSize + 1,
                  IF batch * BatchSize < Texts THEN batch * BatchSize ELSE Texts)

Request(c, n, row) == [call |-> c, number |-> n, by |-> row.by, texts |-> Sent(row.by, row.batch)]

Row(i, t) == [index |-> i, of |-> t]
Answer(r, status, rows, finish) ==
  [call |-> r.call, number |-> r.number, status |-> status, rows |-> rows, finish |-> finish]

\* What a provider may answer; "length" is a text that was cut.
Said(r) ==
  LET n == Len(r.texts)
      indices == UNION {[1 .. k -> 0 .. n] : k \in 0 .. n}
      rows(s) == [k \in DOMAIN s |-> Row(s[k], IF s[k] < n THEN r.texts[s[k] + 1] ELSE None)]
  IN  {Answer(r, s, <<>>, "stop") : s \in {"refused", "failed"}} \cup
      IF KindOf(r.by) = "chat"
      THEN {Answer(r, "ok", <<>>, f) : f \in {"stop", "empty", "length"}}
      ELSE {Answer(r, "ok", rows(s), f) : s \in indices,
              f \in IF KindOf(r.by) = "embedding" THEN {"stop", "misfit"} ELSE {"stop"}}

\* Nobody reads any more what a caller was sent before.
Unread(c) == {a \in answers : a.call # c}

\* A request is sent; the gateway refuses more texts than it takes at once.
Send(c, row) ==
  LET r == Request(c, row.sent + 1, row)
  IN  /\ call' = [call EXCEPT ![c] = [row EXCEPT !.at = "waiting", !.sent = @ + 1]]
      /\ CASE endpoint = "provider" ->
                (\E a \in Said(r) : answers' = Unread(c) \cup {a}) /\ UNCHANGED waiting
           [] endpoint = "gateway" /\ KindOf(row.by) = "embedding" /\ Len(r.texts) > Capacity ->
                answers' = Unread(c) \cup {Answer(r, "refused", <<>>, "stop")} /\ UNCHANGED waiting
           [] OTHER -> waiting' = Append(waiting, r) /\ answers' = Unread(c)
      /\ UNCHANGED <<env, endpoint, serving, loaded>>

Begin(c, by) ==
  /\ call[c].at = "idle"
  /\ Send(c, [Unused EXCEPT !.by = by])
-----------------------------------------------------------------------------
(* The gateway: a semaphore of one, models loaded when first asked for.     *)
Take ==
  /\ serving = None /\ waiting # <<>>
  /\ serving' = Head(waiting)
  /\ waiting' = Tail(waiting)
  /\ UNCHANGED <<env, endpoint, call, loaded, answers>>

Load ==
  /\ serving # None
  /\ loaded' = loaded \cup {KindOf(serving.by)}
  /\ loaded' # loaded
  /\ UNCHANGED <<env, endpoint, call, waiting, serving, answers>>

\* A text is said to have stopped also where it was cut.
WorkedChat(r) == {Answer(r, "ok", <<>>, f) : f \in {"stop", "empty"}}

WorkedEmbedding(r) ==
  {Answer(r, "ok", [i \in 1 .. Len(r.texts) |-> Row(i - 1, r.texts[i])], "stop")}

\* The best first, and no more than asked for.
WorkedRerank(r) ==
  LET n == Len(r.texts)
      top == IF n < TopK THEN n ELSE TopK
  IN  {Answer(r, "ok", [k \in 1 .. top |-> Row(p[k] - 1, r.texts[p[k]])], "stop") :
         p \in {q \in [1 .. n -> 1 .. n] : IsInjective(q)}}

Worked(r) ==
  CASE KindOf(r.by) = "chat" -> WorkedChat(r)
    [] KindOf(r.by) = "embedding" -> WorkedEmbedding(r)
    [] OTHER -> WorkedRerank(r)

\* A text that does not fit the model is refused, never cut short.
TooLong(r) ==
  IF KindOf(r.by) = "rerank" THEN {} ELSE {Answer(r, "refused", <<>>, "stop")}

Finish ==
  /\ serving # None
  /\ \E a \in IF KindOf(serving.by) \in loaded
              THEN Worked(serving) \cup TooLong(serving)
              ELSE {Answer(serving, "failed", <<>>, "stop")} :
       answers' = IF a.number = call[a.call].sent THEN answers \cup {a} ELSE answers
  /\ serving' = None
  /\ UNCHANGED <<env, endpoint, call, waiting, loaded>>
-----------------------------------------------------------------------------
Awaited(c) == {a \in answers : a.call = c}

Ended(c, at, got) ==
  /\ call' = [call EXCEPT ![c] = [@ EXCEPT !.at = at, !.got = got]]
  /\ answers' = Unread(c)
  /\ UNCHANGED <<env, endpoint, gateway>>

ByIndex(rows) == SortSeq(rows, LAMBDA a, b : a.index < b.index)
Indices(rows) == [k \in DOMAIN rows |-> rows[k].index]
Owners(rows) == [k \in DOMAIN rows |-> rows[k].of]

\* Mutant: as many vectors as texts will do.
CountedOnly(a, n) == a.finish = "stop" /\ Len(a.rows) = n

\* SemanticEmbeddings: every index once, vectors that fit.
Complete(a, n) ==
  /\ a.finish = "stop"
  /\ Indices(ByIndex(a.rows)) = [k \in 1 .. n |-> k - 1]

\* HTTPReranker: no index twice, none beyond the candidates.
InRange(a, n) ==
  /\ IsInjective(Indices(a.rows))
  /\ \A k \in DOMAIN a.rows : a.rows[k].index < n

\* What a client makes of an answer; it raises on what it does not accept.
Accepts(by, a, n) ==
  CASE by \in {"workspace", "runtime"} -> a.finish = "stop"
    [] by = "embedding" -> Complete(a, n)
    [] by = "rerank" -> InRange(a, n)
    [] OTHER -> TRUE

\* Mutant: the scores are taken in the order they come.
InOrder(by, rows) ==
  [k \in 1 .. (IF Len(rows) < TopK THEN Len(rows) ELSE TopK) |->
     [to |-> k, of |-> rows[k].of]]

\* The candidate each score is given to, and what it is a score of: the relay
\* takes the scores in the order they come.
Scored(by, rows) ==
  [k \in 1 .. (IF Len(rows) < TopK THEN Len(rows) ELSE TopK) |->
     [to |-> IF by = "rerank" THEN rows[k].index + 1 ELSE k, of |-> rows[k].of]]

Result(by, a, got) ==
  CASE KindOf(by) = "chat" -> <<a.finish>>
    [] KindOf(by) = "embedding" -> got \o Owners(ByIndex(a.rows))
    [] OTHER -> Scored(by, a.rows)

MoreToSend(c) == call[c].by = "embedding" /\ call[c].batch * BatchSize < Texts

Receive(c) ==
  /\ call[c].at = "waiting"
  /\ \E a \in Awaited(c) :
       LET by == call[c].by
           texts == Sent(by, call[c].batch)
           got == Result(by, a, call[c].got)
       IN  /\ a.status = "ok" /\ Accepts(by, a, Len(texts))
           /\ IF MoreToSend(c)
              THEN Send(c, [call[c] EXCEPT !.batch = @ + 1, !.got = got])
              ELSE Ended(c, "answered", got)

\* Refused, or nothing the client accepts: the call has failed.
Refuse(c) ==
  /\ call[c].at = "waiting"
  /\ \E a \in Awaited(c) :
       /\ \/ a.status = "refused"
          \/ a.status = "ok" /\ ~Accepts(call[c].by, a, Len(Sent(call[c].by, call[c].batch)))
       /\ Ended(c, "failed", <<>>)

\* An error of the server, of the network, or too long a wait: the relay
\* tries again, all others have failed.
Unanswered(c) ==
  /\ call[c].at = "waiting"
  /\ IF call[c].by \in Relays /\ call[c].sent < Retries
     THEN Send(c, call[c])
     ELSE Ended(c, "failed", <<>>)

\* Then the engine does without: hashes for vectors, words in common for scores.
DoWithout(c) ==
  /\ call[c].at = "failed" /\ call[c].by \in Relays
  /\ Ended(c, "substituted", <<>>)

Next ==
  \/ Take \/ Load \/ Finish
  \/ \E c \in Calls :
       \/ \E by \in Clients : Begin(c, by)
       \/ Receive(c) \/ Refuse(c) \/ Unanswered(c) \/ DoWithout(c)
-----------------------------------------------------------------------------
(* A key goes to the endpoint it was given for and that of DeepSeek to no   *)
(* other, what leaves a deployment is encrypted, and a parameter only       *)
(* DeepSeek knows is sent to nobody else.                                   *)
KeysStayHome ==
  Configured =>
    /\ Chosen.key = "deepseek" => Chosen.base = "official"
    /\ \A g \in {env.chat, env.relay} : Chosen.key = g.key => Chosen.base = g.base
    /\ env.vercel => Chosen.base \in {"official", "https"}
    /\ Provider = "deepseek" <=> Chosen.base = "official"

(* Whatever an endpoint answers, in whatever order and however late, a      *)
(* vector the financial runtime takes is of the text it is stored with, and *)
(* every text has one; a score is of the candidate it ranks; a text that    *)
(* says it was cut is not taken for an answer.  Nothing of an embedding is  *)
(* kept that failed on the way, and no call is sent more often than its     *)
(* client says.                                                            *)
ResultsAreTheirOwn ==
  \A c \in Calls :
    LET row == call[c]
    IN  /\ row.at = "answered" =>
             /\ row.by = "embedding" => row.got = [i \in 1 .. Texts |-> i]
             /\ row.by = "rerank" =>
                  /\ \A k \in DOMAIN row.got : row.got[k].to = row.got[k].of
                  /\ IsInjective(row.got)
             /\ row.by \in {"workspace", "runtime"} => row.got = <<"stop">>
        /\ row.at = "failed" => row.got = <<>>
        /\ row.sent <= CASE row.by \in Relays -> Retries
                         [] row.by = "embedding" -> (Texts + BatchSize - 1) \div BatchSize
                         [] OTHER -> 1
=============================================================================
