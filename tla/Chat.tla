-------------------------------- MODULE Chat --------------------------------
(***************************************************************************)
(* A chat request of core/app.py: sources are collected from the private   *)
(* library, the local folder, the shared reference pack and the governed   *)
(* documents, the model may order them, answers from them and is checked,  *)
(* and every source is looked at again before the answer is returned.      *)
(* A call of the model takes a slot of the budget of core/security.py: it  *)
(* is allowed if its client made few calls in the last minute and all      *)
(* clients few of a model in the last hour, and at most one other is under *)
(* way.  Requests and budget are two parts, one of which a behavior is of. *)
(*                                                                         *)
(* What a source says is told apart by its version.  Removal, a handover,  *)
(* an edit of the file, a new release or a withdrawal give it a new one;   *)
(* versions do not come back.                                              *)
(***************************************************************************)
EXTENDS Naturals, Sequences, FiniteSets

CONSTANTS
  Chats,       \* requests, each made once
  Sources,     \* everything one can retrieve
  Origin(_),   \* "private", "local", "reference" or "governed"
  Forms,       \* kinds of request: [grounded, rerank, governed]
  MaxVersion,  \* bound of the model
  Clients,
  Askers,       \* clients whose calls are of a model
  MinuteLimit,  \* 6 calls of a client
  HourLimit,    \* 30 calls of a model
  Minute,       \* 60 seconds
  Hour,         \* 3600 seconds
  LastTick,     \* bound of the model
  None

VARIABLES
  version,   \* the version of each source
  chat,      \* of each request: [stage, form, sources, model], or None
  active,    \* slots taken by requests
  now,
  queue,      \* the calls of each client that are remembered: their times
  hourly,     \* the calls of a model that are remembered
  taken,      \* slots taken by calls
  open,       \* calls of a model under way
  made,       \* every call of a client so far
  modelled    \* every call of a model so far

ChatInit ==
  /\ version = [s \in Sources |-> 0]
  /\ chat = [q \in Chats |-> None]
  /\ active = 0

Change(s) ==
  /\ version[s] < MaxVersion
  /\ version' = [version EXCEPT ![s] = @ + 1]
  /\ UNCHANGED <<chat, active>>

At(q, stage) == chat[q] # None /\ chat[q].stage = stage
Calling(q) == At(q, "rerank") \/ At(q, "answer")
CallsUnderWay == {q \in Chats : Calling(q)}

Turn(q, stage) == chat' = [chat EXCEPT ![q].stage = stage]
Release == active' = IF active > 0 THEN active - 1 ELSE 0
-----------------------------------------------------------------------------
\* Without evidence a grounded question is answered without the model.
Collect(q, form, found) ==
  /\ chat[q] = None
  /\ \A s \in found : Origin(s) \in {"reference", "governed"} => form.governed
  /\ chat' = [chat EXCEPT ![q] =
       [stage |-> IF form.grounded /\ found = {} THEN "done"
                  ELSE IF form.rerank /\ Cardinality(found) > 1 THEN "order"
                  ELSE "ask",
        form |-> form,
        sources |-> [s \in found |-> version[s]],
        model |-> None]]
  /\ UNCHANGED <<version, active>>

\* invoke: a request that is refused a slot, which the limits of the budget may
\* do at any time, fails.
Invoke(q) ==
  /\ At(q, "order") \/ At(q, "ask")
  /\ \/ /\ active < 2
        /\ active' = active + 1
        /\ Turn(q, IF At(q, "order") THEN "rerank" ELSE "answer")
     \/ /\ Turn(q, "failed")
        /\ UNCHANGED active
  /\ UNCHANGED version

\* The order of the model is taken if it names every source once; both ways
\* the sources are the same.
Ordered(q) ==
  /\ At(q, "rerank")
  /\ Release
  /\ Turn(q, "ask")
  /\ UNCHANGED version

\* Mutant: the sources are not looked at again.
AnsweredWithoutCheck(q, valid) ==
  /\ At(q, "answer")
  /\ Release
  /\ chat' = [chat EXCEPT ![q].stage = IF valid THEN "done" ELSE "failed",
                          ![q].model = version]
  /\ UNCHANGED version

\* The citations are checked; a wrong or, when grounded, missing one fails it.
Answered(q, valid) ==
  /\ At(q, "answer")
  /\ Release
  /\ chat' = [chat EXCEPT ![q].stage = IF valid THEN "private" ELSE "failed",
                          ![q].model = version]
  /\ UNCHANGED version

\* The call fails or times out, the client disconnects from the stream and the
\* request is cancelled, or a part of it raises: finally gives the slot back.
End(q) ==
  /\ chat[q] # None
  /\ chat[q].stage \notin {"done", "failed"}
  /\ IF Calling(q) THEN Release ELSE UNCHANGED active
  /\ Turn(q, "failed")
  /\ UNCHANGED version

Held(q, origins) ==
  {s \in DOMAIN chat[q].sources : Origin(s) \in origins}

AsRead(q, origins) ==
  \A s \in Held(q, origins) : version[s] = chat[q].sources[s]

\* private_library.verify, verify_for_chat, reference_library.verify and
\* save_answer or verify_current_sources, in this order; each fails the request.
After(stage, governed) ==
  CASE stage = "private" -> "local"
    [] stage = "local" -> IF governed THEN "reference" ELSE "done"
    [] stage = "reference" -> "governed"
    [] stage = "governed" -> "done"

Verify(q, stage) ==
  /\ At(q, stage)
  /\ Turn(q, IF AsRead(q, {stage}) THEN After(stage, chat[q].form.governed)
             ELSE "failed")
  /\ UNCHANGED <<version, active>>

Chatting ==
  \/ \E s \in Sources : Change(s)
  \/ \E q \in Chats, form \in Forms, found \in SUBSET Sources : Collect(q, form, found)
  \/ \E q \in Chats : Invoke(q) \/ Ordered(q) \/ End(q)
  \/ \E q \in Chats, valid \in BOOLEAN : Answered(q, valid)
  \/ \E q \in Chats, stage \in {"private", "local", "reference", "governed"} :
       Verify(q, stage)
-----------------------------------------------------------------------------
BudgetInit ==
  /\ now = 0
  /\ queue = [c \in Clients |-> <<>>]
  /\ hourly = <<>>
  /\ taken = 0
  /\ open = 0
  /\ made = [c \in Clients |-> <<>>]
  /\ modelled = <<>>

Tick ==
  /\ now < LastTick
  /\ now' = now + 1
  /\ UNCHANGED <<queue, hourly, taken, open, made, modelled>>

\* Mutant: a client is forgotten a minute after its first call.
KeptSinceFirst(c) ==
  IF queue[c] # <<>> /\ now - queue[c][1] < Minute THEN queue[c] ELSE <<>>

\* Clients whose last call is a minute old are forgotten.
Kept(c) ==
  IF queue[c] # <<>> /\ now - queue[c][Len(queue[c])] < Minute
  THEN queue[c] ELSE <<>>

\* The calls at the front of a queue that are dropped from it.
Dropped(q, window, k) ==
  /\ \A i \in 1..k : now - q[i] >= window
  /\ k < Len(q) => now - q[k + 1] < window

Trimmed(q, window) ==
  SubSeq(q, (CHOOSE k \in 0..Len(q) : Dropped(q, window, k)) + 1, Len(q))

Remembered(c) == Trimmed(Kept(c), Minute)
Few(c) == Len(Remembered(c)) < MinuteLimit

Allowed(c) ==
  /\ Few(c)
  /\ c \in Askers => Len(Trimmed(hourly, Hour)) < HourLimit /\ taken < 2

Consume(c) ==
  /\ Allowed(c)
  /\ queue' = [d \in Clients |->
       IF d = c THEN Append(Remembered(d), now) ELSE Kept(d)]
  /\ made' = [made EXCEPT ![c] = Append(@, now)]
  /\ IF c \in Askers
     THEN /\ hourly' = Append(Trimmed(hourly, Hour), now)
          /\ modelled' = Append(modelled, now)
          /\ taken' = taken + 1
          /\ open' = open + 1
     ELSE /\ hourly' = Trimmed(hourly, Hour)
          /\ UNCHANGED <<modelled, taken, open>>
  /\ UNCHANGED now

\* A refusal forgets calls all the same.
Refuse(c) ==
  /\ ~Allowed(c)
  /\ queue' = [d \in Clients |-> IF d = c THEN Remembered(d) ELSE Kept(d)]
  /\ hourly' = IF Few(c) THEN Trimmed(hourly, Hour) ELSE hourly
  /\ UNCHANGED <<now, taken, open, made, modelled>>

GiveBack ==
  /\ open > 0
  /\ open' = open - 1
  /\ taken' = IF taken > 0 THEN taken - 1 ELSE 0
  /\ UNCHANGED <<now, queue, hourly, made, modelled>>

Budgeting ==
  \/ Tick
  \/ \E c \in Clients : Consume(c) \/ Refuse(c)
  \/ GiveBack
-----------------------------------------------------------------------------
TypeOK ==
  /\ \A q \in Chats : chat[q] # None =>
       chat[q].stage \in {"order", "rerank", "ask", "answer", "private", "local",
                          "reference", "governed", "done", "failed"}
  /\ active \in 0..2

(* An answer is returned only with sources that still stood when the model  *)
(* had answered: one removed, handed over, edited, replaced or withdrawn    *)
(* during the call fails it, whatever it comes from.                        *)
AnswersStand ==
  \A q \in Chats : At(q, "done") =>
    \A s \in DOMAIN chat[q].sources : chat[q].model[s] = chat[q].sources[s]

(* The slots taken are those of the calls under way, also when calls fail,  *)
(* are cancelled or find no slot.                                           *)
SlotsAreCalls == active = Cardinality(CallsUnderWay)

Within(times, window, limit) ==
  \A i \in 1..Len(times) :
    i > limit => times[i] - times[i - limit] >= window

(* No minute holds more calls of a client and no hour more calls of a model *)
(* than its limit, wherever it begins, though calls are trimmed and clients *)
(* forgotten in between; and no slot is lost.                               *)
LimitsHold ==
  /\ \A c \in Clients : Within(made[c], Minute, MinuteLimit)
  /\ Within(modelled, Hour, HourLimit)
  /\ taken = open
=============================================================================
