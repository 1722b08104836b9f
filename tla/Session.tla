------------------------------ MODULE Session ------------------------------
(***************************************************************************)
(* One chat session over the stores that remember it: the working memory    *)
(* kept in Redis (working.py), the events, summary and counter of           *)
(* episodic.py, and the traces.  A turn is one request: orchestrator.py     *)
(* reads and writes these in the order of Plan, and any await of it may be  *)
(* interleaved with another tab of the same user, with another user who     *)
(* has the link, with the expiry of the working memory and with the         *)
(* deletion of the session (chat.py).  A question or an answer is the turn  *)
(* it belongs to.  Of the working memory only the messages are kept, without *)
(* the cut at the last ten; the intent, the retrieved ids and the summary,  *)
(* other fields of the same row written the same way, are left out.        *)
(***************************************************************************)
EXTENDS Integers, FiniteSets, Sequences

CONSTANTS
  Turns,       \* the requests to the session
  Users,
  None

VARIABLES
  context,   \* the working memory: the messages in it; none when it expired
  counter,   \* the last sequence number given out
  life,      \* whether the counter was deleted; history
  events,    \* the conversation events
  traces,    \* the turns with a trace
  summary,   \* the turn that wrote the summary, or None
  turn,      \* of each turn: where it is in Plan, what it has read, and
             \* (history) whether the deletion "cut" into it or found it "over"
  clearing   \* the one deletion of the session: [at, user, events, traces], or None

vars == <<context, counter, life, events, traces, summary, turn, clearing>>

\* What one answer() writes, in order.  The steps marked as context are a
\* read and a write of the whole working memory.
Plan == <<"new", "hear", "number", "question", "say", "trace", "number", "answer",
          "summary", "returned", "failed">>
OfContext == {"hear", "say"}

At(t) == Plan[turn[t].pc]
Idle == [pc |-> 1, user |-> None, read |-> None, seq |-> None, met |-> "nothing"]
MoveOn(t) == [turn[t] EXCEPT !.pc = @ + 1]
Ended(t) == At(t) \in {"returned", "failed"}
Deleting == clearing # None /\ clearing.at # "done"

Init ==
  /\ context = {}
  /\ counter = 0 /\ life = 1
  /\ events = {} /\ traces = {}
  /\ summary = None
  /\ turn = [t \in Turns |-> Idle]
  /\ clearing = None
-----------------------------------------------------------------------------
\* _assert_session_owner: whose some event is, or else some trace.
Owners ==
  IF events # {} THEN {turn[e.of].user : e \in events} ELSE {turn[t].user : t \in traces}

Admit(t, u) ==
  /\ At(t) = "new"
  /\ Owners = {} \/ u \in Owners
  /\ turn' = [turn EXCEPT ![t].pc = 2, ![t].user = u, 
                           ![t].met = IF Deleting THEN "cut" ELSE "nothing"]
  /\ UNCHANGED <<context, counter, life, events, traces, summary, clearing>>

Refuse(t, u) ==
  /\ At(t) = "new"
  /\ Owners \ {u} # {}
  /\ turn' = [turn EXCEPT ![t].pc = Len(Plan)]
  /\ UNCHANGED <<context, counter, life, events, traces, summary, clearing>>

Load(t) ==
  /\ At(t) \in OfContext /\ turn[t].read = None
  /\ turn' = [turn EXCEPT ![t].read = context]
  /\ UNCHANGED <<context, counter, life, events, traces, summary, clearing>>

Save(t) ==
  /\ At(t) \in OfContext /\ turn[t].read # None
  /\ context' = turn[t].read \cup {[of |-> t, role |-> At(t)]}
  /\ turn' = [turn EXCEPT ![t] = [MoveOn(t) EXCEPT !.read = None]]
  /\ UNCHANGED <<counter, life, events, traces, summary, clearing>>

\* Mutant: the events are counted instead.
NextOfEvents == Cardinality(events) + 1

\* The increment of the counter, atomic in every store.
NextNumber == counter + 1

Number(t) ==
  /\ At(t) = "number"
  /\ counter' = NextNumber
  /\ turn' = [turn EXCEPT ![t] = [MoveOn(t) EXCEPT !.seq = [life |-> life, n |-> counter']]]
  /\ UNCHANGED <<context, life, events, traces, summary, clearing>>

AppendEvent(t) ==
  /\ At(t) \in {"question", "answer"}
  /\ events' = events \cup {[of |-> t, role |-> At(t), seq |-> turn[t].seq]}
  /\ turn' = [turn EXCEPT ![t] = [MoveOn(t) EXCEPT !.seq = None]]
  /\ UNCHANGED <<context, counter, life, traces, summary, clearing>>

RecordTrace(t) ==
  /\ At(t) = "trace"
  /\ traces' = traces \cup {t}
  /\ turn' = [turn EXCEPT ![t] = MoveOn(t)]
  /\ UNCHANGED <<context, counter, life, events, summary, clearing>>

\* The rolling summary, of the messages as they are then.
UpdateSummary(t) ==
  /\ At(t) = "summary"
  /\ summary' = t
  /\ turn' = [turn EXCEPT ![t] = MoveOn(t)]
  /\ UNCHANGED <<context, counter, life, events, traces, clearing>>

\* A stage raises, or the process dies: the request ends where it is.
Fail(t) ==
  /\ At(t) # "new" /\ ~Ended(t)
  /\ turn' = [turn EXCEPT ![t] = [Idle EXCEPT !.pc = Len(Plan),
                                    !.user = turn[t].user, !.met = turn[t].met]]
  /\ UNCHANGED <<context, counter, life, events, traces, summary, clearing>>

\* Thirty minutes without a write, which is longer than a turn that has written
\* goes on.
Expire ==
  /\ context # {}
  /\ \A t \in Turns : At(t) \in {"new", "hear"} \/ Ended(t)
  /\ context' = {}
  /\ UNCHANGED <<counter, life, events, traces, summary, turn, clearing>>
-----------------------------------------------------------------------------
\* clear_session.  Rows are listed and then deleted one at a time.  One that
\* dies is one that does not go on.
Clear(u) ==
  /\ clearing = None
  /\ u \in Owners
  /\ clearing' = [at |-> "context", user |-> u, events |-> {}, traces |-> {}]
  /\ turn' = [t \in Turns |-> 
                 [turn[t] EXCEPT !.met = IF Ended(t) THEN "over"
                                         ELSE IF At(t) = "new" THEN @ ELSE "cut"]]
  /\ UNCHANGED <<context, counter, life, events, traces, summary>>

ClearContext ==
  /\ clearing # None /\ clearing.at = "context"
  /\ context' = {}
  /\ clearing' = [clearing EXCEPT !.at = "list"]
  /\ UNCHANGED <<counter, life, events, traces, summary, turn>>

ListEvents ==
  /\ clearing # None /\ clearing.at = "list"
  /\ clearing' = [clearing EXCEPT !.at = "events",
                    !.events = {e \in events : turn[e.of].user = clearing.user}]
  /\ UNCHANGED <<context, counter, life, events, traces, summary, turn>>

DeleteEvent ==
  /\ clearing # None /\ clearing.at = "events"
  /\ IF clearing.events = {}
     THEN clearing' = [clearing EXCEPT !.at = "summary"] /\ UNCHANGED events
     ELSE \E e \in clearing.events :
            /\ events' = events \ {e}
            /\ clearing' = [clearing EXCEPT !.events = @ \ {e}]
  /\ UNCHANGED <<context, counter, life, traces, summary, turn>>

DeleteSummary ==
  /\ clearing # None /\ clearing.at = "summary"
  /\ summary' = IF summary # None /\ turn[summary].user = clearing.user
                THEN None ELSE summary
  /\ clearing' = [clearing EXCEPT !.at = "counter"]
  /\ UNCHANGED <<context, counter, life, events, traces, turn>>

DeleteCounter ==
  /\ clearing # None /\ clearing.at = "counter"
  /\ counter' = 0 /\ life' = life + 1
  /\ clearing' = [clearing EXCEPT !.at = "find"]
  /\ UNCHANGED <<context, events, traces, summary, turn>>

ListTraces ==
  /\ clearing # None /\ clearing.at = "find"
  /\ clearing' = [clearing EXCEPT !.at = "traces", !.traces = traces]
  /\ UNCHANGED <<context, counter, life, events, traces, summary, turn>>

DeleteTrace ==
  /\ clearing # None /\ clearing.at = "traces"
  /\ IF clearing.traces = {}
     THEN clearing' = [clearing EXCEPT !.at = "done"] /\ UNCHANGED traces
     ELSE \E t \in clearing.traces :
            /\ traces' = traces \ {t}
            /\ clearing' = [clearing EXCEPT !.traces = @ \ {t}]
  /\ UNCHANGED <<context, counter, life, events, summary, turn>>

Step(t) ==
  \/ \E u \in Users : Admit(t, u) \/ Refuse(t, u)
  \/ Load(t) \/ Save(t) \/ Number(t) \/ AppendEvent(t)
  \/ RecordTrace(t) \/ UpdateSummary(t) \/ Fail(t)

Clearing ==
  \/ ClearContext \/ ListEvents \/ DeleteEvent
  \/ DeleteSummary \/ DeleteCounter \/ ListTraces \/ DeleteTrace

Next ==
  \/ \E t \in Turns : Step(t)
  \/ \E u \in Users : Clear(u)
  \/ Clearing \/ Expire

Spec == Init /\ [][Next]_vars
-----------------------------------------------------------------------------
Event(t, role) == {e \in events : e.of = t /\ e.role = role}

(* Whatever tabs race, fail or are cleared meanwhile: events of one life of  *)
(* the counter are numbered apart, an answer after its question, and an      *)
(* answer that is shown has its trace, to which feedback refers; a turn that *)
(* returned to a session not cleared since it began left both its events,   *)
(* its trace and a summary, however the turns overwrote each other's        *)
(* working memory.                                                          *)
Recorded ==
  /\ \A e, f \in events :
       /\ e # f => e.seq # f.seq
       /\ (e.of = f.of /\ e.role = "question" /\ f.role = "answer"
             /\ e.seq.life = f.seq.life) => e.seq.n < f.seq.n
  /\ \A t \in Turns : turn[t].met = "nothing" =>
       /\ Event(t, "answer") # {} => t \in traces
       /\ At(t) = "returned" =>
            /\ Event(t, "question") # {} /\ Event(t, "answer") # {}
            /\ t \in traces
            /\ summary # None

\* A deletion into which no turn ran leaves nothing of the turns before it:
\* no message, no trace, and of its user no event and no summary.
Deleted ==
  (clearing # None /\ clearing.at = "done" /\ \A t \in Turns : turn[t].met # "cut") =>
    \A t \in Turns : turn[t].met = "over" =>
      /\ \A m \in context : m.of # t
      /\ t \notin traces
      /\ turn[t].user = clearing.user =>
           summary # t /\ \A role \in {"question", "answer"} : Event(t, role) = {}

(* The two together: a session remembers each of its turns, and after its    *)
(* deletion none of them.                                                   *)
TurnsAreRecorded == Recorded /\ Deleted
=============================================================================
