----------------------------- MODULE EngineLoop -----------------------------
(***************************************************************************)
(* The loop that learns strategies from feedback (loop_engine.py,           *)
(* skill_miner.py, feedback_collector.py): what a cycle observes, mines,    *)
(* registers, activates, replaces and takes back, next to other cycles, to  *)
(* approvals (admin.py) and to requests that count the use of a strategy    *)
(* (orchestrator.py).  All strategies have one name.  Rows are read and     *)
(* written back whole; a cycle or a request may stop anywhere.  A rule here *)
(* is a text that feedback says is broken.  A cycle registers each text      *)
(* once, for the department of one who named it, and no more than            *)
(* MaxSuggestions of them.  What the model suggests comes after these and is *)
(* left out, as are the metrics by which a strategy grows stale.            *)
(***************************************************************************)
EXTENDS Naturals, FiniteSets

CONSTANTS
  Strategies,  \* identifiers for those that are mined
  Feedbacks,
  Telling,     \* those that name the rule that was broken
  RuleOf,      \* the text of that rule
  DeptOf,      \* the department they name with it
  MaxSuggestions,  \* 50
  Cycles,      \* loop jobs, of one worker or of several
  Requests,    \* approvals and questions under way
  None

VARIABLES
  phase,     \* the setting LOOP_PHASE of the workers
  strategy,  \* of each: None or [status, version, replaces, sure, by]
  exper,     \* status of its experiment
  worse,     \* those whose treatment did worse than the control so far
  feedback,  \* "none", "pending" or "consumed"
  rules,     \* [of, dept, status]
  handled,   \* the feedback a cycle took to the end of its adaptation
  cycle,     \* of each: None or [at, seen, left, doc, row]
  holder     \* of each request: None or the row [doc, row] it will write

vars == <<phase, strategy, exper, worse, feedback, rules, handled, cycle, holder>>
given == <<phase, worse, feedback, rules, handled>>

Init ==
  /\ phase \in {"in", "on", "out"}
  /\ strategy = [s \in Strategies |-> None]
  /\ exper = [s \in Strategies |-> "none"]
  /\ worse = {}
  /\ feedback = [f \in Feedbacks |-> "none"]
  /\ rules = {}
  /\ handled = {}
  /\ cycle = [t \in Cycles |-> None]
  /\ holder = [r \in Requests |-> None]

Mined == {s \in Strategies : strategy[s] # None}
With(status) == {s \in Mined : strategy[s].status = status}
At(t, stage) == cycle[t] # None /\ cycle[t].at = stage
Turn(t, job) == cycle' = [cycle EXCEPT ![t] = job]
Go(t, stage) ==
  Turn(t, [cycle[t] EXCEPT !.at = stage, !.doc = None, !.row = None])
Put(s, row) == strategy' = [strategy EXCEPT ![s] = row]
-----------------------------------------------------------------------------
Collect(f) ==
  /\ feedback[f] = "none"
  /\ feedback' = [feedback EXCEPT ![f] = "pending"]
  /\ UNCHANGED <<phase, strategy, exper, worse, rules, handled, cycle, holder>>

\* Executions of a strategy in force are counted, for it or against it.
Measure(s) ==
  /\ s \in With("active")
  /\ worse' = IF s \in worse THEN worse \ {s} ELSE worse \cup {s}
  /\ UNCHANGED <<phase, strategy, exper, feedback, rules, handled, cycle, holder>>

Observe(t) ==
  /\ cycle[t] = None
  /\ Turn(t, [at |-> "adapt", seen |-> {f \in Feedbacks : feedback[f] = "pending"},
              left |-> {}, doc |-> None, row |-> None])
  /\ UNCHANGED <<given, strategy, exper, holder>>

\* What the verifier gave the answers to recorded questions, on average: with the
\* candidate not less than without it, and 1 where it is enough to activate it.
\* Without such questions nothing passes.
Scores == 0 .. 1
Passed(questions, without, with) == questions /\ with >= without
Released(passed, score) ==
  IF passed /\ (phase = "out" \/ (phase = "on" /\ score = 1)) THEN "active" ELSE "pending"

Candidate(old, status, sure) ==
  [status |-> status, version |-> IF old = None THEN 1 ELSE strategy[old].version + 1,
   replaces |-> old, sure |-> sure, by |-> None]

Latest ==
  IF Mined = {} THEN {None}
  ELSE {o \in Mined : \A p \in Mined : strategy[p].version <= strategy[o].version}

\* The candidate replaces the latest version there is.
Draft(t, s, passed, score, sure) ==
  /\ At(t, "adapt")
  /\ s \notin Mined
  /\ \A u \in Cycles : cycle[u] # None => cycle[u].doc # s
  /\ \E old \in Latest :
       Turn(t, [cycle[t] EXCEPT !.at = "register", !.doc = s,
                  !.row = Candidate(old, Released(passed, score), sure)])
  /\ UNCHANGED <<given, strategy, exper, holder>>

Register(t) ==
  /\ At(t, "register")
  /\ Put(cycle[t].doc, cycle[t].row)
  /\ Turn(t, [cycle[t] EXCEPT !.at = "experiment"])
  /\ UNCHANGED <<given, exper, holder>>

StartExperiment(t) ==
  /\ At(t, "experiment")
  /\ exper' = [exper EXCEPT ![cycle[t].doc] =
       IF cycle[t].row.status = "active" THEN "running" ELSE "pending_review"]
  /\ Go(t, "mined")
  /\ UNCHANGED <<given, strategy, holder>>

\* Mutant: one too few of them.
SuggestionsButOne(named) ==
  {some \in SUBSET named :
     Cardinality(some) < MaxSuggestions /\ (some = named \/ Cardinality(some) = MaxSuggestions - 1)}

\* The texts named, all of them or the first that fit, in whatever order the
\* feedback is listed.
Suggestions(named) ==
  {some \in SUBSET named :
     Cardinality(some) <= MaxSuggestions /\ (some = named \/ Cardinality(some) = MaxSuggestions)}

\* Mining ends, with a candidate, without one or in an error that is caught.
\* What the observed feedback suggests was known before.
Mine(t) ==
  /\ cycle[t] # None
  /\ cycle[t].at \in {"adapt", "register", "experiment", "mined"}
  /\ \E some \in Suggestions({RuleOf[f] : f \in cycle[t].seen \cap Telling}) :
       Turn(t, [cycle[t] EXCEPT !.at = "suggest", !.doc = None, !.row = None, !.left = some])
  /\ UNCHANGED <<given, strategy, exper, holder>>

Rule(f, status) == [of |-> RuleOf[f], dept |-> DeptOf[f], status |-> status]

Suggest(t, f) ==
  /\ At(t, "suggest")
  /\ f \in cycle[t].seen \cap Telling /\ RuleOf[f] \in cycle[t].left
  /\ rules' = rules \cup {Rule(f, IF phase = "out" THEN "active" ELSE "pending")}
  /\ Turn(t, [cycle[t] EXCEPT !.left = @ \ {RuleOf[f]}])
  /\ UNCHANGED <<phase, worse, feedback, handled, strategy, exper, holder>>

ListActive(t) ==
  /\ At(t, "suggest") /\ cycle[t].left = {}
  /\ handled' = handled \cup cycle[t].seen
  /\ Turn(t, [cycle[t] EXCEPT !.at = "maintain", !.left = With("active"), !.row = strategy])
  /\ UNCHANGED <<phase, worse, feedback, rules, strategy, exper, holder>>

Retire(t, s) ==
  /\ At(t, "maintain")
  /\ s \in cycle[t].left
  /\ Put(s, [cycle[t].row[s] EXCEPT !.status = "stale"])
  /\ Turn(t, [cycle[t] EXCEPT !.left = @ \ {s}])
  /\ UNCHANGED <<given, exper, holder>>

Deploy(t) ==
  /\ At(t, "maintain")
  /\ IF phase = "in"
     THEN Go(t, "consume")
     ELSE Turn(t, [cycle[t] EXCEPT !.at = "deploy", !.row = strategy, !.left =
            {s \in With("pending") : phase = "out" \/ strategy[s].sure}])
  /\ UNCHANGED <<given, strategy, exper, holder>>

\* Mutant: what is replaced leaves before its successor is there.
ActivateLast(t, s) ==
  /\ At(t, "deploy")
  /\ s \in cycle[t].left
  /\ LET old == cycle[t].row[s].replaces
     IN  IF old \in With("active")
         THEN Put(old, [strategy[old] EXCEPT !.status = "deprecated", !.by = s])
              /\ UNCHANGED cycle
         ELSE /\ Put(s, [cycle[t].row[s] EXCEPT !.status = "active"])
              /\ Turn(t, [cycle[t] EXCEPT !.left = @ \ {s}])
  /\ UNCHANGED <<given, exper, holder>>

Activate(t, s) ==
  /\ At(t, "deploy")
  /\ s \in cycle[t].left
  /\ Put(s, [cycle[t].row[s] EXCEPT !.status = "active"])
  /\ Turn(t, [cycle[t] EXCEPT !.left = @ \ {s}, !.doc = s,
                !.at = IF cycle[t].row[s].replaces = None THEN "deploy" ELSE "replace"])
  /\ UNCHANGED <<given, exper, holder>>

\* cycle[t].doc becomes what is replaced, its row as it was read.
ReadReplaced(t) ==
  LET s == cycle[t].doc
      old == cycle[t].row[s].replaces
  IN  /\ At(t, "replace")
      /\ IF old \in With("active")
         THEN Turn(t, [cycle[t] EXCEPT !.at = "deprecate", !.row[old] =
                [strategy[old] EXCEPT !.status = "deprecated", !.by = s], !.doc = old])
         ELSE Turn(t, [cycle[t] EXCEPT !.at = "deploy", !.doc = None])
      /\ UNCHANGED <<given, strategy, exper, holder>>

Deprecate(t) ==
  /\ At(t, "deprecate")
  /\ Put(cycle[t].doc, cycle[t].row[cycle[t].doc])
  /\ Turn(t, [cycle[t] EXCEPT !.at = "deploy", !.doc = None])
  /\ UNCHANGED <<given, exper, holder>>

\* Suggested with little confidence, they wait for an administrator unless
\* there is none in the loop.
DeployRule(t, f) ==
  /\ At(t, "deploy")
  /\ phase = "out"
  /\ Rule(f, "pending") \in rules
  /\ rules' = (rules \ {Rule(f, "pending")}) \cup {Rule(f, "active")}
  /\ UNCHANGED <<phase, worse, feedback, handled, strategy, exper, cycle, holder>>

ListRunning(t) ==
  /\ At(t, "deploy") /\ cycle[t].left = {}
  /\ Turn(t, [cycle[t] EXCEPT !.at = "watch", !.doc = None, !.row = None,
                !.left = {s \in Strategies : exper[s] = "running"}])
  /\ UNCHANGED <<given, strategy, exper, holder>>

Judge(t, s) ==
  /\ At(t, "watch")
  /\ s \in cycle[t].left
  /\ IF s \in worse
     THEN /\ Turn(t, [cycle[t] EXCEPT !.at = "take", !.left = @ \ {s}, !.doc = s,
                        !.row = [strategy[s] EXCEPT !.status = "deprecated"]])
          /\ UNCHANGED exper
     ELSE /\ Turn(t, [cycle[t] EXCEPT !.left = @ \ {s}])
          /\ exper' = [exper EXCEPT ![s] = "running"]
  /\ UNCHANGED <<given, strategy, holder>>

TakeBack(t) ==
  /\ At(t, "take")
  /\ Put(cycle[t].doc, cycle[t].row)
  /\ Turn(t, [cycle[t] EXCEPT !.at = "note", !.row = None])
  /\ UNCHANGED <<given, exper, holder>>

NoteRollback(t) ==
  /\ At(t, "note")
  /\ exper' = [exper EXCEPT ![cycle[t].doc] = "rolled_back"]
  /\ Go(t, "watch")
  /\ UNCHANGED <<given, strategy, holder>>

Deployed(t) ==
  /\ At(t, "watch") /\ cycle[t].left = {}
  /\ Go(t, "consume")
  /\ UNCHANGED <<given, strategy, exper, holder>>

\* Mutant: what is pending by now is consumed.
ConsumePending(t, f) ==
  /\ At(t, "consume")
  /\ feedback[f] = "pending"
  /\ feedback' = [feedback EXCEPT ![f] = "consumed"]
  /\ UNCHANGED <<phase, worse, rules, handled, strategy, exper, cycle, holder>>

Consume(t, f) ==
  /\ At(t, "consume")
  /\ f \in cycle[t].seen
  /\ feedback' = [feedback EXCEPT ![f] = "consumed"]
  /\ Turn(t, [cycle[t] EXCEPT !.seen = @ \ {f}])
  /\ UNCHANGED <<phase, worse, rules, handled, strategy, exper, holder>>

\* It is over, or its job failed.
End(t) ==
  /\ cycle[t] # None
  /\ Turn(t, None)
  /\ UNCHANGED <<given, strategy, exper, holder>>
-----------------------------------------------------------------------------
\* An administrator may approve whatever its status is.
Approve(r, s) ==
  /\ holder[r] = None
  /\ s \in Mined
  /\ holder' = [holder EXCEPT ![r] =
       [doc |-> s, row |-> [strategy[s] EXCEPT !.status = "active"]]]
  /\ UNCHANGED <<given, strategy, exper, cycle>>

Match(r, s) ==
  /\ holder[r] = None
  /\ s \in With("active")
  /\ holder' = [holder EXCEPT ![r] = [doc |-> s, row |-> strategy[s]]]
  /\ UNCHANGED <<given, strategy, exper, cycle>>

\* The row as it was read goes back, approved or with its use counted.
Write(r) ==
  /\ holder[r] # None
  /\ Put(holder[r].doc, holder[r].row)
  /\ holder' = [holder EXCEPT ![r] = None]
  /\ UNCHANGED <<given, exper, cycle>>

\* The workers restart with another setting.  The phase an administrator sets
\* stays in the process that serves the interface and reaches no cycle.
Configure(p) ==
  /\ phase' = p
  /\ cycle' = [t \in Cycles |-> None]
  /\ UNCHANGED <<strategy, exper, worse, feedback, rules, handled, holder>>

CycleStep(t) ==
  \/ Observe(t) \/ Register(t) \/ StartExperiment(t) \/ Mine(t) \/ ListActive(t)
  \/ Deploy(t) \/ ReadReplaced(t) \/ Deprecate(t) \/ ListRunning(t) \/ TakeBack(t)
  \/ NoteRollback(t) \/ Deployed(t) \/ End(t)
  \/ \E f \in Feedbacks : Consume(t, f) \/ Suggest(t, f) \/ DeployRule(t, f)
  \/ \E s \in Strategies : Retire(t, s) \/ Activate(t, s) \/ Judge(t, s)
  \/ /\ At(t, "adapt")
     /\ \E s \in Strategies, questions, sure \in BOOLEAN, without, with \in Scores :
          Draft(t, s, Passed(questions, without, with), with, sure)

Next ==
  \/ \E t \in Cycles : CycleStep(t)
  \/ \E f \in Feedbacks : Collect(f)
  \/ \E s \in Strategies : Measure(s)
  \/ \E r \in Requests : Write(r) \/ \E s \in Strategies : Approve(r, s) \/ Match(r, s)
  \/ \E p \in {"in", "on", "out"} : Configure(p)

Spec == Init /\ [][Next]_vars
-----------------------------------------------------------------------------
(* A strategy is deprecated in favour of another only once that one is in   *)
(* force (or was), wherever a cycle stops and whatever other cycles and      *)
(* requests write back.                                                     *)
ReplacedGaveWay ==
  \A s \in Mined : strategy[s].by # None => strategy[strategy[s].by].status # "pending"

\* It is among the texts, or there are as many as one cycle registers.
Learned(f, texts) ==
  \/ RuleOf[f] \in texts
  \/ \E some \in SUBSET texts : Cardinality(some) = MaxSuggestions

(* Feedback that comes while a cycle runs is left to the next one: what is  *)
(* consumed was observed by a cycle that went on to adapt to it, wherever   *)
(* this cycle or another one stops; and the rule it names is there, for     *)
(* whatever department, while there are fewer than MaxSuggestions of them   *)
(* (a cycle that reaches the cap consumes the rest without its rules).      *)
ConsumedWasSeen ==
  \A f \in Feedbacks : feedback[f] = "consumed" =>
    /\ f \in handled
    /\ f \in Telling => Learned(f, {r.of : r \in rules})
=============================================================================
