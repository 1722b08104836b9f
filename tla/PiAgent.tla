------------------------------ MODULE PiAgent ------------------------------
(***************************************************************************)
(* The agent service beside the backend (services/pi-agent) and the calls   *)
(* between the two: a stage of the backend has an agent run there and falls *)
(* back on its local agent when the run is late, fails or is refused        *)
(* (pi_runtime.py), while the run itself goes on; the service's own learning *)
(* loop writes strategies through the backend (loop.ts, internal.py); and   *)
(* it can answer a question by itself (orchestrator.ts).  Every tool call   *)
(* goes back to the backend.  Prompts and texts are left out: a draft is    *)
(* its number, a chunk is its department.                                   *)
(***************************************************************************)
EXTENDS Integers, FiniteSets

CONSTANTS
  Calls,       \* stages that ask for an agent
  Cycles,      \* calls of /loop/run
  Departments,
  MaxArtifacts,
  None

Retries == 2   \* MAX_VERIFY_RETRY

VARIABLES
  configured, \* DEPT_ID of the backend, or None
  stage,      \* of each call: "idle", "asked", "agent" or "local"
  run,        \* of each call and cycle: [at, tools]
  reply,      \* of each call: what the service answered, or None
  phase,      \* loop_phase of the backend
  artifacts,  \* the strategies saved: [by, kind, status]
  dag         \* the answer of /answer

settings == <<configured, phase>>
vars == <<settings, stage, run, reply, artifacts, dag>>

Kinds == {"skill", "hook", "rule"}
Tools == Kinds \cup {"read", "feedback"}
LoopTools == Kinds \cup {"read"}
Phases == {"human_in_loop", "human_on_loop", "human_out_of_loop"}

NoRun == [at |-> "none", tools |-> {}]
NoDag == [at |-> "new", depts |-> {}, queries |-> 0, chunks |-> {}, draft |-> 0,
          judged |-> None, passed |-> TRUE, round |-> 0]

Init ==
  /\ configured \in Departments \cup {None}
  /\ stage = [k \in Calls |-> "idle"]
  /\ run = [r \in Calls \cup Cycles |-> NoRun]
  /\ reply = [k \in Calls |-> None]
  /\ phase \in Phases
  /\ artifacts = {}
  /\ dag = NoDag
-----------------------------------------------------------------------------
(* PiAgentRuntimeClient.run() and /v1/agent/run.  No stage of the backend   *)
(* names a tool.                                                           *)
Ask(k) ==
  /\ stage[k] = "idle"
  /\ \E enabled \in BOOLEAN :
       stage' = [stage EXCEPT ![k] = IF enabled THEN "asked" ELSE "local"]
  /\ UNCHANGED <<run, reply, settings, artifacts, dag>>

\* Mutant: an agent for which no tool is named has all of them.
GivenAll(named) == IF named = {} THEN Tools ELSE named

\* executeAgent: the tools of the runtime that are named.
Given(named) == Tools \cap named

StartRun(k) ==
  /\ run[k].at = "sent"
  /\ run' = [run EXCEPT ![k] = [at |-> "running", tools |-> Given({})]]
  /\ UNCHANGED <<stage, reply, settings, artifacts, dag>>

Send(k) ==
  /\ stage[k] = "asked" /\ run[k].at = "none" /\ reply[k] = None
  /\ run' = [run EXCEPT ![k].at = "sent"]
  /\ UNCHANGED <<stage, reply, settings, artifacts, dag>>

\* The token, the type, the prompt or its size is refused.
Refuse(k) ==
  /\ run[k].at = "sent"
  /\ run' = [run EXCEPT ![k].at = "ended"]
  /\ reply' = [reply EXCEPT ![k] = "error"]
  /\ UNCHANGED <<stage, settings, artifacts, dag>>

\* The race of the run with its deadline; what comes second changes no reply.
EndRun(k) ==
  /\ run[k].at = "running"
  /\ run' = [run EXCEPT ![k].at = "ended"]
  /\ \E outcome \in {"output", "error"} :
       reply' = [reply EXCEPT ![k] = IF @ = None THEN outcome ELSE @]
  /\ UNCHANGED <<stage, settings, artifacts, dag>>

Deadline(k) ==
  /\ run[k].at = "running" /\ reply[k] = None
  /\ reply' = [reply EXCEPT ![k] = "error"]
  /\ UNCHANGED <<stage, run, settings, artifacts, dag>>

\* An output of the kind asked for is used; without one the local agent works.
Receive(k) ==
  /\ stage[k] = "asked" /\ reply[k] # None
  /\ \E fits \in BOOLEAN :
       stage' = [stage EXCEPT ![k] =
                   IF reply[k] = "output" /\ fits THEN "agent" ELSE "local"]
  /\ UNCHANGED <<run, reply, settings, artifacts, dag>>

\* The backend waits no longer, or the request never arrived.
GiveUp(k) ==
  /\ stage[k] = "asked"
  /\ stage' = [stage EXCEPT ![k] = "local"]
  /\ UNCHANGED <<run, reply, settings, artifacts, dag>>
-----------------------------------------------------------------------------
(* Tool calls, of a run that may have lost its request long ago.            *)
InForce(confident) == phase = "human_out_of_loop" \/ confident

\* save_skill, save_hook and save_rule: the endpoint artifacts.
SaveArtifact(r, kind, confident) ==
  /\ run[r].at = "running" /\ kind \in run[r].tools
  /\ Cardinality(artifacts) < MaxArtifacts
  /\ artifacts' = artifacts \cup
       {[by |-> r, kind |-> kind, n |-> Cardinality(artifacts),
         status |-> IF InForce(confident) THEN "active" ELSE "pending"]}
  /\ UNCHANGED <<stage, run, reply, settings, dag>>

\* /loop/run: one agent with the tools of the loop, waited for to its end.
StartCycle(c) ==
  /\ run[c].at = "none"
  /\ run' = [run EXCEPT ![c] = [at |-> "running", tools |-> LoopTools]]
  /\ UNCHANGED <<stage, reply, settings, artifacts, dag>>

EndCycle(c) ==
  /\ run[c].at = "running"
  /\ run' = [run EXCEPT ![c].at = "ended"]
  /\ UNCHANGED <<stage, reply, settings, artifacts, dag>>
-----------------------------------------------------------------------------
(* answer() of orchestrator.ts.                                            *)
Resolved(named, intended) == IF named # {} THEN named ELSE intended

\* The intent and the rewrite fail into their defaults.
Begin(named, intended, queries) ==
  /\ dag.at = "new"
  /\ dag' = [dag EXCEPT !.at = "retrieve", !.depts = Resolved(named, intended),
                        !.queries = queries]
  /\ UNCHANGED <<stage, run, reply, settings, artifacts>>

\* A backend of one department refuses the others.
Admitted == configured = None \/ dag.depts \subseteq {configured}
Reach ==
  IF configured # None THEN {configured}
  ELSE IF dag.depts = {} THEN Departments ELSE dag.depts

Retrieve(found) ==
  /\ dag.at = "retrieve" /\ dag.queries > 0
  /\ IF Admitted
     THEN dag' = [dag EXCEPT !.queries = @ - 1, !.chunks = @ \cup (found \cap Reach)]
     ELSE dag' = [dag EXCEPT !.at = "failed"]
  /\ UNCHANGED <<stage, run, reply, settings, artifacts>>

Draft ==
  /\ dag.at = "retrieve" /\ dag.queries = 0
  /\ dag' = [dag EXCEPT !.at = "verify", !.draft = 1]
  /\ UNCHANGED <<stage, run, reply, settings, artifacts>>

\* A verdict; one that does not pass has the answer written again, and the
\* last of these is judged no more.
Judge(passes) ==
  /\ dag.at = "verify"
  /\ LET verdict == [dag EXCEPT !.judged = dag.draft, !.passed = passes,
                                !.round = @ + 1]
     IN  dag' = IF passes THEN [verdict EXCEPT !.at = "returned"]
                ELSE [verdict EXCEPT !.draft = @ + 1,
                        !.at = IF verdict.round = Retries THEN "returned" ELSE "verify"]
  /\ UNCHANGED <<stage, run, reply, settings, artifacts>>

\* Without a verdict the answer is returned with the last one there was.
Unjudged ==
  /\ dag.at = "verify"
  /\ dag' = [dag EXCEPT !.at = "returned"]
  /\ UNCHANGED <<stage, run, reply, settings, artifacts>>

\* An agent that writes, or the backend, fails: the request does.
FailAnswer ==
  /\ dag.at \in {"retrieve", "verify"}
  /\ dag' = [dag EXCEPT !.at = "failed"]
  /\ UNCHANGED <<stage, run, reply, settings, artifacts>>

Stages ==
  \E k \in Calls : \/ Ask(k) \/ Send(k) \/ StartRun(k) \/ Refuse(k)
                   \/ EndRun(k) \/ Deadline(k) \/ Receive(k) \/ GiveUp(k)

Loop ==
  \/ \E c \in Cycles : StartCycle(c) \/ EndCycle(c)
  \/ \E r \in Calls \cup Cycles, kind \in Kinds, confident \in BOOLEAN :
       SaveArtifact(r, kind, confident)

Answering ==
  \/ \E named, intended \in SUBSET Departments, queries \in 0 .. 2 :
       Begin(named, intended, queries)
  \/ \E found \in SUBSET Departments : Retrieve(found)
  \/ Draft \/ \E passes \in BOOLEAN : Judge(passes)
  \/ Unjudged \/ FailAnswer

Next == Stages \/ Loop \/ Answering

Spec == Init /\ [][Next]_vars
-----------------------------------------------------------------------------
(* A run that outlived its request leaves nothing behind: whatever is saved  *)
(* was saved by a learning cycle.  And an answer of the service's own cites  *)
(* only departments that were asked, was found good in the very draft that  *)
(* is returned or never judged at all, and one it reports as not passed has *)
(* been written again since.                                               *)
PiIsContained ==
  /\ \A a \in artifacts : a.by \in Cycles
  /\ dag.at = "returned" =>
       /\ dag.depts # {} => dag.chunks \subseteq dag.depts
       /\ dag.passed => dag.judged \in {None, dag.draft}
       /\ ~dag.passed => dag.draft = dag.judged + 1
       /\ dag.draft <= Retries + 1
=============================================================================
