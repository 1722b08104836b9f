------------------------------ MODULE MCEngine ------------------------------
(***************************************************************************)
(* What the engine serves and learns: the shared publisher, the roll-out of *)
(* candidates in one instance and in several, the review of documents, the  *)
(* ingestion of their versions, their conflicts, the learning loop, and the *)
(* orchestration of one question.  They share no state in this instance, so *)
(* each behavior is one of a single part, chosen at the start, and the      *)
(* others stay as they began.                                              *)
(*                                                                         *)
(* Of the shared publisher: two versions of one document, reviewed by two   *)
(* people in two processes.                                                *)
(***************************************************************************)
EXTENDS SharedPublisher

CONSTANTS
  Foci,
  v1, v2, r1, r2, s1, p1, p2, t1, t2, a,
  Instances, Candidates, Tasks,
  Orders, Sampled, Submits, MinSamples, Num, Den, MaxTotal,
  Copies, Fewer, Files, MaxTouched,
  Strategies, Feedbacks, Telling, RuleOf, DeptOf, MaxSuggestions, Approvals,
  Departments, Hub, All, MAX_VERIFY_RETRY,
  Dept, Cites, Near, Alike, Conflicting, TopK, Extra

VARIABLES
  focus,
  skill, exper, control, local, disk, lock, turn, stopped, use,
  dept, order, submit,
  docs, chunks, vectors, work, used, born, touched,
  phase, strategy, trial, worse, feedback, rules, handled, cycle, holder,
  asking, question, hooks, asked, agent, verdict, says, call, merged,
  upload, paper, stored, relations, ordered, worker, unsure

Versions == [d \in Docs |-> IF d = v1 THEN 1 ELSE 2]
Uploaders == [d \in Docs |-> IF d = v1 THEN "ann" ELSE "bob"]
Apart == [q \in Reviews \cup Searches |-> IF q = r2 THEN p2 ELSE p1]
Together == [q \in Reviews \cup Searches |-> p1]

Offline == INSTANCE Rollout WITH Shared <- FALSE, task <- turn
Joined == INSTANCE Rollout WITH Shared <- TRUE, task <- turn
Review == INSTANCE ReviewEngine
Ingests == INSTANCE Ingest WITH Docs <- Copies, task <- work
Loop == INSTANCE EngineLoop WITH
          Cycles <- Tasks, Requests <- Approvals, exper <- trial
Agents == INSTANCE Orchestrator WITH job <- agent

\* Two name one rule, for different departments, and the others one each.
OneTwice == [f \in Feedbacks |-> IF f = "w" THEN "x" ELSE f]
ForTwo == [f \in Feedbacks |-> IF f = "x" THEN "ann" ELSE "bob"]

\* Each document is nearest to itself, and both name the first.
OtherLast == [d \in Docs |-> [e \in Docs |-> IF e = d THEN 0 ELSE 1]]
FirstNamed == [d \in Docs |-> {v1}]
EachOther == Docs \X Docs
Both == {Docs}
Uploads == INSTANCE Relations WITH
             job <- upload, doc <- paper, vectors <- stored, orders <- ordered

rollout == <<skill, exper, control, local, disk, lock, turn, stopped, use>>
reviewing == <<dept, order, submit>>
ingest == <<docs, chunks, vectors, work, used, born, touched>>
learning == <<phase, strategy, trial, worse, feedback, rules, handled, cycle, holder>>
orchestrator == <<asking, question, hooks, asked, agent, verdict, says, call, merged>>
uploads == <<upload, paper, stored, relations, ordered, worker, unsure>>

Learning == {"learning", "consuming", "suggesting"}

MCInit ==
  /\ focus \in Foci
  /\ Init
  /\ Offline!Init
  /\ Review!Init
  /\ Ingests!Init
  /\ Loop!Init
  /\ focus \notin Learning => phase = "in"
  /\ Agents!Init
  /\ focus # "agents" => hooks
  /\ Uploads!Init

PublisherStep ==
  /\ focus = "publisher"
  /\ Next
  /\ UNCHANGED <<focus, rollout, reviewing, ingest, learning, orchestrator, uploads>>

OfflineStep ==
  /\ focus = "offline"
  /\ Offline!Next
  /\ UNCHANGED <<focus, vars, reviewing, ingest, learning, orchestrator, uploads>>

\* One request after the other.
JoinedStep ==
  /\ focus = "joined"
  /\ Joined!Next
  /\ \E t \in Tasks : \A u \in Tasks \ {t} : turn'[u] = None
  /\ UNCHANGED <<focus, vars, reviewing, ingest, learning, orchestrator, uploads>>

ReviewStep ==
  /\ focus = "review"
  /\ Review!Next
  /\ UNCHANGED <<focus, vars, rollout, ingest, learning, orchestrator, uploads>>

\* Three workers' documents, or two that an administrator may touch.
IngestStep ==
  /\ focus \in {"workers", "touching"}
  /\ Ingests!Next
  /\ focus = "workers" => touched' = {}
  /\ focus = "touching" => used' \subseteq Fewer
  /\ UNCHANGED <<focus, vars, rollout, reviewing, learning, orchestrator, uploads>>

\* One cycle next to an approval or a question, two of them with one feedback and
\* one strategy, and one after the other with all the feedback and no strategy.  A
\* worker restarts between its cycles, and executions turn against a strategy when a
\* cycle deploys.  Strategies are interchangeable: the first is called a.
LoopStep ==
  /\ focus \in Learning
  /\ Loop!Next
  /\ Loop!Mined = {} => \A t \in Tasks : cycle'[t] # None => cycle'[t].doc \in {None, a}
  /\ focus = "learning" => feedback' = feedback
  /\ focus # "consuming" => \A t \in Tasks \ {t1} : cycle'[t] = None
  /\ focus = "consuming" =>
       /\ holder' = holder /\ \A t \in Tasks : cycle'[t] # None => cycle'[t].doc \in {None, a}
       /\ \A f \in Feedbacks \ {"x"} : feedback'[f] = "none"
  /\ focus = "suggesting" =>
       phase' = phase /\ \A t \in Tasks : cycle'[t] # None => cycle'[t].doc = None
  /\ phase' # phase => \A t \in DOMAIN cycle : cycle[t] = None
  /\ worse' # worse => worse \subseteq worse' /\ \A t \in DOMAIN cycle : cycle[t] # None => cycle[t].at = "deploy"
  /\ UNCHANGED <<focus, vars, rollout, reviewing, ingest, orchestrator, uploads>>

AgentsStep ==
  /\ focus = "agents"
  /\ Agents!Next
  /\ UNCHANGED <<focus, vars, rollout, reviewing, ingest, learning, uploads>>

UploadsStep ==
  /\ focus = "relations"
  /\ Uploads!Next
  /\ UNCHANGED <<focus, vars, rollout, reviewing, ingest, learning, orchestrator>>

MCNext == PublisherStep \/ OfflineStep \/ JoinedStep \/ ReviewStep \/ IngestStep
            \/ LoopStep \/ AgentsStep \/ UploadsStep

MCSpec ==
  MCInit /\ [][MCNext]_<<focus, vars, rollout, reviewing, ingest, learning, orchestrator, uploads>>
-----------------------------------------------------------------------------
(* Rollout, ReviewEngine, Ingest, EngineLoop and Orchestrator say what these *)
(* mean for their code.                                                     *)
FreezeHolds == focus = "offline" => Offline!FreezeHolds /\ Offline!UsedPassed
SharedFreezeHolds == focus = "joined" => Joined!FreezeHolds
PhaseIsEarned == Review!PhaseIsEarned
TitleStaysAnswered ==
  /\ Ingests!TitleStaysAnswered
  /\ Uploads!ConflictsAreFound
CyclesAccount == Loop!ReplacedGaveWay /\ Loop!ConsumedWasSeen
AnswersAreVerified == Agents!AnswersAreVerified
=============================================================================
