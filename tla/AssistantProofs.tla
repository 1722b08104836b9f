-------------------------- MODULE AssistantProofs --------------------------
(***************************************************************************)
(* What MCAssistant checks of the assistant, for every value of the         *)
(* constants: the agent service, the answers of the financial runtime, the  *)
(* session and its deletion, the memories, how documents come into force,   *)
(* and the index they are found by.  For each an invariant that            *)
(* its steps keep, from which the property follows.                        *)
(***************************************************************************)
EXTENDS MCAssistant, FiniteSetTheorems, TLAPS

-----------------------------------------------------------------------------
(* The agent service (PiAgent).                                             *)
RunRow == [at : {"none", "sent", "running", "ended"}, tools : SUBSET Agents!Tools]

DagRow ==
  [at : {"new", "retrieve", "verify", "returned", "failed"}, depts : SUBSET Depts,
   queries : Nat, chunks : SUBSET Depts, draft : Nat, judged : Nat \cup {None},
   passed : BOOLEAN, round : Nat]

NoneIsNoNumber == None \notin Nat

\* The draft at hand is the one after the last that was judged, and did not pass.
Drafted(d) ==
  /\ d.draft = d.round + 1
  /\ d.round = 0 => d.passed /\ d.judged = None
  /\ d.round > 0 => ~d.passed /\ d.judged = d.round

\* What the chunks were read for, and how often the draft was judged.
DagInv ==
  /\ dag \in DagRow
  /\ dag.depts # {} => dag.chunks \subseteq dag.depts
  /\ dag.at = "new" => dag.chunks = {}
  /\ dag.at \in {"new", "retrieve"} => dag.passed /\ dag.round = 0 /\ dag.judged = None
  /\ dag.at = "verify" => Drafted(dag) /\ dag.round < Agents!Retries
  /\ dag.at = "returned" =>
       /\ dag.passed => dag.judged \in {None, dag.draft}
       /\ ~dag.passed => dag.draft = dag.judged + 1
       /\ dag.draft <= Agents!Retries + 1

\* No stage of the backend gave its run a tool.
PiInv ==
  /\ run \in [Calls \cup Cycles -> RunRow]
  /\ \A r \in Calls \cup Cycles : run[r].tools # {} => r \in Cycles
  /\ \A s \in artifacts : s.by \in Cycles
  /\ DagInv

\* Every step on the runs leaves the answer of the service's own alone.
LEMMA RunSteps ==
  ASSUME PiInv, dag' = dag, run' \in [Calls \cup Cycles -> RunRow],
         \A r \in Calls \cup Cycles : run'[r].tools # {} => r \in Cycles,
         \A s \in artifacts' : s.by \in Cycles
  PROVE  PiInv'
BY DEF PiInv, DagInv, DagRow, Drafted

LEMMA RunGoesOn ==
  ASSUME PiInv, NEW r \in Calls \cup Cycles, NEW at \in {"none", "sent", "running", "ended"},
         run' = [run EXCEPT ![r].at = at]
  PROVE  /\ run' \in [Calls \cup Cycles -> RunRow]
         /\ \A s \in Calls \cup Cycles : run'[s].tools = run[s].tools
<1>1. run \in [Calls \cup Cycles -> RunRow]
  BY DEF PiInv
<1>2. PICK next : next = [run[r] EXCEPT !.at = at]
  OBVIOUS
<1>3. next \in RunRow /\ next.tools = run[r].tools
  BY <1>1, <1>2 DEF RunRow
<1>4. run' = [run EXCEPT ![r] = next]
  BY <1>2
<1> QED
  BY <1>1, <1>3, <1>4

LEMMA PiSteps ==
  ASSUME NoneIsNoNumber PROVE PiInv /\ [Agents!Next]_Agents!vars => PiInv'
<1> SUFFICES ASSUME PiInv, [Agents!Next]_Agents!vars PROVE PiInv'
  OBVIOUS
<1>1. ASSUME NEW k \in Calls, UNCHANGED <<run, artifacts, dag>> PROVE PiInv'
  BY <1>1, RunSteps DEF PiInv
<1>2. ASSUME NEW r \in Calls \cup Cycles, NEW at \in {"none", "sent", "running", "ended"},
             run' = [run EXCEPT ![r].at = at], UNCHANGED <<artifacts, dag>>
      PROVE  PiInv'
  BY <1>2, RunGoesOn, RunSteps DEF PiInv
<1>3. ASSUME NEW r \in Calls \cup Cycles, NEW tools \in SUBSET Agents!Tools, tools # {} => r \in Cycles,
             run' = [run EXCEPT ![r] = [at |-> "running", tools |-> tools]],
             UNCHANGED <<artifacts, dag>>
      PROVE  PiInv'
  <2> DEFINE row == [at |-> "running", tools |-> tools]
  <2>1. row \in RunRow /\ row.tools = tools
    BY DEF RunRow
  <2>2. run' = [run EXCEPT ![r] = row] /\ run \in [Calls \cup Cycles -> RunRow]
    BY <1>3 DEF PiInv
  <2> HIDE DEF row
  <2>3. /\ run' \in [Calls \cup Cycles -> RunRow]
        /\ \A s \in Calls \cup Cycles : run'[s].tools # {} => s \in Cycles
    BY <1>3, <2>1, <2>2 DEF PiInv
  <2> QED
    BY <1>3, <2>3, RunSteps DEF PiInv
<1>4. CASE Agents!Stages
  <2>1. PICK k \in Calls : \/ Agents!Ask(k) \/ Agents!Send(k) \/ Agents!StartRun(k) \/ Agents!Refuse(k)
                           \/ Agents!EndRun(k) \/ Agents!Deadline(k) \/ Agents!Receive(k)
                           \/ Agents!GiveUp(k)
    BY <1>4 DEF Agents!Stages
  <2>2. CASE Agents!Ask(k) \/ Agents!Deadline(k) \/ Agents!Receive(k) \/ Agents!GiveUp(k)
    BY <1>1, <2>2 DEF Agents!Ask, Agents!Deadline, Agents!Receive, Agents!GiveUp
  <2>3. CASE Agents!Send(k)
    BY <1>2, <2>3 DEF Agents!Send
  <2>4. CASE Agents!StartRun(k)
    <3>1. Agents!Given({}) = {}
      BY DEF Agents!Given
    <3> QED
      BY <1>3, <2>4, <3>1 DEF Agents!StartRun
  <2>5. CASE Agents!Refuse(k) \/ Agents!EndRun(k)
    BY <1>2, <2>5 DEF Agents!Refuse, Agents!EndRun
  <2> QED
    BY <2>1, <2>2, <2>3, <2>4, <2>5
<1>5. CASE Agents!Loop
  <2>1. ASSUME NEW c \in Cycles, Agents!StartCycle(c) PROVE PiInv'
    BY <1>3, <2>1 DEF Agents!StartCycle, Agents!LoopTools, Agents!Tools
  <2>2. ASSUME NEW c \in Cycles, Agents!EndCycle(c) PROVE PiInv'
    BY <1>2, <2>2 DEF Agents!EndCycle
  <2>3. ASSUME NEW r \in Calls \cup Cycles, NEW kind \in Agents!Kinds, NEW confident \in BOOLEAN,
               Agents!SaveArtifact(r, kind, confident)
        PROVE  PiInv'
    <3>1. r \in Cycles /\ UNCHANGED <<run, dag>>
      BY <2>3 DEF Agents!SaveArtifact, PiInv
    <3>2. \A s \in artifacts' : s.by \in Cycles
      BY <2>3, <3>1 DEF Agents!SaveArtifact, PiInv
    <3> QED
      BY <3>1, <3>2, RunSteps DEF PiInv
  <2> QED
    BY <1>5, <2>1, <2>2, <2>3 DEF Agents!Loop
<1>6. CASE Agents!Answering
  <2> USE DEF DagRow
  <2>1. dag \in DagRow /\ DagInv
    BY DEF PiInv, DagInv
  <2>2. ASSUME NEW named \in SUBSET Depts, NEW intended \in SUBSET Depts, NEW queries \in 0 .. 2,
               Agents!Begin(named, intended, queries)
        PROVE  DagInv'
    <3> DEFINE found == Agents!Resolved(named, intended)
    <3>1. found \in SUBSET Depts /\ queries \in Nat
      BY DEF Agents!Resolved
    <3>2. /\ dag.at = "new"
          /\ dag' = [dag EXCEPT !.at = "retrieve", !.depts = found, !.queries = queries]
      BY <2>2 DEF Agents!Begin
    <3> HIDE DEF found
    <3>3. PICK next : next = [dag EXCEPT !.at = "retrieve", !.depts = found, !.queries = queries]
      OBVIOUS
    <3>4. /\ next.at = "retrieve" /\ next.chunks = dag.chunks
          /\ next.passed = dag.passed /\ next.round = dag.round /\ next.judged = dag.judged
      BY <2>1, <3>3
    <3>5. next \in DagRow
      BY <2>1, <3>1, <3>3
    <3>6. dag' = next
      BY <3>2, <3>3
    <3> HIDE DEF DagRow
    <3> QED
      BY <2>1, <3>2, <3>4, <3>5, <3>6 DEF DagInv
  <2>3. ASSUME NEW found \in SUBSET Depts, Agents!Retrieve(found) PROVE DagInv'
    <3> DEFINE more == found \cap Agents!Reach
    <3>1. more \in SUBSET Depts
      OBVIOUS
    <3>2. Agents!Admitted /\ dag.depts # {} => more \subseteq dag.depts
      BY DEF Agents!Admitted, Agents!Reach
    <3>3. CASE Agents!Admitted
      <4>1. /\ dag.at = "retrieve"
            /\ dag.queries > 0
            /\ dag' = [dag EXCEPT !.queries = @ - 1, !.chunks = @ \cup more]
        BY <2>3, <3>3 DEF Agents!Retrieve
      <4> HIDE DEF more
      <4>2. PICK next : next = [dag EXCEPT !.queries = @ - 1, !.chunks = @ \cup more]
        OBVIOUS
      <4>3. /\ next.at = "retrieve" /\ next.depts = dag.depts
            /\ next.chunks = dag.chunks \cup more
            /\ next.passed = dag.passed /\ next.round = dag.round /\ next.judged = dag.judged
        BY <2>1, <4>1, <4>2
      <4>4. dag.queries - 1 \in Nat /\ dag.chunks \cup more \in SUBSET Depts
        BY <2>1, <3>1, <4>1
      <4>5. next \in DagRow
        BY <2>1, <4>2, <4>4
      <4>6. dag' = next
        BY <4>1, <4>2
      <4> HIDE DEF DagRow
      <4> QED
        BY <2>1, <3>2, <3>3, <4>1, <4>3, <4>5, <4>6 DEF DagInv
    <3>4. CASE ~Agents!Admitted
      <4>1. dag.at = "retrieve" /\ dag' = [dag EXCEPT !.at = "failed"]
        BY <2>3, <3>4 DEF Agents!Retrieve
      <4> QED
        BY <2>1, <4>1 DEF DagInv
    <3> QED
      BY <3>3, <3>4
  <2>4. ASSUME Agents!Draft PROVE DagInv'
    <3>1. dag.at = "retrieve" /\ dag' = [dag EXCEPT !.at = "verify", !.draft = 1]
      BY <2>4 DEF Agents!Draft
    <3>2. PICK next : next = [dag EXCEPT !.at = "verify", !.draft = 1]
      OBVIOUS
    <3>3. /\ next \in DagRow /\ next.at = "verify" /\ next.draft = 1
          /\ next.depts = dag.depts /\ next.chunks = dag.chunks
          /\ next.passed = dag.passed /\ next.round = dag.round /\ next.judged = dag.judged
      BY <2>1, <3>2
    <3>4. dag' = next
      BY <3>1, <3>2
    <3> HIDE DEF DagRow
    <3> QED
      BY <2>1, <3>1, <3>3, <3>4 DEF DagInv, Drafted, Agents!Retries
  <2>5. ASSUME NEW passes \in BOOLEAN, Agents!Judge(passes) PROVE DagInv'
    <3>1. /\ dag.at = "verify" /\ Drafted(dag) /\ dag.round < 2
          /\ dag.round \in Nat /\ dag.draft = dag.round + 1
      BY <2>1, <2>5 DEF Agents!Judge, DagInv, Drafted, Agents!Retries
    <3>2. CASE passes
      <4>1. dag' = [dag EXCEPT !.judged = dag.draft, !.passed = passes, !.round = @ + 1,
                               !.at = "returned"]
        BY <2>5, <3>2 DEF Agents!Judge
      <4>2. PICK next : next = [dag EXCEPT !.judged = dag.draft, !.passed = passes,
                                           !.round = @ + 1, !.at = "returned"]
        OBVIOUS
      <4>3. /\ next \in DagRow /\ next.at = "returned" /\ next.draft = dag.draft
            /\ next.depts = dag.depts /\ next.chunks = dag.chunks
            /\ next.judged = dag.draft /\ next.passed = TRUE
        BY <2>1, <3>1, <3>2, <4>2
      <4>4. dag' = next
        BY <4>1, <4>2
      <4> HIDE DEF DagRow
      <4> QED
        BY <2>1, <3>1, <4>3, <4>4 DEF DagInv, Agents!Retries
    <3>3. CASE ~passes
      <4>1. dag' = [dag EXCEPT !.judged = dag.draft, !.passed = passes, !.round = @ + 1,
                               !.draft = @ + 1,
                               !.at = IF dag.round + 1 = 2 THEN "returned" ELSE "verify"]
        BY <2>1, <2>5, <3>3 DEF Agents!Judge, Agents!Retries
      <4> DEFINE at == IF dag.round + 1 = 2 THEN "returned" ELSE "verify"
      <4>2. at \in {"verify", "returned"} /\ (at = "verify" => dag.round = 0)
        BY <3>1
      <4>3. dag' = [dag EXCEPT !.judged = dag.draft, !.passed = passes, !.round = @ + 1,
                               !.draft = @ + 1, !.at = at]
        BY <4>1
      <4> HIDE DEF at
      <4>4. PICK next : next = [dag EXCEPT !.judged = dag.draft, !.passed = passes,
                                           !.round = @ + 1, !.draft = @ + 1, !.at = at]
        OBVIOUS
      <4>5. /\ next.at = at /\ next.draft = dag.draft + 1
            /\ next.depts = dag.depts /\ next.chunks = dag.chunks
            /\ next.judged = dag.draft /\ next.passed = FALSE /\ next.round = dag.round + 1
        BY <2>1, <3>3, <4>4
      <4>6. dag.draft + 1 \in Nat /\ dag.round + 1 \in Nat
        BY <3>1
      <4>7. next \in DagRow
        BY <2>1, <4>2, <4>4, <4>6
      <4>8. dag' = next
        BY <4>3, <4>4
      <4> HIDE DEF DagRow
      <4> QED
        BY <2>1, <3>1, <4>2, <4>5, <4>7, <4>8 DEF DagInv, Drafted, Agents!Retries
    <3> QED
      BY <3>2, <3>3
  <2>6. ASSUME Agents!Unjudged PROVE DagInv'
    BY <2>1, <2>6 DEF Agents!Unjudged, DagInv, Drafted, Agents!Retries
  <2>7. ASSUME Agents!FailAnswer PROVE DagInv'
    BY <2>1, <2>7 DEF Agents!FailAnswer, DagInv
  <2>8. DagInv'
    BY <1>6, <2>2, <2>3, <2>4, <2>5, <2>6, <2>7 DEF Agents!Answering
  <2>9. UNCHANGED <<run, artifacts>>
    BY <1>6 DEF Agents!Answering, Agents!Begin, Agents!Retrieve, Agents!Draft, Agents!Judge,
                Agents!Unjudged, Agents!FailAnswer
  <2> QED
    BY <2>8, <2>9 DEF PiInv
<1>7. CASE UNCHANGED Agents!vars
  BY <1>1, <1>7, RunSteps DEF Agents!vars, PiInv
<1> QED
  BY <1>4, <1>5, <1>6, <1>7 DEF Agents!Next

LEMMA PiBegins == Agents!Init => PiInv
BY DEF Agents!Init, PiInv, DagInv, DagRow, RunRow, Agents!NoDag, Agents!NoRun, Agents!Tools

(* The answers of the agent service, for every set of calls, cycles and     *)
(* departments: what it saves is of a learning cycle, and the answer it     *)
(* returns cites departments that were asked and is the draft it judged.   *)
THEOREM PiStaysContained ==
  ASSUME NoneIsNoNumber PROVE Agents!Spec => []PiIsContained
<1>1. PiInv => PiIsContained
  BY DEF PiInv, DagInv, PiIsContained, Agents!PiIsContained
<1> QED
  BY <1>1, PiBegins, PiSteps, PTL DEF Agents!Spec

-----------------------------------------------------------------------------
(* An answer of the runtime (Pipeline).                                     *)

Authors == Answers!Written \cup {"nothing", "extractive_offline"}
NoneIsNoDraft == None \notin [number : Nat, by : Authors]

\* The evidence is of departments searched, remembered or found, and these are
\* the user's.
EvidenceIsAllowed ==
  /\ depts \subseteq allowed
  /\ \A c \in evidence \cup recalled : DeptOf[c] \in depts
  /\ stage = "intent" => evidence \cup recalled = {}

\* The draft at hand: its author is the mode, a model wrote only of what may
\* leave, and the sources still to be looked at complete those found valid.
DraftInv ==
  /\ attempt \in Nat
  /\ mode \in Answers!Written \cup {"extractive_offline"}
  /\ stage = "verify" => checked \cup hits = evidence
  /\ stage \in {"verify", "passed"} /\ evidence # {} => draft # None /\ draft.by = mode
  /\ stage = "verify" /\ evidence # {} /\ mode \in Answers!Written => Answers!MayLeave(evidence)
  /\ stage = "passed" =>
       /\ evidence # {} /\ checked = evidence
       /\ draft.by \in Answers!Written => draft.number \in judged

SentInv ==
  /\ sent # {} => Answers!MayLeave(sent)
  /\ told # {} => opted

AnswerInv == EvidenceIsAllowed /\ DraftInv /\ SentInv

LEMMA AnswerBegins == Answers!Init => AnswerInv
BY DEF Answers!Init, AnswerInv, EvidenceIsAllowed, DraftInv, SentInv, Answers!Written

LEMMA RetrievalSteps ==
  ASSUME AnswerInv, Answers!Retrieval \/ \E c \in Chunks : Answers!Withdraw(c)
  PROVE  AnswerInv'
<1> USE DEF AnswerInv, EvidenceIsAllowed, DraftInv, SentInv
<1>1. ASSUME NEW c \in Chunks, Answers!Withdraw(c) PROVE AnswerInv'
  BY <1>1 DEF Answers!Withdraw, Answers!run, Answers!history, Answers!MayLeave
<1>2. ASSUME NEW wanted \in SUBSET Answers!Departments, NEW asked \in BOOLEAN,
             Answers!Route(wanted, asked)
      PROVE  AnswerInv'
  BY <1>2 DEF Answers!Route, Answers!Tell, Answers!run, Answers!MayLeave
<1>3. ASSUME NEW found \in SUBSET Chunks, Answers!Search(found) PROVE AnswerInv'
  BY <1>3 DEF Answers!Search, Answers!run, Answers!history, Answers!MayLeave
<1>4. ASSUME NEW top \in SUBSET Chunks, Answers!Rerank(top) PROVE AnswerInv'
  BY <1>4 DEF Answers!Rerank, Answers!run, Answers!MayLeave
<1>5. ASSUME NEW c \in Chunks, Answers!Hydrate(c) \/ Answers!Recheck(c) PROVE AnswerInv'
  BY <1>5 DEF Answers!Hydrate, Answers!Recheck, Answers!Valid, Answers!run, Answers!history,
              Answers!MayLeave
<1>6. ASSUME NEW kept \in SUBSET Chunks, Answers!Retrieved(kept) \/ Answers!RetrievalLate(kept)
      PROVE  AnswerInv'
  <2>1. /\ evidence' \subseteq evidence \cup recalled
        /\ recalled' = {} /\ stage' = "generate"
        /\ UNCHANGED <<allowed, opted, depts, mode, draft, attempt, sent, told, checked, judged>>
    BY <1>6 DEF Answers!Retrieved, Answers!RetrievalLate, Answers!Merged, Answers!run, Answers!history
  <2> QED
    BY <2>1 DEF Answers!MayLeave
<1>7. ASSUME NEW c \in Chunks, Answers!Recall(c) PROVE AnswerInv'
  BY <1>7 DEF Answers!Recall, Answers!Valid, Answers!run, Answers!history, Answers!MayLeave
<1>8. ASSUME NEW asked \in BOOLEAN, Answers!Rewrite(asked) PROVE AnswerInv'
  BY <1>8 DEF Answers!Rewrite, Answers!Tell, Answers!run, Answers!MayLeave
<1> QED
  BY <1>1, <1>2, <1>3, <1>4, <1>5, <1>6, <1>7, <1>8 DEF Answers!Retrieval

\* A verification that fails changes neither the evidence nor what was sent.
LEMMA FailsSteps ==
  ASSUME AnswerInv, Answers!Fails, stage = "verify",
         UNCHANGED <<inforce, allowed, opted, depts, recalled, evidence, mode, draft>>,
         SentInv'
  PROVE  AnswerInv'
BY DEF AnswerInv, EvidenceIsAllowed, DraftInv, SentInv, Answers!Fails, Answers!MayLeave

LEMMA AnsweringSteps ==
  ASSUME NoneIsNoDraft, AnswerInv, Answers!Answering PROVE AnswerInv'
<1>1. CASE Answers!GenerateNothing
  BY <1>1 DEF Answers!GenerateNothing, Answers!run, Answers!MayLeave, AnswerInv,
              EvidenceIsAllowed, DraftInv, SentInv
<1>2. ASSUME NEW by \in Answers!Written \cup {"extractive_offline"}, Answers!Drafted(by),
             stage = "generate",
             UNCHANGED <<inforce, allowed, opted, depts, recalled, evidence, attempt, judged>>,
             by \in Answers!Written => Answers!MayLeave(evidence),
             SentInv'
      PROVE  AnswerInv'
  <2>1. draft' = [number |-> attempt, by |-> by] /\ mode' = by /\ checked' = {}
        /\ hits' = evidence /\ stage' = "verify"
    BY <1>2 DEF Answers!Drafted
  <2>2. draft' # None /\ draft'.by = by
    <3>1. draft' \in [number : Nat, by : Authors]
      BY <1>2, <2>1 DEF AnswerInv, DraftInv, Authors
    <3> QED
      BY <2>1, <3>1 DEF NoneIsNoDraft
  <2> QED
    BY <1>2, <2>1, <2>2 DEF AnswerInv, EvidenceIsAllowed, DraftInv, SentInv, Answers!MayLeave
<1>3. ASSUME NEW called \in BOOLEAN, Answers!Extract(called) PROVE AnswerInv'
  <2>1. SentInv'
    BY <1>3 DEF Answers!Extract, Answers!Tell, Answers!run, Answers!MayLeave, AnswerInv, SentInv
  <2> QED
    BY <1>2, <1>3, <2>1 DEF Answers!Extract, Answers!run, Answers!Written
<1>4. ASSUME NEW by \in Answers!Written, Answers!Compose(by) PROVE AnswerInv'
  <2>1. SentInv'
    BY <1>4 DEF Answers!Compose, Answers!Tell, Answers!run, Answers!MayLeave, AnswerInv, SentInv
  <2> QED
    BY <1>2, <1>4, <2>1 DEF Answers!Compose, Answers!run
<1>5. ASSUME NEW c \in Chunks, Answers!Check(c) PROVE AnswerInv'
  <2>1. CASE Answers!Valid(c)
    BY <1>5, <2>1 DEF Answers!Check, Answers!run, Answers!MayLeave, AnswerInv,
                      EvidenceIsAllowed, DraftInv, SentInv
  <2>2. CASE ~Answers!Valid(c)
    BY <1>5, <2>2, FailsSteps DEF Answers!Check, Answers!run, Answers!MayLeave, AnswerInv, SentInv
  <2> QED
    BY <2>1, <2>2
<1>6. CASE Answers!Reject \/ Answers!VerifyLate
  BY <1>6, FailsSteps DEF Answers!Reject, Answers!VerifyLate, Answers!run, Answers!history,
                          Answers!MayLeave, AnswerInv, SentInv
<1>7. CASE Answers!Quoted
  BY <1>7 DEF Answers!Quoted, Answers!run, Answers!history, Answers!MayLeave, Answers!Written,
              AnswerInv, EvidenceIsAllowed, DraftInv, SentInv
<1>8. ASSUME NEW passes \in BOOLEAN, Answers!Judge(passes) PROVE AnswerInv'
  <2>1. SentInv'
    BY <1>8 DEF Answers!Judge, Answers!run, Answers!MayLeave, AnswerInv, DraftInv, SentInv
  <2>2. CASE passes
    BY <1>8, <2>1, <2>2 DEF Answers!Judge, Answers!run, Answers!MayLeave, AnswerInv,
                            EvidenceIsAllowed, DraftInv, SentInv
  <2>3. CASE ~passes
    BY <1>8, <2>1, <2>3, FailsSteps DEF Answers!Judge, Answers!run
  <2> QED
    BY <2>2, <2>3
<1> QED
  BY <1>1, <1>3, <1>4, <1>5, <1>6, <1>7, <1>8 DEF Answers!Answering

(* An answer given as verified, for every set of chunks, departments and    *)
(* retries: its evidence, remembered or found, is of the user's departments *)
(* and was found in force after it was written, and the judge passed this   *)
(* very draft if a model wrote it.  A model is told something only with the *)
(* user's consent and given as evidence only what is approved; the memory   *)
(* context may quote what is not.                                           *)
THEOREM PassedStaysGrounded ==
  ASSUME NoneIsNoDraft PROVE Answers!Spec => []PassedIsGrounded
<1>1. AnswerInv => PassedIsGrounded
  BY DEF AnswerInv, EvidenceIsAllowed, DraftInv, SentInv, PassedIsGrounded,
         Answers!PassedIsGrounded, Answers!MayLeave
<1>2. AnswerInv /\ [Answers!Next]_Answers!vars => AnswerInv'
  <2> SUFFICES ASSUME AnswerInv, [Answers!Next]_Answers!vars PROVE AnswerInv'
    OBVIOUS
  <2>1. CASE UNCHANGED Answers!vars
    BY <2>1 DEF Answers!vars, AnswerInv, EvidenceIsAllowed, DraftInv, SentInv, Answers!MayLeave
  <2> QED
    BY <2>1, RetrievalSteps, AnsweringSteps DEF Answers!Next
<1> QED
  BY <1>1, <1>2, AnswerBegins, PTL DEF Answers!Spec

-----------------------------------------------------------------------------
(* The session (Session).                                                   *)
Seqs == [life : Nat, n : Nat]
Message == [of : Turns, role : Sessions!OfContext]
Event == [of : Turns, role : {"question", "answer"}, seq : Seqs]
Places == {"context", "list", "events", "summary", "counter", "find", "traces", "done"}
TurnRow ==
  [pc : 1 .. 11, user : Users \cup {None}, read : {None} \cup SUBSET Message,
   seq : {None} \cup Seqs, met : {"nothing", "cut", "over"}]
ClearRow ==
  [at : Places, user : Users, events : SUBSET Event, traces : SUBSET Turns]

NoneIsNothing ==
  None \notin Turns \cup Users \cup Seqs \cup ClearRow \cup SUBSET Message

SessionTyped ==
  /\ context \in SUBSET Message
  /\ counter \in Nat /\ life \in Nat
  /\ events \in SUBSET Event
  /\ traces \in SUBSET Turns
  /\ summary \in Turns \cup {None}
  /\ turn \in [Turns -> TurnRow]
  /\ \A t \in Turns : turn[t].read # None => turn[t].pc \in {2, 5}
  /\ clearing \in ClearRow \cup {None}

\* A number was given out in its life of the counter, or in an earlier one.
Given(seq) == seq.life <= life /\ (seq.life = life => seq.n <= counter)

\* No two events, or turns that are about to write one, have the same number.
Numbered ==
  /\ \A t \in Turns : turn[t].seq # None <=> turn[t].pc \in {4, 8}
  /\ \A e \in events : Given(e.seq)
  /\ \A e, f \in events : e.seq = f.seq => e = f
  /\ \A t \in Turns : turn[t].seq # None =>
       /\ Given(turn[t].seq)
       /\ \A e \in events : e.seq # turn[t].seq
       /\ \A u \in Turns : turn[u].seq = turn[t].seq => u = t

\* The question comes before the answer, and is the smaller number.
Ordered ==
  /\ \A e \in events : turn[e.of].pc > IF e.role = "question" THEN 4 ELSE 8
  /\ \A e \in events, t \in Turns :
       (e.of = t /\ e.role = "question" /\ turn[t].pc = 8 /\ e.seq.life = turn[t].seq.life) =>
         e.seq.n < turn[t].seq.n
  /\ \A e, f \in events :
       (e.of = f.of /\ e.role = "question" /\ f.role = "answer"
          /\ e.seq.life = f.seq.life) => e.seq.n < f.seq.n

HasEvent(t, role) == \E e \in events : e.of = t /\ e.role = role

\* What a turn has left that no deletion met.
Left ==
  /\ \A t \in traces : turn[t].pc > 6
  /\ \A t \in Turns : turn[t].met = "nothing" =>
       /\ turn[t].pc \in 5 .. 10 => HasEvent(t, "question")
       /\ turn[t].pc \in 7 .. 10 => t \in traces
       /\ turn[t].pc \in 9 .. 10 => HasEvent(t, "answer")
       /\ turn[t].pc = 10 => summary # None
       /\ HasEvent(t, "answer") => t \in traces
       /\ Sessions!Deleting =>
            turn[t].pc \in {1, 11} /\ t \notin traces /\ \A e \in events : e.of # t

\* Whatever a turn that was over had left is listed before it is deleted.
Over(t) == turn[t].met = "over"
Undisturbed == clearing # None /\ \A t \in Turns : turn[t].met # "cut"
After(places) == clearing.at \in places
Swept ==
  /\ clearing = None => \A t \in Turns : turn[t].met = "nothing"
  /\ \A t \in Turns : /\ turn[t].pc = 1 => turn[t].met = "nothing"
                      /\ Over(t) => turn[t].pc >= 10
  /\ Undisturbed =>
       /\ Sessions!Deleting => \A t \in Turns : turn[t].pc \in {1, 10, 11}
       /\ clearing.at # "context" =>
            /\ \A m \in context : ~Over(m.of)
            /\ \A t \in Turns : turn[t].read # None => \A m \in turn[t].read : ~Over(m.of)
       /\ \A e \in events : Over(e.of) /\ turn[e.of].user = clearing.user =>
            \/ clearing.at \in {"context", "list"}
            \/ clearing.at = "events" /\ e \in clearing.events
       /\ summary # None /\ Over(summary) /\ turn[summary].user = clearing.user =>
            clearing.at \in {"context", "list", "events", "summary"}
       /\ \A t \in traces : Over(t) =>
            \/ clearing.at \in Places \ {"traces", "done"}
            \/ clearing.at = "traces" /\ t \in clearing.traces

SessionInv == SessionTyped /\ Numbered /\ Ordered /\ Left /\ Swept

LEMMA PlanIs ==
  ASSUME NEW t \in Turns, turn[t].pc \in 1 .. 11
  PROVE  /\ Sessions!At(t) = "new" <=> turn[t].pc = 1
         /\ Sessions!At(t) = "hear" <=> turn[t].pc = 2
         /\ Sessions!At(t) = "number" <=> turn[t].pc \in {3, 7}
         /\ Sessions!At(t) = "question" <=> turn[t].pc = 4
         /\ Sessions!At(t) = "say" <=> turn[t].pc = 5
         /\ Sessions!At(t) = "trace" <=> turn[t].pc = 6
         /\ Sessions!At(t) = "answer" <=> turn[t].pc = 8
         /\ Sessions!At(t) = "summary" <=> turn[t].pc = 9
         /\ Sessions!At(t) = "returned" <=> turn[t].pc = 10
         /\ Sessions!Ended(t) <=> turn[t].pc \in {10, 11}
         /\ Len(Sessions!Plan) = 11
BY DEF Sessions!At, Sessions!Plan, Sessions!Ended

LEMMA OneTurn ==
  ASSUME SessionTyped, NEW t \in Turns, NEW next \in TurnRow,
         turn' = [turn EXCEPT ![t] = next]
  PROVE  /\ turn' \in [Turns -> TurnRow]
         /\ turn'[t] = next
         /\ \A u \in Turns \ {t} : turn'[u] = turn[u]
BY DEF SessionTyped

\* A turn that goes on, and neither takes a number nor writes an event.
LEMMA QuietSteps ==
  ASSUME SessionInv, NEW t \in Turns, NEW next \in TurnRow,
         turn' = [turn EXCEPT ![t] = next],
         next.pc >= turn[t].pc,
         next.pc \in {4, 8} <=> next.seq # None,
         next.seq # None => next.seq = turn[t].seq /\ next.pc = turn[t].pc,
         UNCHANGED <<counter, life, events>>
  PROVE  Numbered' /\ Ordered'
<1>1. /\ turn' \in [Turns -> TurnRow]
      /\ turn'[t] = next
      /\ \A u \in Turns \ {t} : turn'[u] = turn[u]
      /\ turn \in [Turns -> TurnRow] /\ \A e \in events : e.of \in Turns
  BY OneTurn DEF SessionInv, SessionTyped, Event
<1>2. \A e \in Event : (Given(e.seq))' <=> Given(e.seq)
  BY DEF Given
<1>3. Numbered'
  BY <1>1 DEF SessionInv, Numbered, Given
<1>4. \A u \in Turns : turn'[u].pc >= turn[u].pc
  BY <1>1 DEF TurnRow
<1>5. Ordered'
  <2>1. \A e \in events' : turn'[e.of].pc > IF e.role = "question" THEN 4 ELSE 8
    BY <1>1, <1>4 DEF SessionInv, Ordered, TurnRow
  <2>2. \A e \in events', u \in Turns :
          (e.of = u /\ e.role = "question" /\ turn'[u].pc = 8 /\ e.seq.life = turn'[u].seq.life) =>
            e.seq.n < turn'[u].seq.n
    BY <1>1 DEF SessionInv, Ordered
  <2> QED
    BY <2>1, <2>2 DEF SessionInv, Ordered
<1> QED
  BY <1>3, <1>5

\* Events are deleted, the turns go on as they were.
LEMMA DeletingSteps ==
  ASSUME SessionInv, UNCHANGED <<counter, life, turn>>, events' \subseteq events
  PROVE  Numbered' /\ Ordered'
BY DEF SessionInv, Numbered, Ordered, Given

\* What a turn leaves, and what a deletion finds, when the turn goes on without
\* writing an event, a trace or a summary.
LEMMA OnlyTurn ==
  ASSUME SessionInv, NEW t \in Turns, NEW next \in TurnRow,
         turn' = [turn EXCEPT ![t] = next],
         UNCHANGED <<events, traces, summary, clearing>>,
         turn[t].pc \notin {10, 11},
         next.pc = 11 \/ (next.pc < 10 /\ next.pc \in {turn[t].pc, turn[t].pc + 1}),
         next.pc = turn[t].pc + 1 => turn[t].pc \notin {4, 6, 8},
         turn[t].pc = 1 /\ Sessions!Deleting => next.pc = 11 \/ next.met = "cut",
         turn[t].pc # 1 => next.met = turn[t].met,
         next.met = turn[t].met \/ (next.met = "cut" /\ Sessions!Deleting),
         next.pc >= turn[t].pc
  PROVE  /\ Left'
         /\ \A u \in Turns : Over(u)' <=> Over(u)
         /\ \A u \in Turns : Over(u)' => turn'[u] = turn[u]
         /\ Undisturbed' => Undisturbed
         /\ Sessions!Deleting' <=> Sessions!Deleting
<1>1. /\ turn' \in [Turns -> TurnRow]
      /\ turn'[t] = next
      /\ \A u \in Turns \ {t} : turn'[u] = turn[u]
      /\ turn \in [Turns -> TurnRow] /\ \A e \in events : e.of \in Turns
      /\ traces \in SUBSET Turns
  BY OneTurn DEF SessionInv, SessionTyped, Event
<1>2. Sessions!Deleting' <=> Sessions!Deleting
  BY DEF Sessions!Deleting
<1>3. ~Over(t) /\ turn[t].pc \in 1 .. 9 /\ next.pc \in 1 .. 11
  BY <1>1 DEF SessionInv, Swept, TurnRow, Over
<1>4. next.met # "over"
  BY <1>3, <1>1 DEF Over, TurnRow
<1>5. \A u \in Turns : HasEvent(u, "question")' <=> HasEvent(u, "question")
  BY DEF HasEvent
<1>6. \A u \in Turns : HasEvent(u, "answer")' <=> HasEvent(u, "answer")
  BY DEF HasEvent
<1>7. \A u \in traces' : turn'[u].pc > 6
  BY <1>1, <1>3 DEF SessionInv, Left, TurnRow
<1>8. ASSUME NEW u \in Turns, turn'[u].met = "nothing"
      PROVE  /\ turn'[u].pc \in 5 .. 10 => HasEvent(u, "question")'
             /\ turn'[u].pc \in 7 .. 10 => u \in traces'
             /\ turn'[u].pc \in 9 .. 10 => HasEvent(u, "answer")'
             /\ turn'[u].pc = 10 => summary' # None
             /\ HasEvent(u, "answer")' => u \in traces'
             /\ Sessions!Deleting' =>
                  turn'[u].pc \in {1, 11} /\ u \notin traces' /\ \A e \in events' : e.of # u
  <2>1. CASE u # t
    BY <1>1, <1>2, <1>5, <1>6, <1>8, <2>1 DEF SessionInv, Left
  <2>2. CASE u = t
    <3>1. next.met = "nothing" /\ turn[t].met = "nothing"
      BY <1>1, <1>8, <2>2
    <3>2. /\ turn[t].pc \in 5 .. 10 => HasEvent(t, "question")
          /\ turn[t].pc \in 7 .. 10 => t \in traces
          /\ turn[t].pc \in 9 .. 10 => HasEvent(t, "answer")
          /\ HasEvent(t, "answer") => t \in traces
          /\ Sessions!Deleting =>
               turn[t].pc \in {1, 11} /\ t \notin traces /\ \A e \in events : e.of # t
      BY <3>1 DEF SessionInv, Left
    <3>3. Sessions!Deleting => next.pc \in {1, 11}
      BY <3>1, <3>2, <1>3
    <3> QED
      BY <1>1, <1>2, <1>3, <1>5, <1>6, <2>2, <3>2, <3>3
  <2> QED
    BY <2>1, <2>2
<1>9. Left'
  BY <1>7, <1>8 DEF Left
<1>10. Undisturbed' => Undisturbed
  BY <1>1 DEF Undisturbed
<1> QED
  BY <1>1, <1>2, <1>3, <1>4, <1>9, <1>10 DEF Over

\* The messages a turn reads and writes are of turns the deletion did not find.
LEMMA SweptTurn ==
  ASSUME SessionInv, NEW t \in Turns, NEW next \in TurnRow,
         turn' = [turn EXCEPT ![t] = next],
         UNCHANGED <<events, traces, summary, clearing>>,
         turn[t].pc \notin {10, 11}, next.pc # 1,
         turn[t].pc = 1 /\ Sessions!Deleting => next.pc = 11 \/ next.met = "cut",
         next.met = turn[t].met \/ (next.met = "cut" /\ Sessions!Deleting),
         \A u \in Turns : Over(u)' <=> Over(u),
         \A u \in Turns : Over(u)' => turn'[u] = turn[u],
         Undisturbed' => Undisturbed,
         next.read \in {None, turn[t].read, context},
         \A m \in context' : \/ m \in context
                             \/ turn[t].read # None /\ m \in turn[t].read
                             \/ m.of = t
  PROVE  Swept'
<1>1. /\ turn' \in [Turns -> TurnRow]
      /\ turn'[t] = next
      /\ \A u \in Turns \ {t} : turn'[u] = turn[u]
      /\ turn \in [Turns -> TurnRow] /\ \A e \in events : e.of \in Turns
      /\ traces \in SUBSET Turns /\ summary \in Turns \cup {None}
  BY OneTurn DEF SessionInv, SessionTyped, Event
<1>2. Sessions!Deleting' <=> Sessions!Deleting
  BY DEF Sessions!Deleting
<1>3. ~Over(t) /\ turn[t].pc \in 1 .. 9
  BY <1>1 DEF SessionInv, Swept, TurnRow, Over
<1>4. clearing' = None => \A u \in Turns : turn'[u].met = "nothing"
  BY <1>1 DEF SessionInv, Swept, Sessions!Deleting
<1>5. \A u \in Turns : /\ turn'[u].pc = 1 => turn'[u].met = "nothing"
                       /\ Over(u)' => turn'[u].pc >= 10
  BY <1>1 DEF SessionInv, Swept
<1>6. ASSUME Undisturbed'
      PROVE  /\ Sessions!Deleting' => \A u \in Turns : turn'[u].pc \in {1, 10, 11}
             /\ clearing.at # "context" =>
                  /\ \A m \in context' : ~Over(m.of)'
                  /\ \A u \in Turns : turn'[u].read # None =>
                       \A m \in turn'[u].read : ~Over(m.of)'
  <2>1. Undisturbed
    BY <1>6
  <2>2. Sessions!Deleting => turn[t].pc = 1 /\ next.pc = 11
    BY <1>1, <1>3, <1>6, <2>1 DEF SessionInv, Swept, Undisturbed
  <2>3. Sessions!Deleting' => \A u \in Turns : turn'[u].pc \in {1, 10, 11}
    BY <1>1, <1>2, <2>1, <2>2 DEF SessionInv, Swept
  <2>4. ASSUME clearing.at # "context"
        PROVE  /\ \A m \in context' : ~Over(m.of)'
               /\ \A u \in Turns : turn'[u].read # None =>
                    \A m \in turn'[u].read : ~Over(m.of)'
    <3>1. /\ \A m \in context : ~Over(m.of) /\ m.of \in Turns
          /\ \A u \in Turns : turn[u].read # None =>
               \A m \in turn[u].read : ~Over(m.of) /\ m.of \in Turns
      BY <2>1, <2>4 DEF SessionInv, Swept, SessionTyped, TurnRow, Message
    <3>2. \A m \in context' : ~Over(m.of)'
      BY <1>3, <3>1
    <3>3. ASSUME NEW u \in Turns, turn'[u].read # None, NEW m \in turn'[u].read
          PROVE  ~Over(m.of)'
      BY <1>1, <3>1, <3>3
    <3> QED
      BY <3>2, <3>3
  <2> QED
    BY <2>3, <2>4
<1>7. ASSUME Undisturbed'
      PROVE  /\ \A e \in events' : Over(e.of)' /\ turn'[e.of].user = clearing.user =>
                  \/ clearing.at \in {"context", "list"}
                  \/ clearing.at = "events" /\ e \in clearing.events
             /\ summary # None /\ Over(summary)' /\ turn'[summary].user = clearing.user =>
                  clearing.at \in {"context", "list", "events", "summary"}
             /\ \A u \in traces' : Over(u)' =>
                  \/ clearing.at \in Places \ {"traces", "done"}
                  \/ clearing.at = "traces" /\ u \in clearing.traces
  <2>1. Undisturbed
    BY <1>7
  <2> QED
    BY <1>1, <2>1 DEF SessionInv, Swept
<1>8. UNCHANGED summary
  OBVIOUS
<1>9. \A u \in Turns : Over(u)' <=> Over(u)
  OBVIOUS
<1> QED
  BY <1>1, <1>4, <1>5, <1>6, <1>7 DEF Swept, Over

\* A turn that goes on to "next" without leaving anything but a message.
Quiet(t, next) ==
  /\ turn' = [turn EXCEPT ![t] = next]
  /\ UNCHANGED <<counter, life, events, traces, summary, clearing>>
  /\ context' \in SUBSET Message
  /\ turn[t].pc \in 1 .. 9
  /\ \/ next.pc = 11 /\ next.seq = None
     \/ next.pc = turn[t].pc /\ turn[t].pc # 1 /\ next.seq = turn[t].seq
     \/ next.pc = turn[t].pc + 1 /\ turn[t].pc \in {1, 2, 5} /\ next.seq = turn[t].seq
  /\ turn[t].pc = 1 /\ Sessions!Deleting => next.pc = 11 \/ next.met = "cut"
  /\ turn[t].pc # 1 => next.met = turn[t].met
  /\ next.met = turn[t].met \/ (next.met = "cut" /\ Sessions!Deleting)
  /\ next.read \in {None, turn[t].read, context}
  /\ next.read # None => next.pc \in {2, 5}
  /\ \A m \in context' : \/ m \in context
                         \/ turn[t].read # None /\ m \in turn[t].read
                         \/ m.of = t

LEMMA QuietIs ==
  ASSUME SessionInv, NEW t \in Turns, NEW next \in TurnRow, Quiet(t, next)
  PROVE  SessionInv'
<1>1. turn[t] \in TurnRow /\ turn[t].pc \in 1 .. 9
  BY DEF SessionInv, SessionTyped, TurnRow, Quiet
<1>2. turn[t].seq # None <=> turn[t].pc \in {4, 8}
  BY DEF SessionInv, Numbered
<1>3. SessionTyped'
  BY OneTurn DEF SessionInv, SessionTyped, Quiet
<1>4. /\ next.pc = 11 \/ (next.pc < 10 /\ next.pc \in {turn[t].pc, turn[t].pc + 1})
      /\ next.pc = turn[t].pc + 1 => turn[t].pc \notin {4, 6, 8}
      /\ next.pc >= turn[t].pc /\ next.pc # 1
      /\ next.pc \in {4, 8} <=> next.seq # None
      /\ next.seq # None => next.seq = turn[t].seq /\ next.pc = turn[t].pc
      /\ turn[t].pc \notin {10, 11}
  BY <1>1, <1>2 DEF Quiet
<1>5. Numbered' /\ Ordered'
  BY <1>4, QuietSteps DEF Quiet
<1>6. /\ Left'
      /\ \A u \in Turns : Over(u)' <=> Over(u)
      /\ \A u \in Turns : Over(u)' => turn'[u] = turn[u]
      /\ Undisturbed' => Undisturbed
  BY <1>4, OnlyTurn DEF Quiet
<1>7. Swept'
  BY <1>4, <1>6, SweptTurn DEF Quiet
<1> QED
  BY <1>3, <1>5, <1>6, <1>7 DEF SessionInv

LEMMA QuietTurn ==
  ASSUME NoneIsNothing, SessionInv, NEW t \in Turns,
         \/ \E u \in Users : Sessions!Admit(t, u) \/ Sessions!Refuse(t, u)
         \/ Sessions!Load(t) \/ Sessions!Save(t) \/ Sessions!Fail(t)
  PROVE  SessionInv'
<1>1. /\ turn \in [Turns -> TurnRow] /\ turn[t] \in TurnRow /\ turn[t].pc \in 1 .. 11
      /\ context \in SUBSET Message
  BY DEF SessionInv, SessionTyped, TurnRow
<1>2. turn[t].pc = 1 => turn[t].seq = None /\ turn[t].read = None
  BY DEF SessionInv, SessionTyped, Numbered
<1>3. ASSUME NEW u \in Users, Sessions!Admit(t, u) PROVE SessionInv'
  <2> DEFINE met == IF Sessions!Deleting THEN "cut" ELSE "nothing"
  <2>1. PICK next : next = [turn[t] EXCEPT !.pc = 2, !.user = u, !.met = met]
    OBVIOUS
  <2>2. turn[t].pc = 1 /\ turn[t].seq = None /\ turn[t].read = None
    BY <1>1, <1>2, <1>3, PlanIs DEF Sessions!Admit
  <2>3. turn' = [turn EXCEPT ![t] = next]
    BY <1>1, <1>3, <2>1 DEF Sessions!Admit
  <2>4. /\ next.pc = 2 /\ next.seq = turn[t].seq /\ next.read = turn[t].read
        /\ next.met = IF Sessions!Deleting THEN "cut" ELSE "nothing"
    BY <1>1, <2>1 DEF TurnRow
  <2>5. next \in TurnRow
    <3>1. met \in {"nothing", "cut"}
      OBVIOUS
    <3>2. 2 \in 1 .. 11 /\ u \in Users \cup {None}
      OBVIOUS
    <3> HIDE DEF met
    <3> QED
      BY <1>1, <2>1, <3>1, <3>2 DEF TurnRow
  <2>6. ~Sessions!Deleting => next.met = turn[t].met
    BY <2>2, <2>4 DEF SessionInv, Swept
  <2>7. UNCHANGED <<context, counter, life, events, traces, summary, clearing>>
    BY <1>3 DEF Sessions!Admit
  <2>8. Quiet(t, next)
    BY <1>1, <2>2, <2>3, <2>4, <2>6, <2>7 DEF Quiet
  <2> QED
    BY <2>5, <2>8, QuietIs
<1>4. ASSUME NEW u \in Users, Sessions!Refuse(t, u) PROVE SessionInv'
  <2>1. PICK next : next = [turn[t] EXCEPT !.pc = 11]
    OBVIOUS
  <2>2. turn[t].pc = 1 /\ turn[t].seq = None /\ turn[t].read = None
    BY <1>1, <1>2, <1>4, PlanIs DEF Sessions!Refuse
  <2>3. turn' = [turn EXCEPT ![t] = next]
    BY <1>1, <1>4, <2>1, PlanIs DEF Sessions!Refuse
  <2>4. /\ next.pc = 11 /\ next.seq = None /\ next.read = turn[t].read /\ next.met = turn[t].met
    BY <1>1, <2>1, <2>2 DEF TurnRow
  <2>5. next \in TurnRow
    BY <1>1, <2>1 DEF TurnRow
  <2>6. UNCHANGED <<context, counter, life, events, traces, summary, clearing>>
    BY <1>4 DEF Sessions!Refuse
  <2>7. Quiet(t, next)
    BY <1>1, <2>2, <2>3, <2>4, <2>6 DEF Quiet
  <2> QED
    BY <2>5, <2>7, QuietIs
<1>5. ASSUME Sessions!Load(t) PROVE SessionInv'
  <2>1. PICK next : next = [turn[t] EXCEPT !.read = context]
    OBVIOUS
  <2>2. turn[t].pc \in {2, 5}
    BY <1>1, <1>5, PlanIs DEF Sessions!Load, Sessions!OfContext
  <2>3. turn' = [turn EXCEPT ![t] = next]
    BY <1>1, <1>5, <2>1 DEF Sessions!Load
  <2>4. /\ next.pc = turn[t].pc /\ next.seq = turn[t].seq /\ next.read = context
        /\ next.met = turn[t].met
    BY <1>1, <2>1 DEF TurnRow
  <2>5. next \in TurnRow
    BY <1>1, <2>1 DEF TurnRow
  <2>6. UNCHANGED <<context, counter, life, events, traces, summary, clearing>>
    BY <1>5 DEF Sessions!Load
  <2>7. Quiet(t, next)
    BY <1>1, <2>2, <2>3, <2>4, <2>6 DEF Quiet
  <2> QED
    BY <2>5, <2>7, QuietIs
<1>6. ASSUME Sessions!Save(t) PROVE SessionInv'
  <2>1. PICK next : next = [turn[t] EXCEPT !.pc = @ + 1, !.read = None]
    OBVIOUS
  <2>2. /\ turn[t].pc \in {2, 5} /\ Sessions!At(t) \in Sessions!OfContext
        /\ turn[t].read # None
    BY <1>1, <1>6, PlanIs DEF Sessions!Save, Sessions!OfContext
  <2>3. turn' = [turn EXCEPT ![t] = next]
    BY <1>1, <1>6, <2>1 DEF Sessions!Save, Sessions!MoveOn, TurnRow
  <2>4. /\ next.pc = turn[t].pc + 1 /\ next.seq = turn[t].seq /\ next.read = None
        /\ next.met = turn[t].met
    BY <1>1, <2>1 DEF TurnRow
  <2>5. next \in TurnRow
    <3>1. turn[t].pc + 1 \in 1 .. 11
      BY <2>2
    <3> QED
      BY <1>1, <2>1, <3>1 DEF TurnRow
  <2>6. [of |-> t, role |-> Sessions!At(t)] \in Message
    BY <2>2 DEF Message
  <2>7. context' \in SUBSET Message
    BY <1>1, <1>6, <2>2, <2>6 DEF Sessions!Save, TurnRow
  <2>8. \A m \in context' : m \in turn[t].read \/ m.of = t
    BY <1>6 DEF Sessions!Save
  <2>9. UNCHANGED <<counter, life, events, traces, summary, clearing>>
    BY <1>6 DEF Sessions!Save
  <2>10. Quiet(t, next)
    BY <1>1, <2>2, <2>3, <2>4, <2>7, <2>8, <2>9 DEF Quiet
  <2> QED
    BY <2>5, <2>10, QuietIs
<1>7. ASSUME Sessions!Fail(t) PROVE SessionInv'
  <2>1. PICK idle : idle = Sessions!Idle
    OBVIOUS
  <2>2. PICK next : next = [idle EXCEPT !.pc = 11, !.user = turn[t].user, !.met = turn[t].met]
    OBVIOUS
  <2>3. turn[t].pc \in 2 .. 9
    BY <1>1, <1>7, PlanIs DEF Sessions!Fail
  <2>4. turn' = [turn EXCEPT ![t] = next]
    BY <1>1, <1>7, <2>1, <2>2, PlanIs DEF Sessions!Fail
  <2>5. idle \in TurnRow /\ idle.seq = None /\ idle.read = None
    BY <2>1 DEF Sessions!Idle, TurnRow
  <2>6. /\ next.pc = 11 /\ next.seq = None /\ next.read = None /\ next.met = turn[t].met
        /\ next \in TurnRow
    <3>1. /\ 11 \in 1 .. 11 /\ turn[t].user \in Users \cup {None}
          /\ turn[t].met \in {"nothing", "cut", "over"}
      BY <1>1 DEF TurnRow
    <3>2. next \in TurnRow
      BY <2>2, <2>5, <3>1 DEF TurnRow
    <3> QED
      BY <2>2, <2>5, <3>2 DEF TurnRow
  <2>7. UNCHANGED <<context, counter, life, events, traces, summary, clearing>>
    BY <1>7 DEF Sessions!Fail
  <2>8. Quiet(t, next)
    BY <1>1, <2>3, <2>4, <2>6, <2>7 DEF Quiet
  <2> QED
    BY <2>6, <2>8, QuietIs
<1> QED
  BY <1>3, <1>4, <1>5, <1>6, <1>7

\* A turn that leaves something goes on to the next place, and no deletion that
\* no turn ran into is under way.
LEMMA WritingTurn ==
  ASSUME SessionInv, NEW t \in Turns, NEW next \in TurnRow,
         turn' = [turn EXCEPT ![t] = next], UNCHANGED clearing,
         turn[t].pc \in 2 .. 9, next.pc = turn[t].pc + 1,
         next.met = turn[t].met, next.user = turn[t].user
  PROVE  /\ turn' \in [Turns -> TurnRow]
         /\ turn'[t] = next
         /\ \A u \in Turns \ {t} : turn'[u] = turn[u]
         /\ \A u \in Turns : turn'[u].met = turn[u].met /\ turn'[u].user = turn[u].user
         /\ \A u \in Turns : turn'[u].pc >= turn[u].pc
         /\ \A u \in Turns : Over(u)' <=> Over(u)
         /\ ~Over(t)
         /\ Undisturbed' <=> Undisturbed
         /\ Undisturbed => clearing.at = "done"
         /\ Sessions!Deleting' <=> Sessions!Deleting
         /\ Sessions!Deleting => turn[t].met # "nothing"
<1>1. /\ turn' \in [Turns -> TurnRow]
      /\ turn'[t] = next
      /\ \A u \in Turns \ {t} : turn'[u] = turn[u]
      /\ turn \in [Turns -> TurnRow]
  BY OneTurn DEF SessionInv, SessionTyped
<1>2. \A u \in Turns : turn'[u].met = turn[u].met /\ turn'[u].user = turn[u].user
  BY <1>1
<1>3. \A u \in Turns : turn'[u].pc >= turn[u].pc
  BY <1>1 DEF TurnRow
<1>4. ~Over(t)
  BY DEF SessionInv, Swept
<1>5. Undisturbed => ~Sessions!Deleting
  BY DEF SessionInv, Swept
<1>6. Undisturbed => clearing.at = "done"
  BY <1>5 DEF Undisturbed, Sessions!Deleting
<1>7. Sessions!Deleting => turn[t].met # "nothing"
  BY DEF SessionInv, Left
<1>8. Undisturbed' <=> Undisturbed
  BY <1>2 DEF Undisturbed
<1> QED
  BY <1>1, <1>2, <1>3, <1>4, <1>6, <1>7, <1>8 DEF Over, Sessions!Deleting

\* What the deletion has swept stays swept when a turn writes for itself.
LEMMA SweptWriting ==
  ASSUME SessionInv, NEW t \in Turns, NEW next \in TurnRow,
         turn' = [turn EXCEPT ![t] = next], UNCHANGED <<context, clearing>>,
         turn[t].pc \in 2 .. 9, next.pc = turn[t].pc + 1,
         next.met = turn[t].met, next.user = turn[t].user, next.read = turn[t].read,
         \A e \in events' : e \in events \/ e.of = t,
         summary' \in {summary, t},
         \A u \in traces' : u \in traces \/ u = t
  PROVE  Swept'
<1>1. /\ turn' \in [Turns -> TurnRow]
      /\ turn'[t] = next
      /\ \A u \in Turns \ {t} : turn'[u] = turn[u]
      /\ \A u \in Turns : turn'[u].met = turn[u].met /\ turn'[u].user = turn[u].user
      /\ \A u \in Turns : turn'[u].pc >= turn[u].pc
      /\ \A u \in Turns : Over(u)' <=> Over(u)
      /\ ~Over(t)
      /\ Undisturbed' <=> Undisturbed
      /\ Undisturbed => clearing.at = "done"
      /\ Sessions!Deleting' <=> Sessions!Deleting
  BY WritingTurn
<1>2. /\ turn \in [Turns -> TurnRow] /\ context \in SUBSET Message
      /\ \A e \in events : e.of \in Turns
      /\ traces \in SUBSET Turns /\ summary \in Turns \cup {None}
      /\ \A m \in context : m.of \in Turns
  BY DEF SessionInv, SessionTyped, Event, Message
<1>3. \A u \in Turns : turn'[u].read = turn[u].read
  BY <1>1
<1>4. clearing' = None => \A u \in Turns : turn'[u].met = "nothing"
  BY <1>1 DEF SessionInv, Swept
<1>5. \A u \in Turns : /\ turn'[u].pc = 1 => turn'[u].met = "nothing"
                       /\ Over(u)' => turn'[u].pc >= 10
  BY <1>1, <1>2 DEF SessionInv, Swept, TurnRow
<1>6. ASSUME Undisturbed
      PROVE  /\ ~Sessions!Deleting'
             /\ \A m \in context' : ~Over(m.of)'
             /\ \A u \in Turns : turn'[u].read # None => \A m \in turn'[u].read : ~Over(m.of)'
  <2>1. /\ ~Sessions!Deleting /\ clearing.at # "context"
        /\ \A m \in context : ~Over(m.of)
        /\ \A u \in Turns : turn[u].read # None =>
             \A m \in turn[u].read : ~Over(m.of) /\ m.of \in Turns
    BY <1>1, <1>2, <1>6 DEF SessionInv, Swept, Sessions!Deleting, TurnRow, Message
  <2> QED
    BY <1>1, <1>2, <1>3, <2>1
<1>7. ASSUME Undisturbed
      PROVE  /\ \A e \in events' : ~(Over(e.of)' /\ turn'[e.of].user = clearing.user)
             /\ ~(summary' # None /\ Over(summary)' /\ turn'[summary'].user = clearing.user)
             /\ \A u \in traces' : ~Over(u)'
  <2>1. /\ \A e \in events : ~(Over(e.of) /\ turn[e.of].user = clearing.user)
        /\ ~(summary # None /\ Over(summary) /\ turn[summary].user = clearing.user)
        /\ \A u \in traces : ~Over(u)
    BY <1>1, <1>7 DEF SessionInv, Swept
  <2>2. \A e \in events' : ~(Over(e.of)' /\ turn'[e.of].user = clearing.user)
    BY <1>1, <1>2, <2>1
  <2>3. ASSUME summary' # None, Over(summary)', turn'[summary'].user = clearing.user PROVE FALSE
    <3>1. CASE summary' = t
      BY <1>1, <2>3, <3>1 DEF Over
    <3>2. CASE summary' = summary
      BY <1>1, <1>2, <2>1, <2>3, <3>2 DEF Over
    <3> QED
      BY <3>1, <3>2
  <2>4. \A u \in traces' : ~Over(u)'
    BY <1>1, <1>2, <2>1
  <2> QED
    BY <2>2, <2>3, <2>4
<1> QED
  BY <1>1, <1>4, <1>5, <1>6, <1>7 DEF Swept

LEMMA NumberSteps ==
  ASSUME NoneIsNothing, SessionInv, NEW t \in Turns, Sessions!Number(t) PROVE SessionInv'
<1>1. turn \in [Turns -> TurnRow] /\ turn[t] \in TurnRow /\ turn[t].pc \in 1 .. 11
  BY DEF SessionInv, SessionTyped, TurnRow
<1>2. turn[t].pc \in {3, 7} /\ turn[t].pc \in 2 .. 9
  BY <1>1, PlanIs DEF Sessions!Number
<1>3. counter' = counter + 1 /\ counter \in Nat /\ life \in Nat
  BY DEF Sessions!Number, Sessions!NextNumber, SessionInv, SessionTyped
<1> PICK seq : seq = [life |-> life, n |-> counter + 1]
  OBVIOUS
<1>4. seq \in Seqs /\ seq.life = life /\ seq.n = counter + 1 /\ seq # None
  BY <1>3 DEF Seqs, NoneIsNothing
<1>5. turn' = [turn EXCEPT ![t] = [turn[t] EXCEPT !.pc = @ + 1, !.seq = seq]]
  BY <1>1, <1>3 DEF Sessions!Number, Sessions!MoveOn, Sessions!NextNumber, TurnRow
<1>6. PICK next : next = [turn[t] EXCEPT !.pc = @ + 1, !.seq = seq]
  OBVIOUS
<1>7. /\ next.pc = turn[t].pc + 1 /\ next.seq = seq /\ next.met = turn[t].met
      /\ next.user = turn[t].user /\ next.read = turn[t].read
  BY <1>1, <1>6 DEF TurnRow
<1>8. next \in TurnRow
  <2>1. turn[t].pc + 1 \in 1 .. 11
    BY <1>2
  <2> QED
    BY <1>1, <1>4, <1>6, <2>1 DEF TurnRow
<1>9. turn' = [turn EXCEPT ![t] = next]
  BY <1>5, <1>6
<1>10. UNCHANGED <<context, life, events, traces, summary, clearing>>
  BY DEF Sessions!Number
<1>11. /\ turn' \in [Turns -> TurnRow] /\ turn'[t] = next
       /\ \A u \in Turns \ {t} : turn'[u] = turn[u]
       /\ \A u \in Turns : turn'[u].pc >= turn[u].pc
  BY <1>2, <1>7, <1>8, <1>9, <1>10, WritingTurn
<1>12. SessionTyped'
  <2>1. \A u \in Turns : turn'[u].read # None => turn'[u].pc \in {2, 5}
    BY <1>2, <1>7, <1>11 DEF SessionInv, SessionTyped
  <2> QED
    BY <2>1, <1>3, <1>10, <1>11 DEF SessionInv, SessionTyped
<1>13. events \in SUBSET Event /\ (\A e \in events : e.seq \in Seqs /\ e.of \in Turns)
  BY DEF SessionInv, SessionTyped, Event
<1>14. \A s \in Seqs : Given(s) => Given(s)' /\ s # seq
  BY <1>3, <1>4, <1>10 DEF Given, Seqs
<1>15. Numbered'
  <2>1. \A e \in events : Given(e.seq)' /\ e.seq # seq
    BY <1>13, <1>14 DEF SessionInv, Numbered
  <2>2. \A u \in Turns : turn[u].seq # None => turn[u].seq \in Seqs
    BY <1>1 DEF TurnRow
  <2>3. \A u \in Turns : turn[u].seq # None => Given(turn[u].seq) /\ turn[u].seq # seq
    BY <1>14, <2>2 DEF SessionInv, Numbered
  <2>4. Given(seq)'
    BY <1>3, <1>4, <1>10 DEF Given
  <2>5. \A u \in Turns : turn'[u].seq # None <=> turn'[u].pc \in {4, 8}
    BY <1>2, <1>4, <1>7, <1>11 DEF SessionInv, Numbered
  <2>6. ASSUME NEW u \in Turns, turn'[u].seq # None
        PROVE  /\ Given(turn[u].seq)'
               /\ \A e \in events : e.seq # turn'[u].seq
               /\ \A v \in Turns : turn'[v].seq = turn'[u].seq => v = u
    <3>1. CASE u = t
      BY <1>4, <1>7, <1>11, <2>1, <2>3, <2>4, <3>1 DEF Given
    <3>2. CASE u # t
      <4>1. turn'[u] = turn[u] /\ turn[u].seq # None
        BY <1>11, <2>6, <3>2
      <4>2. Given(turn[u].seq)'
        BY <1>14, <2>2, <2>3, <4>1 DEF Given
      <4> QED
        BY <1>7, <1>11, <2>3, <4>1, <4>2 DEF SessionInv, Numbered
    <3> QED
      BY <3>1, <3>2
  <2>7. \A e, f \in events : e.seq = f.seq => e = f
    BY DEF SessionInv, Numbered
  <2> QED
    BY <1>10, <2>1, <2>5, <2>6, <2>7 DEF Numbered
<1>16. Ordered'
  <2>1. \A e \in events' : turn'[e.of].pc > IF e.role = "question" THEN 4 ELSE 8
    <3> SUFFICES ASSUME NEW e \in events
                 PROVE  turn'[e.of].pc > IF e.role = "question" THEN 4 ELSE 8
      BY <1>10
    <3>1. e.of \in Turns /\ turn'[e.of].pc >= turn[e.of].pc
      BY <1>11, <1>13
    <3>2. turn[e.of].pc \in Nat /\ turn'[e.of].pc \in Nat
      <4>1. \A row \in TurnRow : row.pc \in Nat
        BY DEF TurnRow
      <4>2. turn[e.of] \in TurnRow /\ turn'[e.of] \in TurnRow
        BY <1>1, <1>11, <3>1
      <4> QED
        BY <4>1, <4>2
    <3> QED
      BY <3>1, <3>2 DEF SessionInv, Ordered
  <2>2. ASSUME NEW e \in events', NEW u \in Turns, e.of = u, e.role = "question",
               turn'[u].pc = 8, e.seq.life = turn'[u].seq.life
        PROVE  e.seq.n < turn'[u].seq.n
    <3>1. CASE u = t
      <4>1. Given(e.seq) /\ e.seq \in Seqs
        BY <1>10, <1>13, <2>2 DEF SessionInv, Numbered
      <4> QED
        BY <1>3, <1>4, <1>7, <1>11, <2>2, <3>1, <4>1 DEF Given, Seqs
    <3>2. CASE u # t
      BY <1>10, <1>11, <2>2, <3>2 DEF SessionInv, Ordered
    <3> QED
      BY <3>1, <3>2
  <2>3. \A e, f \in events' :
          (e.of = f.of /\ e.role = "question" /\ f.role = "answer"
             /\ e.seq.life = f.seq.life) => e.seq.n < f.seq.n
    BY <1>10 DEF SessionInv, Ordered
  <2> QED
    BY <2>1, <2>2, <2>3 DEF Ordered
<1>17. Left'
  <2>1. /\ turn[t].pc \notin {10, 11} /\ turn[t].pc \notin {4, 6, 8} /\ turn[t].pc # 1
        /\ next.pc < 10 /\ next.pc \in {turn[t].pc, turn[t].pc + 1} /\ next.pc >= turn[t].pc
    BY <1>2, <1>7
  <2> QED
    BY <1>7, <1>8, <1>9, <1>10, <2>1, OnlyTurn
<1>18. Swept'
  <2>1. /\ \A e \in events' : e \in events \/ e.of = t
        /\ summary' \in {summary, t} /\ \A u \in traces' : u \in traces \/ u = t
        /\ UNCHANGED <<context, clearing>>
    BY <1>10
  <2> QED
    BY <1>2, <1>7, <1>8, <1>9, <2>1, SweptWriting
<1> QED
  BY <1>12, <1>15, <1>16, <1>17, <1>18 DEF SessionInv

LEMMA AppendSteps ==
  ASSUME NoneIsNothing, SessionInv, NEW t \in Turns, Sessions!AppendEvent(t) PROVE SessionInv'
<1>1. /\ turn \in [Turns -> TurnRow] /\ turn[t] \in TurnRow /\ turn[t].pc \in 1 .. 11
      /\ events \in SUBSET Event /\ traces \in SUBSET Turns
      /\ \A e \in events : e.of \in Turns
  BY DEF SessionInv, SessionTyped, TurnRow, Event
<1>2. /\ turn[t].pc \in {4, 8} /\ turn[t].pc \in 2 .. 9
      /\ Sessions!At(t) = IF turn[t].pc = 4 THEN "question" ELSE "answer"
  BY <1>1, PlanIs DEF Sessions!AppendEvent
<1>3. PICK new : new = [of |-> t, role |-> Sessions!At(t), seq |-> turn[t].seq]
  OBVIOUS
<1>4. turn[t].seq # None /\ turn[t].seq \in Seqs
  BY <1>1, <1>2 DEF SessionInv, Numbered, TurnRow
<1>5. /\ new \in Event /\ new.of = t /\ new.seq = turn[t].seq
      /\ new.role = IF turn[t].pc = 4 THEN "question" ELSE "answer"
  BY <1>2, <1>3, <1>4 DEF Event
<1>6. events' = events \cup {new}
  BY <1>3 DEF Sessions!AppendEvent
<1>7. PICK next : next = [turn[t] EXCEPT !.pc = @ + 1, !.seq = None]
  OBVIOUS
<1>8. turn' = [turn EXCEPT ![t] = next]
  BY <1>1, <1>7 DEF Sessions!AppendEvent, Sessions!MoveOn, TurnRow
<1>9. /\ next.pc = turn[t].pc + 1 /\ next.seq = None /\ next.met = turn[t].met
      /\ next.user = turn[t].user /\ next.read = turn[t].read
  BY <1>1, <1>7 DEF TurnRow
<1>10. next \in TurnRow
  <2>1. turn[t].pc + 1 \in 1 .. 11
    BY <1>2
  <2> QED
    BY <1>1, <1>7, <2>1 DEF TurnRow
<1>11. UNCHANGED <<context, counter, life, traces, summary, clearing>>
  BY DEF Sessions!AppendEvent
<1>12. /\ turn' \in [Turns -> TurnRow] /\ turn'[t] = next
       /\ \A u \in Turns \ {t} : turn'[u] = turn[u]
       /\ \A u \in Turns : turn'[u].met = turn[u].met
       /\ \A u \in Turns : turn'[u].pc >= turn[u].pc
       /\ Sessions!Deleting' <=> Sessions!Deleting
       /\ Sessions!Deleting => turn[t].met # "nothing"
  BY <1>2, <1>8, <1>9, <1>10, <1>11, WritingTurn
<1>13. SessionTyped'
  <2>1. \A u \in Turns : turn'[u].read # None => turn'[u].pc \in {2, 5}
    BY <1>2, <1>9, <1>12 DEF SessionInv, SessionTyped
  <2> QED
    BY <2>1, <1>1, <1>5, <1>6, <1>11, <1>12 DEF SessionInv, SessionTyped
<1>14. Numbered'
  <2>1. \A u \in Turns : turn'[u].seq # None <=> turn'[u].pc \in {4, 8}
    BY <1>2, <1>9, <1>12 DEF SessionInv, Numbered
  <2>2. \A e \in events' : Given(e.seq)'
    BY <1>2, <1>4, <1>5, <1>6, <1>11 DEF SessionInv, Numbered, Given
  <2>3. \A e \in events : e.seq # new.seq
    BY <1>4, <1>5 DEF SessionInv, Numbered
  <2>4. \A e, f \in events' : e.seq = f.seq => e = f
    BY <1>6, <2>3 DEF SessionInv, Numbered
  <2>5. ASSUME NEW u \in Turns, turn'[u].seq # None
        PROVE  /\ Given(turn[u].seq)'
               /\ \A e \in events' : e.seq # turn'[u].seq
               /\ \A v \in Turns : turn'[v].seq = turn'[u].seq => v = u
    <3>1. u # t /\ turn'[u] = turn[u]
      BY <1>9, <1>12, <2>5
    <3>2. Given(turn[u].seq)'
      BY <1>11, <2>5, <3>1 DEF SessionInv, Numbered, Given
    <3>3. new.seq # turn[u].seq
      BY <1>5, <2>5, <3>1 DEF SessionInv, Numbered
    <3> QED
      BY <1>6, <1>9, <1>12, <2>5, <3>1, <3>2, <3>3 DEF SessionInv, Numbered
  <2> QED
    BY <2>1, <2>2, <2>4, <2>5 DEF Numbered
<1>15. Ordered'
  <2>1. \A e \in events' : turn'[e.of].pc > IF e.role = "question" THEN 4 ELSE 8
    <3>1. ASSUME NEW e \in events PROVE turn'[e.of].pc > IF e.role = "question" THEN 4 ELSE 8
      <4>1. e.of \in Turns /\ turn'[e.of].pc >= turn[e.of].pc
        BY <1>1, <1>12
      <4>2. turn[e.of].pc \in Nat /\ turn'[e.of].pc \in Nat
        BY <1>1, <1>12, <4>1 DEF TurnRow
      <4> QED
        BY <4>1, <4>2 DEF SessionInv, Ordered
    <3>2. turn'[new.of].pc > IF new.role = "question" THEN 4 ELSE 8
      BY <1>2, <1>5, <1>9, <1>12
    <3> QED
      BY <1>6, <3>1, <3>2
  <2>2. ASSUME NEW e \in events', NEW u \in Turns, e.of = u, e.role = "question",
               turn'[u].pc = 8, e.seq.life = turn'[u].seq.life
        PROVE  e.seq.n < turn'[u].seq.n
    <3>1. u # t
      BY <1>2, <1>9, <1>12, <2>2
    <3> QED
      BY <1>5, <1>6, <1>12, <2>2, <3>1 DEF SessionInv, Ordered
  <2>3. ASSUME NEW e \in events', NEW f \in events', e.of = f.of, e.role = "question",
               f.role = "answer", e.seq.life = f.seq.life
        PROVE  e.seq.n < f.seq.n
    <3>1. CASE e \in events /\ f \in events
      BY <2>3, <3>1 DEF SessionInv, Ordered
    <3>2. CASE e = new
      <4>1. turn[t].pc = 4 /\ f # new
        BY <1>2, <1>5, <2>3, <3>2
      <4>2. f \in events /\ f.of = t
        BY <1>5, <1>6, <2>3, <3>2, <4>1
      <4>3. turn[t].pc > 8
        BY <2>3, <4>2 DEF SessionInv, Ordered
      <4> QED
        BY <4>1, <4>3
    <3>3. CASE e # new /\ f = new
      <4>1. turn[t].pc = 8 /\ e \in events /\ e.of = t
        BY <1>2, <1>5, <1>6, <2>3, <3>3
      <4> QED
        BY <1>5, <2>3, <3>3, <4>1 DEF SessionInv, Ordered
    <3> QED
      BY <1>6, <3>1, <3>2, <3>3
  <2> QED
    BY <2>1, <2>2, <2>3 DEF Ordered
<1>16. Left'
  <2>1. ASSUME NEW u \in traces' PROVE turn'[u].pc > 6
    <3>1. u \in Turns /\ turn[u].pc > 6 /\ turn'[u].pc >= turn[u].pc
      BY <1>1, <1>11, <1>12, <2>1 DEF SessionInv, Left
    <3>2. turn[u].pc \in Nat /\ turn'[u].pc \in Nat
      BY <1>1, <1>12, <3>1 DEF TurnRow
    <3> QED
      BY <3>1, <3>2
  <2>2. \A u \in Turns, role \in {"question", "answer"} :
          HasEvent(u, role)' <=> HasEvent(u, role) \/ (u = t /\ role = new.role)
    BY <1>5, <1>6 DEF HasEvent
  <2>3. ASSUME NEW u \in Turns, turn'[u].met = "nothing"
        PROVE  /\ turn'[u].pc \in 5 .. 10 => HasEvent(u, "question")'
               /\ turn'[u].pc \in 7 .. 10 => u \in traces'
               /\ turn'[u].pc \in 9 .. 10 => HasEvent(u, "answer")'
               /\ turn'[u].pc = 10 => summary' # None
               /\ HasEvent(u, "answer")' => u \in traces'
               /\ Sessions!Deleting' =>
                    turn'[u].pc \in {1, 11} /\ u \notin traces' /\ \A e \in events' : e.of # u
    <3>1. CASE u # t
      BY <1>5, <1>6, <1>11, <1>12, <2>2, <2>3, <3>1 DEF SessionInv, Left
    <3>2. CASE u = t
      <4>1. turn[t].met = "nothing" /\ ~Sessions!Deleting'
        BY <1>12, <2>3, <3>2
      <4>2. CASE turn[t].pc = 4
        <5>1. ~HasEvent(t, "answer")
          BY <4>2 DEF SessionInv, Ordered, HasEvent
        <5> QED
          BY <1>5, <1>9, <1>12, <2>2, <3>2, <4>1, <4>2, <5>1
      <4>3. CASE turn[t].pc = 8
        <5>1. HasEvent(t, "question") /\ t \in traces
          BY <4>1, <4>3 DEF SessionInv, Left
        <5> QED
          BY <1>5, <1>9, <1>11, <1>12, <2>2, <3>2, <4>1, <4>3, <5>1
      <4> QED
        BY <1>2, <4>2, <4>3
    <3> QED
      BY <3>1, <3>2
  <2> QED
    BY <2>1, <2>3 DEF Left
<1>17. Swept'
  <2>1. /\ \A e \in events' : e \in events \/ e.of = t
        /\ summary' \in {summary, t} /\ \A u \in traces' : u \in traces \/ u = t
        /\ UNCHANGED <<context, clearing>>
    BY <1>5, <1>6, <1>11
  <2> QED
    BY <1>2, <1>8, <1>9, <1>10, <2>1, SweptWriting
<1> QED
  BY <1>13, <1>14, <1>15, <1>16, <1>17 DEF SessionInv

\* A trace or a summary is written: 7 and 10 are the places that come after.
LEMMA TraceSteps ==
  ASSUME NoneIsNothing, SessionInv, NEW t \in Turns,
         Sessions!RecordTrace(t) \/ Sessions!UpdateSummary(t)
  PROVE  SessionInv'
<1>1. /\ turn \in [Turns -> TurnRow] /\ turn[t] \in TurnRow /\ turn[t].pc \in 1 .. 11
      /\ traces \in SUBSET Turns /\ \A e \in events : e.of \in Turns
  BY DEF SessionInv, SessionTyped, TurnRow, Event
<1>2. /\ turn[t].pc \in {6, 9} /\ turn[t].pc \in 2 .. 9
      /\ traces' = IF turn[t].pc = 6 THEN traces \cup {t} ELSE traces
      /\ summary' = IF turn[t].pc = 9 THEN t ELSE summary
  BY <1>1, PlanIs DEF Sessions!RecordTrace, Sessions!UpdateSummary
<1>3. UNCHANGED <<context, counter, life, events, clearing>>
  BY DEF Sessions!RecordTrace, Sessions!UpdateSummary
<1>4. PICK next : next = [turn[t] EXCEPT !.pc = @ + 1]
  OBVIOUS
<1>5. turn' = [turn EXCEPT ![t] = next]
  BY <1>1, <1>4 DEF Sessions!RecordTrace, Sessions!UpdateSummary, Sessions!MoveOn, TurnRow
<1>6. /\ next.pc = turn[t].pc + 1 /\ next.seq = turn[t].seq /\ next.met = turn[t].met
      /\ next.user = turn[t].user /\ next.read = turn[t].read
  BY <1>1, <1>4 DEF TurnRow
<1>7. next \in TurnRow
  <2>1. turn[t].pc + 1 \in 1 .. 11
    BY <1>2
  <2> QED
    BY <1>1, <1>4, <2>1 DEF TurnRow
<1>8. /\ turn' \in [Turns -> TurnRow] /\ turn'[t] = next
      /\ \A u \in Turns \ {t} : turn'[u] = turn[u]
      /\ \A u \in Turns : turn'[u].met = turn[u].met
      /\ \A u \in Turns : turn'[u].pc >= turn[u].pc
      /\ Sessions!Deleting' <=> Sessions!Deleting
      /\ Sessions!Deleting => turn[t].met # "nothing"
  BY <1>2, <1>3, <1>5, <1>6, <1>7, WritingTurn
<1>9. SessionTyped'
  <2>1. \A u \in Turns : turn'[u].read # None => turn'[u].pc \in {2, 5}
    BY <1>2, <1>6, <1>8 DEF SessionInv, SessionTyped
  <2> QED
    BY <2>1, <1>1, <1>2, <1>3, <1>8 DEF SessionInv, SessionTyped
<1>10. Numbered' /\ Ordered'
  <2>1. turn[t].seq = None
    BY <1>2 DEF SessionInv, Numbered
  <2>2. /\ next.pc >= turn[t].pc /\ (next.pc \in {4, 8} <=> next.seq # None)
        /\ next.seq # None => next.seq = turn[t].seq /\ next.pc = turn[t].pc
    BY <1>2, <1>6, <2>1
  <2> QED
    BY <1>3, <1>5, <1>7, <2>2, QuietSteps
<1>11. Left'
  <2>1. ASSUME NEW u \in traces' PROVE turn'[u].pc > 6
    <3>1. CASE u = t
      BY <1>2, <1>6, <1>8, <3>1
    <3>2. CASE u # t
      BY <1>1, <1>2, <1>8, <2>1, <3>2 DEF SessionInv, Left
    <3> QED
      BY <3>1, <3>2
  <2>2. \A u \in Turns, role \in {"question", "answer"} : HasEvent(u, role)' <=> HasEvent(u, role)
    BY <1>3 DEF HasEvent
  <2>3. ASSUME NEW u \in Turns, turn'[u].met = "nothing"
        PROVE  /\ turn'[u].pc \in 5 .. 10 => HasEvent(u, "question")'
               /\ turn'[u].pc \in 7 .. 10 => u \in traces'
               /\ turn'[u].pc \in 9 .. 10 => HasEvent(u, "answer")'
               /\ turn'[u].pc = 10 => summary' # None
               /\ HasEvent(u, "answer")' => u \in traces'
               /\ Sessions!Deleting' =>
                    turn'[u].pc \in {1, 11} /\ u \notin traces' /\ \A e \in events' : e.of # u
    <3>1. CASE u # t
      <4>1. summary # None => summary' # None
        BY <1>2 DEF NoneIsNothing
      <4>2. u \in traces' <=> u \in traces
        BY <1>2, <3>1
      <4> QED
        BY <1>3, <1>8, <2>2, <2>3, <3>1, <4>1, <4>2 DEF SessionInv, Left
    <3>2. CASE u = t
      <4>1. turn[t].met = "nothing" /\ ~Sessions!Deleting'
        BY <1>8, <2>3, <3>2
      <4>2. /\ HasEvent(t, "question")
            /\ HasEvent(t, "answer") => t \in traces
            /\ turn[t].pc = 9 => t \in traces /\ HasEvent(t, "answer")
        BY <1>2, <4>1 DEF SessionInv, Left
      <4>3. turn[t].pc = 9 => summary' # None
        BY <1>2 DEF NoneIsNothing
      <4> QED
        BY <1>2, <1>6, <1>8, <2>2, <3>2, <4>1, <4>2, <4>3
    <3> QED
      BY <3>1, <3>2
  <2> QED
    BY <2>1, <2>3 DEF Left
<1>12. Swept'
  <2>1. /\ \A e \in events' : e \in events \/ e.of = t
        /\ summary' \in {summary, t} /\ \A u \in traces' : u \in traces \/ u = t
        /\ UNCHANGED <<context, clearing>>
    BY <1>2, <1>3
  <2> QED
    BY <1>2, <1>5, <1>6, <1>7, <2>1, SweptWriting
<1> QED
  BY <1>9, <1>10, <1>11, <1>12 DEF SessionInv

\* One step of the deletion, to "next".
LEMMA ClearingIs ==
  ASSUME NoneIsNothing, SessionInv, Sessions!Deleting, NEW next \in ClearRow, clearing' = next,
         turn' = turn, events' \subseteq events, traces' \subseteq traces,
         summary' \in Turns \cup {None}, context' \in {context, {}},
         \/ counter' = counter /\ life' = life
         \/ counter' = 0 /\ life' = life + 1 /\ events' = events,
         next.at # "context" => context' = {} \/ clearing.at # "context",
         Undisturbed => \A e \in events' : Over(e.of) /\ turn[e.of].user = next.user =>
                          \/ next.at \in {"context", "list"}
                          \/ next.at = "events" /\ e \in next.events,
         Undisturbed => (summary' # None /\ Over(summary)' /\ turn'[summary'].user = next.user =>
                           next.at \in {"context", "list", "events", "summary"}),
         Undisturbed => \A t \in traces' : Over(t) =>
                          \/ next.at \in Places \ {"traces", "done"}
                          \/ next.at = "traces" /\ t \in next.traces
  PROVE  SessionInv'
<1>1. /\ turn \in [Turns -> TurnRow]
      /\ events \in SUBSET Event /\ traces \in SUBSET Turns
      /\ \A e \in events : e.of \in Turns /\ e.seq \in Seqs
      /\ counter \in Nat /\ life \in Nat
      /\ context \in SUBSET Message
      /\ \A t \in Turns : turn[t].read # None => turn[t].pc \in {2, 5}
      /\ \A t \in Turns : turn[t].seq # None => turn[t].seq \in Seqs
  BY DEF SessionInv, SessionTyped, Event, TurnRow
<1>2. SessionTyped'
  BY <1>1 DEF SessionTyped
<1>3. Numbered' /\ Ordered'
  <2>1. CASE counter' = counter /\ life' = life
    BY <2>1, DeletingSteps
  <2>2. CASE counter' = 0 /\ life' = life + 1 /\ events' = events
    <3>1. \A s \in Seqs : Given(s) => Given(s)'
      BY <1>1, <2>2 DEF Given, Seqs
    <3>2. \A e \in events : Given(e.seq)'
      BY <1>1, <3>1 DEF SessionInv, Numbered, Given
    <3>3. \A t \in Turns : turn[t].seq # None => Given(turn[t].seq)'
      BY <1>1, <2>2 DEF SessionInv, Numbered, Given, Seqs
    <3> QED
      BY <2>2, <3>2, <3>3 DEF SessionInv, Numbered, Ordered
  <2> QED
    BY <2>1, <2>2
<1>4. Left'
  <2>1. \A t \in Turns : turn[t].met = "nothing" =>
          turn[t].pc \in {1, 11} /\ t \notin traces /\ \A e \in events : e.of # t
    BY DEF SessionInv, Left
  <2>2. \A t \in Turns : turn[t].met = "nothing" => ~HasEvent(t, "answer")'
    BY <2>1 DEF HasEvent
  <2>3. \A t \in traces' : turn'[t].pc > 6
    BY DEF SessionInv, Left
  <2> QED
    BY <2>1, <2>2, <2>3 DEF Left
<1>5. Swept'
  <2>1. \A t \in Turns : Over(t)' <=> Over(t)
    BY DEF Over
  <2>2. clearing # None /\ (Undisturbed' => Undisturbed)
    BY DEF Undisturbed, Sessions!Deleting
  <2>3. \A t \in Turns : /\ turn'[t].pc = 1 => turn'[t].met = "nothing"
                         /\ Over(t)' => turn'[t].pc >= 10
    BY <2>1 DEF SessionInv, Swept
  <2>4. clearing' = None => \A t \in Turns : turn'[t].met = "nothing"
    BY DEF NoneIsNothing
  <2>5. Undisturbed => \A t \in Turns : turn[t].pc \in {1, 10, 11} /\ turn[t].read = None
    BY <1>1 DEF SessionInv, Swept
  <2>6. Undisturbed /\ next.at # "context" => \A m \in context' : ~Over(m.of)'
    BY <1>1, <2>1 DEF SessionInv, Swept, Message
  <2>7. Undisturbed => \A e \in events' : Over(e.of)' /\ turn'[e.of].user = next.user =>
                          \/ next.at \in {"context", "list"}
                          \/ next.at = "events" /\ e \in next.events
    BY <1>1, <2>1
  <2>8. Undisturbed => \A t \in traces' : Over(t)' =>
                          \/ next.at \in Places \ {"traces", "done"}
                          \/ next.at = "traces" /\ t \in next.traces
    BY <1>1, <2>1
  <2> QED
    BY <2>2, <2>3, <2>4, <2>5, <2>6, <2>7, <2>8 DEF Swept
<1> QED
  BY <1>2, <1>3, <1>4, <1>5 DEF SessionInv

\* What the invariant says of a deletion that no turn ran into.
LEMMA SweptSoFar ==
  ASSUME SessionInv, Undisturbed
  PROVE  /\ \A e \in events : Over(e.of) /\ turn[e.of].user = clearing.user =>
              \/ clearing.at \in {"context", "list"}
              \/ clearing.at = "events" /\ e \in clearing.events
         /\ summary # None /\ Over(summary) /\ turn[summary].user = clearing.user =>
              clearing.at \in {"context", "list", "events", "summary"}
         /\ \A t \in traces : Over(t) =>
              \/ clearing.at \in Places \ {"traces", "done"}
              \/ clearing.at = "traces" /\ t \in clearing.traces
BY DEF SessionInv, Swept

LEMMA ClearingSteps ==
  ASSUME NoneIsNothing, SessionInv, Sessions!Clearing PROVE SessionInv'
<1> USE DEF Places
<1>1. /\ turn' = turn /\ clearing # None /\ clearing \in ClearRow
      /\ events \in SUBSET Event /\ traces \in SUBSET Turns /\ summary \in Turns \cup {None}
  BY DEF Sessions!Clearing, Sessions!ClearContext, Sessions!ListEvents, Sessions!DeleteEvent,
         Sessions!DeleteSummary, Sessions!DeleteCounter, Sessions!ListTraces,
         Sessions!DeleteTrace, SessionInv, SessionTyped
<1>2. \A t \in Turns : Over(t)' <=> Over(t)
  BY <1>1 DEF Over
<1>3. clearing.at # "done" => Sessions!Deleting
  BY <1>1 DEF Sessions!Deleting
<1>4. CASE Sessions!ClearContext
  <2>1. PICK next : next = [clearing EXCEPT !.at = "list"]
    OBVIOUS
  <2>2. /\ next \in ClearRow /\ next.at = "list" /\ next.user = clearing.user
        /\ clearing.at = "context" /\ clearing' = next
    BY <1>1, <1>4, <2>1 DEF ClearRow, Sessions!ClearContext
  <2>3. context' = {} /\ UNCHANGED <<counter, life, events, traces, summary>>
    BY <1>4 DEF Sessions!ClearContext
  <2> QED
    BY <1>1, <1>2, <1>3, <2>2, <2>3, SweptSoFar, ClearingIs
<1>5. CASE Sessions!ListEvents
  <2>1. PICK listed : listed = {e \in events : turn[e.of].user = clearing.user}
    OBVIOUS
  <2>2. PICK next : next = [clearing EXCEPT !.at = "events", !.events = listed]
    OBVIOUS
  <2>3. /\ next \in ClearRow /\ next.at = "events" /\ next.user = clearing.user
        /\ next.events = listed /\ clearing.at = "list" /\ clearing' = next
    BY <1>1, <1>5, <2>1, <2>2 DEF ClearRow, Sessions!ListEvents
  <2>4. UNCHANGED <<context, counter, life, events, traces, summary>>
    BY <1>5 DEF Sessions!ListEvents
  <2> QED
    BY <1>1, <1>2, <1>3, <2>1, <2>3, <2>4, SweptSoFar, ClearingIs
<1>6. CASE Sessions!DeleteEvent
  <2>1. CASE clearing.events = {}
    <3>1. PICK next : next = [clearing EXCEPT !.at = "summary"]
      OBVIOUS
    <3>2. /\ next \in ClearRow /\ next.at = "summary" /\ next.user = clearing.user
          /\ clearing.at = "events" /\ clearing' = next
      BY <1>1, <1>6, <2>1, <3>1 DEF ClearRow, Sessions!DeleteEvent
    <3>3. UNCHANGED <<context, counter, life, events, traces, summary>>
      BY <1>6, <2>1 DEF Sessions!DeleteEvent
    <3> QED
      BY <1>1, <1>2, <1>3, <2>1, <3>2, <3>3, SweptSoFar, ClearingIs
  <2>2. CASE clearing.events # {}
    <3>1. PICK e \in clearing.events :
            events' = events \ {e} /\ clearing' = [clearing EXCEPT !.events = @ \ {e}]
      BY <1>6, <2>2 DEF Sessions!DeleteEvent
    <3>2. PICK next : next = [clearing EXCEPT !.events = @ \ {e}]
      OBVIOUS
    <3>3. /\ next \in ClearRow /\ next.at = clearing.at /\ next.user = clearing.user
          /\ next.events = clearing.events \ {e}
          /\ clearing.at = "events" /\ clearing' = next
      BY <1>1, <1>6, <3>1, <3>2 DEF ClearRow, Sessions!DeleteEvent
    <3>4. UNCHANGED <<context, counter, life, traces, summary>>
      BY <1>6 DEF Sessions!DeleteEvent
    <3> QED
      BY <1>1, <1>2, <1>3, <3>1, <3>3, <3>4, SweptSoFar, ClearingIs
  <2> QED
    BY <2>1, <2>2
<1>7. CASE Sessions!DeleteSummary
  <2>1. PICK next : next = [clearing EXCEPT !.at = "counter"]
    OBVIOUS
  <2>2. /\ next \in ClearRow /\ next.at = "counter" /\ next.user = clearing.user
        /\ clearing.at = "summary" /\ clearing' = next
    BY <1>1, <1>7, <2>1 DEF ClearRow, Sessions!DeleteSummary
  <2>3. /\ UNCHANGED <<context, counter, life, events, traces>>
        /\ summary' = IF summary # None /\ turn[summary].user = clearing.user
                      THEN None ELSE summary
    BY <1>7 DEF Sessions!DeleteSummary
  <2> QED
    BY <1>1, <1>2, <1>3, <2>2, <2>3, SweptSoFar, ClearingIs
<1>8. CASE Sessions!DeleteCounter
  <2>1. PICK next : next = [clearing EXCEPT !.at = "find"]
    OBVIOUS
  <2>2. /\ next \in ClearRow /\ next.at = "find" /\ next.user = clearing.user
        /\ clearing.at = "counter" /\ clearing' = next
    BY <1>1, <1>8, <2>1 DEF ClearRow, Sessions!DeleteCounter
  <2>3. UNCHANGED <<context, events, traces, summary>> /\ counter' = 0 /\ life' = life + 1
    BY <1>8 DEF Sessions!DeleteCounter
  <2> QED
    BY <1>1, <1>2, <1>3, <2>2, <2>3, SweptSoFar, ClearingIs
<1>9. CASE Sessions!ListTraces
  <2>1. PICK next : next = [clearing EXCEPT !.at = "traces", !.traces = traces]
    OBVIOUS
  <2>2. /\ next \in ClearRow /\ next.at = "traces" /\ next.user = clearing.user
        /\ next.traces = traces /\ clearing.at = "find" /\ clearing' = next
    BY <1>1, <1>9, <2>1 DEF ClearRow, Sessions!ListTraces
  <2>3. UNCHANGED <<context, counter, life, events, traces, summary>>
    BY <1>9 DEF Sessions!ListTraces
  <2> QED
    BY <1>1, <1>2, <1>3, <2>2, <2>3, SweptSoFar, ClearingIs
<1>10. CASE Sessions!DeleteTrace
  <2>1. CASE clearing.traces = {}
    <3>1. PICK next : next = [clearing EXCEPT !.at = "done"]
      OBVIOUS
    <3>2. /\ next \in ClearRow /\ next.at = "done" /\ next.user = clearing.user
          /\ clearing.at = "traces" /\ clearing' = next
      BY <1>1, <1>10, <2>1, <3>1 DEF ClearRow, Sessions!DeleteTrace
    <3>3. UNCHANGED <<context, counter, life, events, traces, summary>>
      BY <1>10, <2>1 DEF Sessions!DeleteTrace
    <3> QED
      BY <1>1, <1>2, <1>3, <2>1, <3>2, <3>3, SweptSoFar, ClearingIs
  <2>2. CASE clearing.traces # {}
    <3>1. PICK t \in clearing.traces :
            traces' = traces \ {t} /\ clearing' = [clearing EXCEPT !.traces = @ \ {t}]
      BY <1>10, <2>2 DEF Sessions!DeleteTrace
    <3>2. PICK next : next = [clearing EXCEPT !.traces = @ \ {t}]
      OBVIOUS
    <3>3. /\ next \in ClearRow /\ next.at = clearing.at /\ next.user = clearing.user
          /\ next.traces = clearing.traces \ {t}
          /\ clearing.at = "traces" /\ clearing' = next
      BY <1>1, <1>10, <3>1, <3>2 DEF ClearRow, Sessions!DeleteTrace
    <3>4. UNCHANGED <<context, counter, life, events, summary>>
      BY <1>10 DEF Sessions!DeleteTrace
    <3> QED
      BY <1>1, <1>2, <1>3, <3>1, <3>3, <3>4, SweptSoFar, ClearingIs
  <2> QED
    BY <2>1, <2>2
<1> QED
  BY <1>4, <1>5, <1>6, <1>7, <1>8, <1>9, <1>10 DEF Sessions!Clearing

\* The deletion begins: the turns that ended are over, the others are cut.
LEMMA ClearBegins ==
  ASSUME NoneIsNothing, SessionInv, NEW u \in Users, Sessions!Clear(u) PROVE SessionInv'
<1>1. /\ turn \in [Turns -> TurnRow] /\ clearing = None
      /\ \A t \in Turns : turn[t].pc \in 1 .. 11
      /\ \A e \in events : e.of \in Turns
      /\ traces \in SUBSET Turns
  BY DEF Sessions!Clear, SessionInv, SessionTyped, TurnRow, Event
<1>2. UNCHANGED <<context, counter, life, events, traces, summary>>
  BY DEF Sessions!Clear
<1>3. PICK next : next = [at |-> "context", user |-> u, events |-> {}, traces |-> {}]
  OBVIOUS
<1>4. next \in ClearRow /\ next.at = "context" /\ clearing' = next /\ clearing' # None
  BY <1>3 DEF ClearRow, Places, Sessions!Clear, NoneIsNothing
<1>5. \A t \in Turns : turn[t].met = "nothing"
  BY <1>1 DEF SessionInv, Swept
<1> DEFINE met(t) == IF Sessions!Ended(t) THEN "over"
                     ELSE IF Sessions!At(t) = "new" THEN turn[t].met ELSE "cut"
<1>6. turn' = [t \in Turns |-> [turn[t] EXCEPT !.met = met(t)]]
  BY DEF Sessions!Clear
<1>7. \A t \in Turns : met(t) = IF turn[t].pc >= 10 THEN "over"
                                ELSE IF turn[t].pc = 1 THEN "nothing" ELSE "cut"
  BY <1>1, <1>5, PlanIs
<1> HIDE DEF met
<1>8. ASSUME NEW t \in Turns
      PROVE  /\ turn'[t] \in TurnRow
             /\ turn'[t].pc = turn[t].pc /\ turn'[t].user = turn[t].user
             /\ turn'[t].seq = turn[t].seq /\ turn'[t].read = turn[t].read
             /\ turn'[t].met = met(t)
  <2>1. PICK row : row = [turn[t] EXCEPT !.met = met(t)]
    OBVIOUS
  <2>2. turn'[t] = row /\ turn[t] \in TurnRow /\ met(t) \in {"nothing", "cut", "over"}
    BY <1>1, <1>6, <1>7, <2>1
  <2>3. row \in TurnRow
    BY <2>1, <2>2 DEF TurnRow
  <2> QED
    BY <2>1, <2>2, <2>3 DEF TurnRow
<1>9. turn' \in [Turns -> TurnRow]
  BY <1>6, <1>8
<1>10. SessionTyped'
  BY <1>2, <1>4, <1>8, <1>9 DEF SessionInv, SessionTyped
<1>11. Numbered'
  <2>1. \A t \in Turns : turn'[t].seq # None => Given(turn[t].seq)'
    BY <1>2, <1>8 DEF SessionInv, Numbered, Given
  <2> QED
    BY <1>2, <1>8, <2>1 DEF SessionInv, Numbered, Given
<1>12. Ordered'
  BY <1>1, <1>2, <1>8 DEF SessionInv, Ordered
<1>13. Left'
  <2>1. \A t \in traces' : turn'[t].pc > 6
    BY <1>1, <1>2, <1>8 DEF SessionInv, Left
  <2>2. ASSUME NEW t \in Turns, turn'[t].met = "nothing"
        PROVE  turn'[t].pc = 1 /\ t \notin traces' /\ \A e \in events' : e.of # t
    <3>1. turn[t].pc = 1
      BY <1>7, <1>8, <2>2
    <3>2. t \notin traces
      BY <3>1 DEF SessionInv, Left
    <3>3. \A e \in events : e.of # t
      BY <3>1 DEF SessionInv, Ordered
    <3> QED
      BY <1>2, <1>8, <3>1, <3>2, <3>3
  <2>3. \A t \in Turns : turn'[t].met = "nothing" => ~HasEvent(t, "answer")'
    BY <2>2 DEF HasEvent
  <2> QED
    BY <2>1, <2>2, <2>3 DEF Left
<1>14. Swept'
  <2>1. \A t \in Turns : /\ turn'[t].pc = 1 => turn'[t].met = "nothing"
                         /\ Over(t)' => turn'[t].pc >= 10
    BY <1>1, <1>7, <1>8 DEF Over
  <2>2. Undisturbed' => \A t \in Turns : turn'[t].pc \in {1, 10, 11}
    <3> SUFFICES ASSUME Undisturbed', NEW t \in Turns PROVE turn'[t].pc \in {1, 10, 11}
      OBVIOUS
    <3>1. met(t) # "cut" /\ turn[t].pc \in 1 .. 11
      BY <1>1, <1>8 DEF Undisturbed
    <3> QED
      BY <1>7, <1>8, <3>1
  <2>3. clearing'.at = "context"
    BY <1>4
  <2> QED
    BY <1>4, <2>1, <2>2, <2>3 DEF Swept, Places
<1> QED
  BY <1>10, <1>11, <1>12, <1>13, <1>14 DEF SessionInv

LEMMA ExpireSteps ==
  ASSUME SessionInv, Sessions!Expire PROVE SessionInv'
<1>1. context' = {} /\ UNCHANGED <<counter, life, events, traces, summary, turn, clearing>>
  BY DEF Sessions!Expire
<1>2. SessionTyped'
  BY <1>1 DEF SessionInv, SessionTyped
<1>3. Numbered' /\ Ordered'
  BY <1>1, DeletingSteps
<1>4. Left'
  BY <1>1 DEF SessionInv, Left, HasEvent, Sessions!Deleting
<1>5. Swept'
  BY <1>1 DEF SessionInv, Swept, Over, Undisturbed, Sessions!Deleting
<1> QED
  BY <1>2, <1>3, <1>4, <1>5 DEF SessionInv

LEMMA SessionBegins == ASSUME NoneIsNothing PROVE Sessions!Init => SessionInv
<1> SUFFICES ASSUME Sessions!Init PROVE SessionInv
  OBVIOUS
<1>1. \A t \in Turns : /\ turn[t] \in TurnRow /\ turn[t].pc = 1 /\ turn[t].user = None
                       /\ turn[t].read = None /\ turn[t].seq = None /\ turn[t].met = "nothing"
  BY DEF Sessions!Init, Sessions!Idle, TurnRow
<1>2. /\ context = {} /\ counter = 0 /\ life = 1 /\ events = {} /\ traces = {}
      /\ summary = None /\ clearing = None /\ turn \in [Turns -> TurnRow]
  BY <1>1 DEF Sessions!Init
<1> QED
  BY <1>1, <1>2 DEF SessionInv, SessionTyped, Numbered, Ordered, Left, Swept, HasEvent, Over,
                    Undisturbed, Sessions!Deleting

LEMMA SessionSteps ==
  ASSUME NoneIsNothing PROVE SessionInv /\ [Sessions!Next]_Sessions!vars => SessionInv'
<1> SUFFICES ASSUME SessionInv, [Sessions!Next]_Sessions!vars PROVE SessionInv'
  OBVIOUS
<1>1. CASE UNCHANGED Sessions!vars
  BY <1>1 DEF Sessions!vars, SessionInv, SessionTyped, Numbered, Ordered, Left, Swept, HasEvent,
              Given, Over, Undisturbed, Sessions!Deleting
<1>2. ASSUME NEW t \in Turns, Sessions!Step(t) PROVE SessionInv'
  BY <1>2, QuietTurn, NumberSteps, AppendSteps, TraceSteps DEF Sessions!Step
<1> QED
  BY <1>1, <1>2, ClearBegins, ClearingSteps, ExpireSteps DEF Sessions!Next

LEMMA SessionSound == ASSUME NoneIsNothing, SessionInv PROVE Sessions!TurnsAreRecorded
<1>1. /\ turn \in [Turns -> TurnRow] /\ \A t \in Turns : turn[t].pc \in 1 .. 11
      /\ \A e \in events : e.of \in Turns /\ e.role \in {"question", "answer"}
      /\ traces \in SUBSET Turns /\ \A m \in context : m.of \in Turns
  BY DEF SessionInv, SessionTyped, TurnRow, Event, Message
<1>2. \A t \in Turns, role \in {"question", "answer"} :
        Sessions!Event(t, role) # {} <=> HasEvent(t, role)
  BY DEF Sessions!Event, HasEvent
<1>3. \A t \in Turns : Sessions!At(t) = "returned" <=> turn[t].pc = 10
  BY <1>1, PlanIs
<1>4. Sessions!Recorded
  <2>1. \A e, f \in events :
          /\ e # f => e.seq # f.seq
          /\ (e.of = f.of /\ e.role = "question" /\ f.role = "answer"
                /\ e.seq.life = f.seq.life) => e.seq.n < f.seq.n
    BY DEF SessionInv, Numbered, Ordered
  <2> QED
    BY <1>2, <1>3, <2>1 DEF SessionInv, Left, Sessions!Recorded
<1>5. Sessions!Deleted
  <2> SUFFICES ASSUME clearing # None, clearing.at = "done",
                      \A t \in Turns : turn[t].met # "cut",
                      NEW t \in Turns, turn[t].met = "over"
               PROVE  /\ \A m \in context : m.of # t
                      /\ t \notin traces
                      /\ turn[t].user = clearing.user =>
                           /\ summary # t
                           /\ \A role \in {"question", "answer"} : Sessions!Event(t, role) = {}
    BY DEF Sessions!Deleted
  <2>1. Undisturbed /\ Over(t)
    BY DEF Undisturbed, Over
  <2>2. \A m \in context : m.of # t
    BY <2>1 DEF SessionInv, Swept
  <2>3. t \notin traces
    BY <2>1, SweptSoFar DEF Places
  <2>4. ASSUME turn[t].user = clearing.user
        PROVE  summary # t /\ \A role \in {"question", "answer"} : Sessions!Event(t, role) = {}
    <3>1. summary # t
      BY <2>1, <2>4, SweptSoFar DEF NoneIsNothing
    <3>2. \A e \in events : e.of # t
      BY <2>1, <2>4, SweptSoFar
    <3> QED
      BY <3>1, <3>2 DEF Sessions!Event
  <2> QED
    BY <2>2, <2>3, <2>4
<1> QED
  BY <1>4, <1>5 DEF Sessions!TurnsAreRecorded

-----------------------------------------------------------------------------
(* The memories (Memory).                                                   *)
Apart ==
  Documents \cap Items = {} /\ Documents \cap Notes = {} /\ Items \cap Notes = {}

ItemRow == [status : {"active", "stale", "archived"}, refs : SUBSET Documents, uses : Nat]
Found == [of : Items, row : ItemRow]
Publishing == [at : {"verify"}, todo : SUBSET Documents, refs : SUBSET Documents]
Archiving == [at : {"archive"}, row : ItemRow]
ReaderRow ==
  [at : {"idle", "find", "verify", "stale", "use", "built"}, rows : SUBSET Found,
   notes : SUBSET Notes, kept : SUBSET Found, evidence : SUBSET Documents,
   todo : SUBSET Found, gone : SUBSET (Documents \cup Items \cup Notes)]

\* A row of a note has a status and some revision.
IsNote(row) ==
  row \in [status : {"active", "superseded", "deleted", "erased"}, revision : {row.revision}]

NoneIsNoRow ==
  /\ None \notin ItemRow \cup Publishing \cup Archiving
  /\ \A row : IsNote(row) => row # None
  /\ \A rows, revision : [at |-> "supersede", rows |-> rows, revision |-> revision] # None
  /\ \A row : [at |-> "forget", row |-> row] # None

\* An item that was withdrawn is not live, and who publishes has no row yet.
ItemsHold ==
  /\ active \subseteq Documents /\ active \cap past = {}
  /\ past \subseteq Documents \cup Items \cup Notes
  /\ item \in [Items -> ItemRow \cup {None}]
  /\ author \in [Items -> Publishing \cup Archiving \cup {None}]
  /\ \A i \in Items :
       /\ i \in past => item[i] # None /\ item[i].status # "active"
       /\ author[i] # None /\ author[i].at = "verify" => item[i] = None

\* So with the notes, whose rows a writer may hold.
NotesHold ==
  /\ DOMAIN note = Notes /\ DOMAIN writer = Notes
  /\ \A m \in Notes :
       /\ note[m] # None => IsNote(note[m])
       /\ m \in past => note[m] # None /\ note[m].status # "active"
       /\ writer[m] # None => writer[m].at \in {"supersede", "forget"}
       /\ writer[m] # None /\ writer[m].at = "supersede" =>
            /\ writer[m] \in [at : {"supersede"}, rows : {writer[m].rows},
                              revision : {writer[m].revision}]
            /\ note[m] = None
            /\ \A old \in writer[m].rows :
                 old.of \in Notes /\ note[old.of] # None /\ IsNote(old.row)
       /\ writer[m] # None /\ writer[m].at = "forget" => note[m] # None /\ IsNote(writer[m].row)

\* What a reader has found was not withdrawn when it began.
Fresh(row) ==
  /\ row.gone \subseteq past
  /\ row.at = "idle" => row.rows = {} /\ row.kept = {} /\ row.todo = {} /\ row.evidence = {}
  /\ row.gone \cap (row.notes \cup row.evidence) = {}
  /\ \A found \in row.rows \cup row.kept \cup row.todo :
       found.of \notin row.gone /\ item[found.of] # None
  /\ row.at = "built" => row.evidence \subseteq UNION {k.row.refs : k \in row.kept}

ReadersHold ==
  /\ reader \in [Readers -> ReaderRow]
  /\ \A r \in Readers : Fresh(reader[r])

MemoryInv == ItemsHold /\ NotesHold /\ ReadersHold

\* More is withdrawn, and no item loses its row.
Goes(pasts, items) ==
  /\ past \subseteq pasts /\ pasts \subseteq Documents \cup Items \cup Notes
  /\ \A i \in Items : item[i] # None => items[i] # None

LEMMA FreshStays ==
  ASSUME NEW row \in ReaderRow, Fresh(row), Goes(past', item') PROVE Fresh(row)'
<1>1. \A found \in row.rows \cup row.kept \cup row.todo : found.of \in Items
  BY DEF ReaderRow, Found
<1> QED
  BY <1>1 DEF Fresh, Goes

LEMMA ReadersStay ==
  ASSUME ReadersHold, Goes(past', item'), reader' = reader PROVE ReadersHold'
BY FreshStays DEF ReadersHold

LEMMA ReaderMoves ==
  ASSUME ReadersHold, Goes(past', item'), NEW r \in Readers, NEW next \in ReaderRow,
         reader' = [reader EXCEPT ![r] = next], Fresh(next)'
  PROVE  ReadersHold'
<1>1. /\ reader' \in [Readers -> ReaderRow] /\ reader'[r] = next
      /\ \A s \in Readers \ {r} : reader'[s] = reader[s]
  BY DEF ReadersHold
<1>2. ASSUME NEW s \in Readers PROVE Fresh(reader[s])'
  <2>1. PICK row \in ReaderRow : row = reader[s] /\ Fresh(row)
    BY DEF ReadersHold
  <2>2. CASE s = r
    BY <1>1, <2>2 DEF Fresh
  <2>3. CASE s # r
    <3>1. Fresh(row)'
      BY <2>1, FreshStays
    <3> QED
      BY <1>1, <2>1, <2>3, <3>1 DEF Fresh
  <2> QED
    BY <2>2, <2>3
<1> QED
  BY <1>1, <1>2 DEF ReadersHold

LEMMA SameItems ==
  ASSUME ItemsHold, UNCHANGED <<active, item, author>>, past \subseteq past',
         past' \subseteq past \cup Notes, Apart
  PROVE  ItemsHold' /\ Goes(past', item')
BY DEF ItemsHold, Goes, Apart

LEMMA SameNotes ==
  ASSUME NotesHold, UNCHANGED <<note, writer>>, past' \subseteq past \cup Documents \cup Items, Apart
  PROVE  NotesHold'
BY DEF NotesHold, Apart

LEMMA OrganizationSteps ==
  ASSUME Apart, NoneIsNoRow, MemoryInv, Memories!Organization PROVE MemoryInv'
<1>1. UNCHANGED <<note, writer, reader>>
  BY DEF Memories!Organization, Memories!Withdraw, Memories!BeginPublish, Memories!VerifyRef,
         Memories!SaveItem, Memories!ReadToArchive, Memories!Archive
<1>2. ItemsHold /\ NotesHold /\ ReadersHold /\ past \subseteq Documents \cup Items \cup Notes
  BY DEF MemoryInv, ItemsHold
<1>3. ASSUME ItemsHold', Goes(past', item'), past' \subseteq past \cup Documents \cup Items
      PROVE  MemoryInv'
  BY <1>1, <1>2, <1>3, SameNotes, ReadersStay DEF MemoryInv
<1>4. ASSUME NEW d \in Documents, Memories!Withdraw(d) PROVE MemoryInv'
  <2>1. ItemsHold'
    BY <1>2, <1>4 DEF Memories!Withdraw, ItemsHold, Apart
  <2>2. Goes(past', item') /\ past' \subseteq past \cup Documents \cup Items
    BY <1>2, <1>4 DEF Memories!Withdraw, Goes
  <2> QED
    BY <1>3, <2>1, <2>2
<1>5. ASSUME NEW i \in Items, NEW next \in Publishing \cup Archiving \cup {None},
             author' = [author EXCEPT ![i] = next], UNCHANGED <<active, past, item>>,
             next # None /\ next.at = "verify" => item[i] = None
      PROVE  MemoryInv'
  <2>1. ItemsHold'
    BY <1>2, <1>5 DEF ItemsHold
  <2> QED
    BY <1>2, <1>3, <1>5, <2>1 DEF Goes
<1>6. ASSUME NEW i \in Items, NEW refs \in SUBSET Documents, Memories!BeginPublish(i, refs)
      PROVE  MemoryInv'
  <2>1. PICK next : next = [at |-> "verify", todo |-> refs, refs |-> {}]
    OBVIOUS
  <2>2. next \in Publishing
    BY <2>1 DEF Publishing
  <2> QED
    BY <1>5, <1>6, <2>1, <2>2 DEF Memories!BeginPublish
<1>7. ASSUME NEW i \in Items, NEW d \in Documents, Memories!VerifyRef(i, d) PROVE MemoryInv'
  <2>1. PICK next : next = [author[i] EXCEPT !.todo = @ \ {d}, !.refs = @ \cup ({d} \cap active)]
    OBVIOUS
  <2>2. author[i] \in Publishing /\ item[i] = None
    BY <1>2, <1>7 DEF Memories!VerifyRef, ItemsHold, Publishing, Archiving
  <2>3. next \in Publishing
    BY <2>1, <2>2 DEF Publishing
  <2>4. author' = [author EXCEPT ![i] = next]
    BY <1>7, <2>1 DEF Memories!VerifyRef
  <2> QED
    BY <1>5, <1>7, <2>2, <2>3, <2>4 DEF Memories!VerifyRef
<1>8. ASSUME NEW i \in Items, Memories!SaveItem(i) PROVE MemoryInv'
  <2>1. author[i] \in Publishing /\ item[i] = None /\ i \notin past
    BY <1>2, <1>8 DEF Memories!SaveItem, ItemsHold, Publishing, Archiving
  <2>2. CASE author[i].refs = {}
    BY <1>5, <1>8, <2>2 DEF Memories!SaveItem
  <2>3. CASE author[i].refs # {}
    <3>1. PICK row : row = [status |-> "active", refs |-> author[i].refs, uses |-> 0]
      OBVIOUS
    <3>2. row \in ItemRow /\ row # None
      BY <2>1, <3>1 DEF ItemRow, Publishing, NoneIsNoRow
    <3>3. item' = [item EXCEPT ![i] = row] /\ author' = [author EXCEPT ![i] = None]
      BY <1>8, <2>3, <3>1 DEF Memories!SaveItem
    <3>4. UNCHANGED <<active, past>>
      BY <1>8 DEF Memories!SaveItem
    <3>5. ItemsHold'
      BY <1>2, <2>1, <3>2, <3>3, <3>4 DEF ItemsHold
    <3>6. Goes(past', item')
      BY <1>2, <3>2, <3>3, <3>4 DEF Goes, ItemsHold
    <3> QED
      BY <1>3, <3>4, <3>5, <3>6
  <2> QED
    BY <2>2, <2>3
<1>9. ASSUME NEW i \in Items, Memories!ReadToArchive(i) PROVE MemoryInv'
  <2>1. PICK next : next = [at |-> "archive", row |-> item[i]]
    OBVIOUS
  <2>2. next \in Archiving
    BY <1>2, <1>9, <2>1 DEF Archiving, ItemsHold, Memories!ReadToArchive
  <2> QED
    BY <1>5, <1>9, <2>1, <2>2 DEF Memories!ReadToArchive
<1>10. ASSUME NEW i \in Items, Memories!Archive(i) PROVE MemoryInv'
  <2>1. author[i] \in Archiving
    BY <1>2, <1>10 DEF Memories!Archive, ItemsHold, Publishing, Archiving
  <2>2. PICK row : row = [author[i].row EXCEPT !.status = "archived"]
    OBVIOUS
  <2>3. row \in ItemRow /\ row # None /\ row.status = "archived"
    <3>1. author[i].row \in ItemRow
      BY <2>1 DEF Archiving
    <3> QED
      BY <2>2, <3>1 DEF ItemRow, NoneIsNoRow
  <2>4. /\ item' = [item EXCEPT ![i] = row] /\ author' = [author EXCEPT ![i] = None]
        /\ past' = past \cup {i} /\ UNCHANGED active
    BY <1>10, <2>2 DEF Memories!Archive
  <2>5. ItemsHold'
    BY <1>2, <2>3, <2>4 DEF ItemsHold, Apart
  <2>6. Goes(past', item')
    BY <1>2, <2>3, <2>4 DEF Goes, ItemsHold
  <2> QED
    BY <1>3, <2>4, <2>5, <2>6
<1> QED
  BY <1>4, <1>6, <1>7, <1>8, <1>9, <1>10 DEF Memories!Organization

LEMMA PersonalSteps ==
  ASSUME Apart, NoneIsNoRow, MemoryInv, Memories!Personal PROVE MemoryInv'
<1>1. UNCHANGED <<active, item, author, reader>>
  BY DEF Memories!Personal, Memories!BeginRemember, Memories!Supersede, Memories!SaveNote,
         Memories!ReadToForget, Memories!Forget, Memories!Prune
<1>2. ItemsHold /\ NotesHold /\ ReadersHold
  BY DEF MemoryInv
<1>3. ASSUME NotesHold', past \subseteq past', past' \subseteq past \cup Notes PROVE MemoryInv'
  <2>1. ItemsHold' /\ Goes(past', item')
    BY <1>1, <1>2, <1>3, SameItems
  <2> QED
    BY <1>1, <1>2, <1>3, <2>1, ReadersStay DEF MemoryInv
<1>4. ASSUME NEW m \in Notes, NEW next, writer' = [writer EXCEPT ![m] = next],
             UNCHANGED <<note, past>>,
             next # None => next.at \in {"supersede", "forget"},
             next # None /\ next.at = "supersede" =>
               /\ next \in [at : {"supersede"}, rows : {next.rows}, revision : {next.revision}]
               /\ note[m] = None
               /\ \A old \in next.rows :
                    old.of \in Notes /\ note[old.of] # None /\ IsNote(old.row),
             next # None /\ next.at = "forget" => note[m] # None /\ IsNote(next.row)
      PROVE  MemoryInv'
  <2>1. NotesHold'
    BY <1>2, <1>4 DEF NotesHold
  <2> QED
    BY <1>3, <1>4, <2>1
<1>5. ASSUME NEW m \in Notes, Memories!BeginRemember(m) PROVE MemoryInv'
  <2>1. PICK rows, revision :
          /\ writer' = [writer EXCEPT ![m] = [at |-> "supersede", rows |-> rows, revision |-> revision]]
          /\ rows = {[of |-> k, row |-> note[k]] : k \in {l \in Notes : Memories!Live(note[l])}}
    BY <1>5 DEF Memories!BeginRemember
  <2>2. PICK next : next = [at |-> "supersede", rows |-> rows, revision |-> revision]
    OBVIOUS
  <2>3. next \in [at : {"supersede"}, rows : {next.rows}, revision : {next.revision}]
    BY <2>2
  <2>4. \A old \in rows : old.of \in Notes /\ note[old.of] # None /\ IsNote(old.row)
    BY <1>2, <2>1 DEF NotesHold, Memories!Live
  <2>5. next.at = "supersede" /\ next.rows = rows
    BY <2>2
  <2>6. note[m] = None /\ UNCHANGED <<note, past>> /\ writer' = [writer EXCEPT ![m] = next]
    BY <1>5, <2>1, <2>2 DEF Memories!BeginRemember
  <2> QED
    BY <1>4, <2>3, <2>4, <2>5, <2>6
<1>6. ASSUME NEW m \in Notes, Memories!Supersede(m) PROVE MemoryInv'
  <2>1. /\ writer[m] # None /\ writer[m].at = "supersede"
        /\ writer[m] \in [at : {"supersede"}, rows : {writer[m].rows},
                          revision : {writer[m].revision}]
        /\ note[m] = None
        /\ \A old \in writer[m].rows : old.of \in Notes /\ note[old.of] # None /\ IsNote(old.row)
    BY <1>2, <1>6 DEF Memories!Supersede, NotesHold
  <2>2. PICK old \in writer[m].rows :
          /\ note' = [note EXCEPT ![old.of] = [old.row EXCEPT !.status = "superseded"]]
          /\ writer' = [writer EXCEPT ![m] = [writer[m] EXCEPT !.rows = @ \ {old}]]
          /\ past' = past \cup {old.of}
    BY <1>6 DEF Memories!Supersede
  <2>3. PICK row : row = [old.row EXCEPT !.status = "superseded"]
    OBVIOUS
  <2>4. IsNote(row) /\ row.status = "superseded" /\ row # None
    BY <2>1, <2>3 DEF IsNote, NoneIsNoRow
  <2>5. PICK next : next = [writer[m] EXCEPT !.rows = @ \ {old}]
    OBVIOUS
  <2>6. /\ next.at = "supersede" /\ next.rows = writer[m].rows \ {old}
        /\ next \in [at : {"supersede"}, rows : {next.rows}, revision : {next.revision}]
    BY <2>1, <2>5
  <2>7. /\ note' = [note EXCEPT ![old.of] = row] /\ writer' = [writer EXCEPT ![m] = next]
        /\ old.of \in Notes /\ old.of # m
    BY <2>1, <2>2, <2>3, <2>5
  <2>8. NotesHold'
    <3>1. DOMAIN note' = Notes /\ DOMAIN writer' = Notes
      BY <1>2, <2>7 DEF NotesHold
    <3>2. \A k \in Notes : note'[k] = IF k = old.of THEN row ELSE note[k]
      BY <1>2, <2>7 DEF NotesHold
    <3>3. \A k \in Notes : writer'[k] = IF k = m THEN next ELSE writer[k]
      BY <1>2, <2>7 DEF NotesHold
    <3>4. \A k \in Notes : note'[k] = None <=> note[k] = None
      BY <2>1, <2>4, <3>2
    <3>5. \A k \in Notes : /\ note'[k] # None => IsNote(note'[k])
                           /\ k \in past' => note'[k] # None /\ note'[k].status # "active"
      BY <1>2, <2>2, <2>4, <3>2 DEF NotesHold
    <3>6. ASSUME NEW k \in Notes, writer'[k] # None
          PROVE  /\ writer'[k].at \in {"supersede", "forget"}
                 /\ writer'[k].at = "supersede" =>
                      /\ writer'[k] \in [at : {"supersede"}, rows : {writer'[k].rows},
                                        revision : {writer'[k].revision}]
                      /\ note'[k] = None
                      /\ \A o \in writer'[k].rows :
                           o.of \in Notes /\ note'[o.of] # None /\ IsNote(o.row)
                 /\ writer'[k].at = "forget" => note'[k] # None /\ IsNote(writer'[k].row)
      <4>1. CASE k = m
        BY <2>1, <2>6, <3>3, <3>4, <4>1
      <4>2. CASE k # m
        BY <1>2, <3>3, <3>4, <3>6, <4>2 DEF NotesHold
      <4> QED
        BY <4>1, <4>2
    <3> QED
      BY <3>1, <3>5, <3>6 DEF NotesHold, IsNote
  <2> QED
    BY <1>3, <2>2, <2>7, <2>8
<1>7. ASSUME NEW m \in Notes, NEW row, IsNote(row), row # None,
             note' = [note EXCEPT ![m] = row],
             writer' = writer \/ writer' = [writer EXCEPT ![m] = None],
             writer' = writer => note[m] # None,
             \/ row.status # "active" /\ past' = past \cup {m} /\ note[m] # None
             \/ m \notin past /\ past' = past /\ writer' # writer
      PROVE  MemoryInv'
  <2>1. DOMAIN note' = Notes /\ DOMAIN writer' = Notes
    BY <1>2, <1>7 DEF NotesHold
  <2>2. \A k \in Notes : note'[k] = IF k = m THEN row ELSE note[k]
    BY <1>2, <1>7 DEF NotesHold
  <2>3. \A k \in Notes : writer'[k] = writer[k] \/ (k = m /\ writer'[k] = None)
    BY <1>2, <1>7 DEF NotesHold
  <2>4. \A k \in Notes : note[k] # None => note'[k] # None
    BY <1>7, <2>2
  <2>5. \A k \in Notes : /\ note'[k] # None => IsNote(note'[k])
                         /\ k \in past' => note'[k] # None /\ note'[k].status # "active"
    BY <1>2, <1>7, <2>2 DEF NotesHold
  <2>6. ASSUME NEW k \in Notes, writer'[k] # None
        PROVE  /\ writer'[k] = writer[k]
               /\ writer[k].at = "supersede" =>
                    /\ note'[k] = None
                    /\ \A old \in writer[k].rows :
                         old.of \in Notes /\ note'[old.of] # None /\ IsNote(old.row)
               /\ writer[k].at = "forget" => note'[k] # None /\ IsNote(writer[k].row)
    <3>1. writer'[k] = writer[k]
      BY <2>3, <2>6
    <3>2. k = m => note[m] # None
      BY <1>2, <1>7, <2>6 DEF NotesHold
    <3>3. writer[k].at = "supersede" => k # m /\ note'[k] = None
      BY <1>2, <2>2, <2>6, <3>1, <3>2 DEF NotesHold
    <3> QED
      BY <1>2, <2>4, <2>6, <3>1, <3>3 DEF NotesHold
  <2>7. NotesHold'
    BY <1>2, <2>1, <2>5, <2>6 DEF NotesHold, IsNote
  <2> QED
    BY <1>3, <1>7, <2>7
<1>8. ASSUME NEW m \in Notes, Memories!SaveNote(m) PROVE MemoryInv'
  <2>1. PICK row : row = [status |-> "active", revision |-> writer[m].revision]
    OBVIOUS
  <2>2. IsNote(row) /\ row # None
    BY <2>1 DEF IsNote, NoneIsNoRow
  <2>3. note[m] = None /\ m \notin past /\ writer[m] # None
    BY <1>2, <1>8 DEF Memories!SaveNote, NotesHold
  <2>4. /\ note' = [note EXCEPT ![m] = row] /\ writer' = [writer EXCEPT ![m] = None]
        /\ UNCHANGED past
    BY <1>8, <2>1 DEF Memories!SaveNote
  <2>5. writer' # writer
    BY <1>2, <2>3, <2>4 DEF NotesHold
  <2> QED
    BY <1>7, <2>2, <2>3, <2>4, <2>5
<1>9. ASSUME NEW m \in Notes, Memories!ReadToForget(m) PROVE MemoryInv'
  <2>1. PICK next : next = [at |-> "forget", row |-> note[m]]
    OBVIOUS
  <2>2. next.at = "forget" /\ next.row = note[m]
    BY <2>1
  <2>3. /\ note[m] # None /\ IsNote(note[m]) /\ UNCHANGED <<note, past>>
        /\ writer' = [writer EXCEPT ![m] = next]
    BY <1>2, <1>9, <2>1 DEF Memories!ReadToForget, NotesHold
  <2> QED
    BY <1>4, <2>2, <2>3
<1>10. ASSUME NEW m \in Notes, Memories!Forget(m) PROVE MemoryInv'
  <2>1. note[m] # None /\ IsNote(writer[m].row)
    BY <1>2, <1>10 DEF Memories!Forget, NotesHold
  <2>2. PICK row : row = [writer[m].row EXCEPT !.status = "deleted"]
    OBVIOUS
  <2>3. IsNote(row) /\ row # None /\ row.status = "deleted"
    BY <2>1, <2>2 DEF IsNote, NoneIsNoRow
  <2>4. /\ note' = [note EXCEPT ![m] = row] /\ writer' = [writer EXCEPT ![m] = None]
        /\ past' = past \cup {m}
    BY <1>10, <2>2 DEF Memories!Forget
  <2> QED
    BY <1>7, <2>1, <2>3, <2>4
<1>11. ASSUME NEW m \in Notes, Memories!Prune(m) PROVE MemoryInv'
  <2>1. note[m] # None /\ IsNote(note[m])
    BY <1>2, <1>11 DEF Memories!Prune, NotesHold
  <2>2. PICK row : row = [note[m] EXCEPT !.status = "erased"]
    OBVIOUS
  <2>3. IsNote(row) /\ row # None /\ row.status = "erased"
    BY <2>1, <2>2 DEF IsNote, NoneIsNoRow
  <2>4. note' = [note EXCEPT ![m] = row] /\ writer' = writer /\ past' = past \cup {m}
    BY <1>11, <2>2 DEF Memories!Prune
  <2> QED
    BY <1>7, <2>1, <2>3, <2>4
<1> QED
  BY <1>5, <1>6, <1>8, <1>9, <1>10, <1>11 DEF Memories!Personal

LEMMA ContextSteps ==
  ASSUME Apart, NoneIsNoRow, MemoryInv, Memories!Context PROVE MemoryInv'
<1> USE DEF Memories!Goes
<1>1. UNCHANGED <<active, note, author, writer>>
  BY DEF Memories!Context, Memories!Reading, Memories!RecallNotes, Memories!FindItems,
         Memories!VerifyItem, Memories!MarkStale, Memories!Recalled, Memories!UseItem,
         Memories!Answer, Memories!Build
<1>2. /\ ItemsHold /\ NotesHold /\ ReadersHold /\ reader \in [Readers -> ReaderRow]
      /\ \A i \in Items : item[i] # None => item[i] \in ItemRow
      /\ past \subseteq Documents \cup Items \cup Notes
  BY DEF MemoryInv, ReadersHold, ItemsHold
\* A reading that changes nothing but the reader.
<1>3. ASSUME NEW r \in Readers, NEW next \in ReaderRow, reader' = [reader EXCEPT ![r] = next],
             UNCHANGED <<item, past>>, Fresh(next)
      PROVE  MemoryInv'
  <2>1. Goes(past', item')
    BY <1>2, <1>3 DEF Goes
  <2>2. Fresh(next)'
    BY <1>3 DEF Fresh
  <2>3. ReadersHold'
    BY <1>2, <1>3, <2>1, <2>2, ReaderMoves
  <2> QED
    BY <1>1, <1>2, <1>3, <2>3, SameNotes DEF MemoryInv, ItemsHold
<1>4. ASSUME NEW r \in Readers, Memories!RecallNotes(r) PROVE MemoryInv'
  <2>1. PICK live : live = {m \in Notes : Memories!Live(note[m])}
    OBVIOUS
  <2>2. PICK next : next = [[reader[r] EXCEPT !.at = "find"] EXCEPT !.notes = live, !.gone = past]
    OBVIOUS
  <2>3. reader' = [reader EXCEPT ![r] = next]
    BY <1>4, <2>1, <2>2 DEF Memories!RecallNotes
  <2>4. PICK row \in ReaderRow : row = reader[r] /\ Fresh(row) /\ row.at = "idle"
    BY <1>2, <1>4 DEF Memories!RecallNotes, ReadersHold
  <2>5. /\ next.at = "find" /\ next.notes = live /\ next.gone = past /\ next.rows = row.rows
        /\ next.kept = row.kept /\ next.evidence = row.evidence /\ next.todo = row.todo
    BY <2>2, <2>4 DEF ReaderRow
  <2>6. next \in ReaderRow
    BY <1>2, <2>1, <2>2, <2>4 DEF ReaderRow
  <2>7. live \cap past = {}
    BY <1>2, <2>1 DEF NotesHold, Memories!Live
  <2>8. Fresh(next)
    BY <2>4, <2>5, <2>7 DEF Fresh
  <2> QED
    BY <1>3, <1>4, <2>3, <2>6, <2>8 DEF Memories!RecallNotes
<1>5. ASSUME NEW r \in Readers, Memories!FindItems(r) PROVE MemoryInv'
  <2>1. PICK rows : rows = {[of |-> i, row |-> item[i]] : i \in {j \in Items : Memories!Live(item[j])}}
    OBVIOUS
  <2>2. PICK next : next = [[reader[r] EXCEPT !.at = "verify"] EXCEPT !.rows = rows]
    OBVIOUS
  <2>3. reader' = [reader EXCEPT ![r] = next]
    BY <1>5, <2>1, <2>2 DEF Memories!FindItems
  <2>4. PICK row \in ReaderRow : row = reader[r] /\ Fresh(row)
    BY <1>2 DEF ReadersHold
  <2>5. /\ next.at = "verify" /\ next.rows = rows /\ next.notes = row.notes /\ next.gone = row.gone
        /\ next.kept = row.kept /\ next.evidence = row.evidence /\ next.todo = row.todo
    BY <2>2, <2>4 DEF ReaderRow
  <2>6. rows \in SUBSET Found
    BY <1>2, <2>1 DEF Found, Memories!Live
  <2>7. next \in ReaderRow
    BY <2>2, <2>4, <2>6 DEF ReaderRow
  <2>8. \A found \in rows : found.of \notin past /\ item[found.of] # None
    BY <1>2, <2>1 DEF ItemsHold, Memories!Live
  <2>9. Fresh(next)
    BY <2>4, <2>5, <2>8 DEF Fresh
  <2> QED
    BY <1>3, <1>5, <2>3, <2>7, <2>9 DEF Memories!FindItems
<1>6. ASSUME NEW r \in Readers, Memories!VerifyItem(r) PROVE MemoryInv'
  <2>1. PICK row \in ReaderRow : row = reader[r] /\ Fresh(row) /\ row.at = "verify"
    BY <1>2, <1>6 DEF Memories!VerifyItem, ReadersHold
  <2>2. PICK found \in row.rows :
          \/ reader' = [reader EXCEPT ![r] = [row EXCEPT !.rows = @ \ {found}, !.kept = @ \cup {found}]]
          \/ reader' = [reader EXCEPT ![r] = [[row EXCEPT !.at = "stale"] EXCEPT !.todo = {found}]]
    BY <1>2, <1>6, <2>1 DEF Memories!VerifyItem
  <2>3. UNCHANGED <<item, past>>
    BY <1>6 DEF Memories!VerifyItem
  <2>4. CASE reader' = [reader EXCEPT ![r] = [row EXCEPT !.rows = @ \ {found}, !.kept = @ \cup {found}]]
    <3>1. PICK next : next = [row EXCEPT !.rows = @ \ {found}, !.kept = @ \cup {found}]
      OBVIOUS
    <3>2. /\ next.at = "verify" /\ next.rows = row.rows \ {found} /\ next.notes = row.notes
          /\ next.gone = row.gone /\ next.kept = row.kept \cup {found}
          /\ next.evidence = row.evidence /\ next.todo = row.todo
      BY <2>1, <3>1 DEF ReaderRow
    <3>3. found \in Found
      BY <2>1 DEF ReaderRow
    <3>4. next \in ReaderRow
      BY <2>1, <3>1, <3>3 DEF ReaderRow
    <3>5. Fresh(next)
      BY <2>1, <3>2 DEF Fresh
    <3>6. reader' = [reader EXCEPT ![r] = next]
      BY <2>4, <3>1
    <3> QED
      BY <1>3, <2>3, <3>4, <3>5, <3>6
  <2>5. CASE reader' = [reader EXCEPT ![r] = [[row EXCEPT !.at = "stale"] EXCEPT !.todo = {found}]]
    <3>1. PICK next : next = [[row EXCEPT !.at = "stale"] EXCEPT !.todo = {found}]
      OBVIOUS
    <3>2. /\ next.at = "stale" /\ next.rows = row.rows /\ next.notes = row.notes
          /\ next.gone = row.gone /\ next.kept = row.kept
          /\ next.evidence = row.evidence /\ next.todo = {found}
      BY <2>1, <3>1 DEF ReaderRow
    <3>3. found \in Found
      BY <2>1 DEF ReaderRow
    <3>4. next \in ReaderRow
      BY <2>1, <3>1, <3>3 DEF ReaderRow
    <3>5. Fresh(next)
      BY <2>1, <3>2 DEF Fresh
    <3>6. reader' = [reader EXCEPT ![r] = next]
      BY <2>5, <3>1
    <3> QED
      BY <1>3, <2>3, <3>4, <3>5, <3>6
  <2> QED
    BY <2>2, <2>4, <2>5
\* The row that was found is written back stale, and counts as withdrawn.
<1>7. ASSUME NEW r \in Readers, Memories!MarkStale(r) PROVE MemoryInv'
  <2>1. PICK row \in ReaderRow : row = reader[r] /\ Fresh(row) /\ row.at = "stale"
    BY <1>2, <1>7 DEF Memories!MarkStale, ReadersHold
  <2>2. PICK found \in row.todo :
          /\ item' = [item EXCEPT ![found.of] = [found.row EXCEPT !.status = "stale"]]
          /\ reader' = [reader EXCEPT ![r] =
               [[row EXCEPT !.at = "verify"] EXCEPT !.rows = @ \ {found}, !.todo = {}]]
          /\ past' = past \cup {found.of}
    BY <1>2, <1>7, <2>1 DEF Memories!MarkStale
  <2>3. found \in Found /\ found.of \in Items /\ found.row \in ItemRow
    BY <2>1 DEF ReaderRow, Found
  <2>4. PICK stale : stale = [found.row EXCEPT !.status = "stale"]
    OBVIOUS
  <2>5. stale \in ItemRow /\ stale.status = "stale" /\ stale # None
    BY <2>3, <2>4 DEF ItemRow, NoneIsNoRow
  <2>6. item[found.of] # None
    BY <2>1 DEF Fresh
  <2>7. item' = [item EXCEPT ![found.of] = stale]
    BY <2>2, <2>4
  <2>8. ItemsHold'
    BY <1>1, <1>2, <2>2, <2>3, <2>5, <2>6, <2>7 DEF ItemsHold, Apart
  <2>9. Goes(past', item')
    BY <1>2, <2>2, <2>3, <2>5, <2>7 DEF Goes, ItemsHold
  <2>10. PICK next : next = [[row EXCEPT !.at = "verify"] EXCEPT !.rows = @ \ {found}, !.todo = {}]
    OBVIOUS
  <2>11. /\ next.at = "verify" /\ next.rows = row.rows \ {found} /\ next.notes = row.notes
         /\ next.gone = row.gone /\ next.kept = row.kept
         /\ next.evidence = row.evidence /\ next.todo = {}
    BY <2>1, <2>10 DEF ReaderRow
  <2>12. next \in ReaderRow
    BY <2>1, <2>10 DEF ReaderRow
  <2>13. Fresh(next)
    BY <2>1, <2>11 DEF Fresh
  <2>14. ReadersHold'
    BY <1>2, <2>2, <2>9, <2>10, <2>12, <2>13, FreshStays, ReaderMoves
  <2>15. NotesHold'
    BY <1>1, <1>2, <2>2, <2>3, SameNotes
  <2> QED
    BY <2>8, <2>14, <2>15 DEF MemoryInv
<1>8. ASSUME NEW r \in Readers, Memories!Recalled(r) PROVE MemoryInv'
  <2>1. PICK row \in ReaderRow : row = reader[r] /\ Fresh(row)
    BY <1>2 DEF ReadersHold
  <2>2. PICK next : next = [[row EXCEPT !.at = "use"] EXCEPT !.todo = row.kept]
    OBVIOUS
  <2>3. reader' = [reader EXCEPT ![r] = next]
    BY <1>8, <2>1, <2>2 DEF Memories!Recalled
  <2>4. /\ next.at = "use" /\ next.rows = row.rows /\ next.notes = row.notes
        /\ next.gone = row.gone /\ next.kept = row.kept
        /\ next.evidence = row.evidence /\ next.todo = row.kept
    BY <2>1, <2>2 DEF ReaderRow
  <2>5. next \in ReaderRow
    BY <2>1, <2>2 DEF ReaderRow
  <2>6. Fresh(next)
    BY <2>1, <2>4 DEF Fresh
  <2> QED
    BY <1>3, <1>8, <2>3, <2>5, <2>6 DEF Memories!Recalled
\* A use is counted in the row as it is now, whose status stays.
<1>9. ASSUME NEW r \in Readers, Memories!UseItem(r) PROVE MemoryInv'
  <2>1. PICK row \in ReaderRow : row = reader[r] /\ Fresh(row) /\ row.at = "use"
    BY <1>2, <1>9 DEF Memories!UseItem, ReadersHold
  <2>2. PICK found \in row.todo :
          /\ item' = [item EXCEPT ![found.of] = [item[found.of] EXCEPT !.uses = @ + 1]]
          /\ reader' = [reader EXCEPT ![r] =
               [row EXCEPT !.todo = @ \ {found}, !.evidence = @ \cup (found.row.refs \cap active)]]
    BY <1>2, <1>9, <2>1 DEF Memories!UseItem, Memories!CountUse
  <2>3. found \in Found /\ found.of \in Items /\ past' = past
    BY <1>9, <2>1 DEF ReaderRow, Found, Memories!UseItem
  <2>4. item[found.of] # None /\ item[found.of] \in ItemRow
    BY <1>2, <2>1, <2>3 DEF Fresh
  <2>5. PICK used : used = [item[found.of] EXCEPT !.uses = @ + 1]
    OBVIOUS
  <2>6. used \in ItemRow /\ used.status = item[found.of].status /\ used # None
    <3>1. item[found.of].uses + 1 \in Nat
      BY <2>4 DEF ItemRow
    <3> QED
      BY <2>4, <2>5, <3>1 DEF ItemRow, NoneIsNoRow
  <2>7. item' = [item EXCEPT ![found.of] = used]
    BY <2>2, <2>5
  <2>8. ItemsHold'
    BY <1>1, <1>2, <2>3, <2>4, <2>6, <2>7 DEF ItemsHold
  <2>9. Goes(past', item')
    BY <1>2, <2>3, <2>6, <2>7 DEF Goes, ItemsHold
  <2>10. PICK more : more = found.row.refs \cap active
    OBVIOUS
  <2>11. more \in SUBSET Documents /\ more \cap past = {}
    BY <1>2, <2>10 DEF ItemsHold
  <2>12. PICK next : next = [row EXCEPT !.todo = @ \ {found}, !.evidence = @ \cup more]
    OBVIOUS
  <2>13. /\ next.at = "use" /\ next.rows = row.rows /\ next.notes = row.notes
         /\ next.gone = row.gone /\ next.kept = row.kept
         /\ next.evidence = row.evidence \cup more /\ next.todo = row.todo \ {found}
    BY <2>1, <2>12 DEF ReaderRow
  <2>14. next \in ReaderRow
    BY <2>1, <2>11, <2>12 DEF ReaderRow
  <2>15. Fresh(next)
    BY <2>1, <2>11, <2>13 DEF Fresh
  <2>16. reader' = [reader EXCEPT ![r] = next]
    BY <2>2, <2>10, <2>12
  <2>17. ReadersHold'
    BY <1>2, <2>9, <2>14, <2>15, <2>16, FreshStays, ReaderMoves
  <2>18. NotesHold'
    BY <1>1, <1>2, <2>3, SameNotes
  <2> QED
    BY <2>8, <2>17, <2>18 DEF MemoryInv
<1>10. ASSUME NEW r \in Readers, NEW dropped \in SUBSET (Items \cup Notes), Memories!Build(r, dropped)
       PROVE  MemoryInv'
  <2>1. PICK row \in ReaderRow : row = reader[r] /\ Fresh(row)
    BY <1>2 DEF ReadersHold
  <2>2. PICK items : items = {found \in row.kept : found.of \notin dropped}
    OBVIOUS
  <2>3. PICK notes : notes = IF items = {} THEN row.notes \ dropped ELSE row.notes
    OBVIOUS
  <2>4. PICK left : left = row.evidence \cap active \cap UNION {found.row.refs : found \in items}
    OBVIOUS
  <2>5. PICK next : next = [[row EXCEPT !.at = "built"] EXCEPT !.kept = items, !.notes = notes,
                                                                !.evidence = left]
    OBVIOUS
  <2>6. reader' = [reader EXCEPT ![r] = next]
    <3>1. reader' = [reader EXCEPT ![r] =
             [[row EXCEPT !.at = "built"] EXCEPT !.kept = items,
                !.notes = IF items = {} THEN row.notes \ dropped ELSE row.notes,
                !.evidence = row.evidence \cap active \cap UNION {found.row.refs : found \in items}]]
      BY <1>2, <1>10, <2>1, <2>2 DEF Memories!Build
    <3> QED
      BY <2>3, <2>4, <2>5, <3>1
  <2>7. /\ next.at = "built" /\ next.rows = row.rows /\ next.notes = notes
        /\ next.gone = row.gone /\ next.kept = items
        /\ next.evidence = left /\ next.todo = row.todo
    BY <2>1, <2>5 DEF ReaderRow
  <2>8. items \subseteq row.kept /\ notes \subseteq row.notes /\ left \subseteq row.evidence
    BY <2>2, <2>3, <2>4
  <2>9. next \in ReaderRow
    BY <2>1, <2>5, <2>8 DEF ReaderRow
  <2>10. Fresh(next)
    <3>1. left \subseteq UNION {k.row.refs : k \in items}
      BY <2>4
    <3> QED
      BY <2>1, <2>7, <2>8, <3>1 DEF Fresh
  <2> QED
    BY <1>3, <1>10, <2>6, <2>9, <2>10 DEF Memories!Build
<1>11. ASSUME NEW r \in Readers, Memories!Answer(r) PROVE MemoryInv'
  <2>1. PICK next : next = Memories!Resting
    OBVIOUS
  <2>2. next \in ReaderRow /\ Fresh(next)
    BY <2>1 DEF Memories!Resting, ReaderRow, Fresh
  <2> QED
    BY <1>3, <1>11, <2>1, <2>2 DEF Memories!Answer
<1> QED
  BY <1>4, <1>5, <1>6, <1>7, <1>8, <1>9, <1>10, <1>11 DEF Memories!Context, Memories!Reading

LEMMA MemoryBegins == ASSUME NoneIsNoRow PROVE Memories!Init => MemoryInv
<1> SUFFICES ASSUME Memories!Init PROVE MemoryInv
  OBVIOUS
<1>1. ItemsHold
  BY DEF Memories!Init, ItemsHold
<1>2. NotesHold
  BY DEF Memories!Init, NotesHold
<1>3. PICK row : row = Memories!Resting
  OBVIOUS
<1>4. row \in ReaderRow /\ Fresh(row)
  BY <1>3 DEF Memories!Resting, ReaderRow, Fresh
<1>5. reader = [r \in Readers |-> row]
  BY <1>3 DEF Memories!Init
<1> QED
  BY <1>1, <1>2, <1>4, <1>5 DEF MemoryInv, ReadersHold

LEMMA MemorySteps ==
  ASSUME Apart, NoneIsNoRow PROVE MemoryInv /\ [Memories!Next]_Memories!vars => MemoryInv'
<1> SUFFICES ASSUME MemoryInv, [Memories!Next]_Memories!vars PROVE MemoryInv'
  OBVIOUS
<1>1. CASE UNCHANGED Memories!vars
  BY <1>1 DEF Memories!vars, MemoryInv, ItemsHold, NotesHold, ReadersHold, Fresh, IsNote
<1> QED
  BY <1>1, OrganizationSteps, PersonalSteps, ContextSteps DEF Memories!Next

LEMMA MemorySound == ASSUME Apart, MemoryInv PROVE Memories!WithdrawnIsNotRecalled
<1> SUFFICES ASSUME NEW r \in Readers, reader[r].at = "built"
             PROVE  /\ reader[r].gone \cap (reader[r].notes \cup reader[r].evidence
                                               \cup {k.of : k \in reader[r].kept}) = {}
                    /\ reader[r].evidence \subseteq UNION {k.row.refs : k \in reader[r].kept}
  BY DEF Memories!WithdrawnIsNotRecalled
<1> QED
  BY DEF MemoryInv, ReadersHold, Fresh

(* A session and the memories its context is built from, for every set of   *)
(* turns, users, documents, items, notes and readers: whatever tabs race,   *)
(* fail or are cleared, events are numbered apart and each answer follows   *)
(* its question and has its trace, a deletion no turn ran into leaves       *)
(* nothing of the turns before it, and what was withdrawn before a context  *)
(* was begun is not in it.                                                  *)
THEOREM MemoryStaysTrue ==
  ASSUME NoneIsNothing, NoneIsNoRow, Apart
  PROVE  Sessions!Spec /\ Memories!Spec => []MemoryHolds
<1>1. SessionInv /\ MemoryInv => MemoryHolds
  BY SessionSound, MemorySound DEF MemoryHolds
<1>2. Sessions!Spec => []SessionInv
  BY SessionBegins, SessionSteps, PTL DEF Sessions!Spec
<1>3. Memories!Spec => []MemoryInv
  BY MemoryBegins, MemorySteps, PTL DEF Memories!Spec
<1> QED
  BY <1>1, <1>2, <1>3, PTL

-----------------------------------------------------------------------------
(* How any documents come into force (Staging).                             *)
CONSTANTS Files, TopicOf, VersionOf, Seeding, Deciding

Bringing == INSTANCE Staging WITH
              Docs <- Files, Topic <- TopicOf, Version <- VersionOf, Seeds <- Seeding,
              Tasks <- Reviews, Decisions <- Deciding

\* Of the constants: None is nothing else, and what the runtime starts with was
\* published one by one, so that of a topic one is active.
FilesAreApart ==
  /\ None \notin Files /\ None # "seed_author"
  /\ \A status, uploader, level, external, decided, reviewed :
       None # [status |-> status, uploader |-> uploader, level |-> level,
               external |-> external, decided |-> decided, reviewed |-> reviewed]
  /\ \A at, doc, who, decision :
       None # [at |-> at, doc |-> doc, who |-> who, decision |-> decision]
  /\ DOMAIN Seeding \subseteq Files
  /\ \A d, e \in DOMAIN Seeding :
       Seeding[d] = "active" /\ Seeding[e] = "active" /\ TopicOf[d] = TopicOf[e] => d = e

IsHead(d) == heads[TopicOf[d]] = d

PaperFields == {"status", "uploader", "level", "external", "decided", "reviewed"}

\* A row is made of them.
Paper(x) ==
  [status |-> x.status, uploader |-> x.uploader, level |-> x.level,
   external |-> x.external, decided |-> x.decided, reviewed |-> x.reviewed]

\* What is in force heads its topic, and bears the decision of who published it.
PaperOK(d) ==
  paper[d] # None =>
    /\ DOMAIN paper[d] = PaperFields /\ paper[d] = Paper(paper[d])
    /\ paper[d].external => paper[d].level < 2
    /\ paper[d].status = "active" =>
         IsHead(d) /\ (d \notin DOMAIN Seeding => paper[d].decided = paper[d].reviewed)

\* What heads a topic was reviewed by another person than brought it in.
HeadOK(d) ==
  IsHead(d) =>
    /\ paper[d] # None
    /\ paper[d].status \in {"active", "returned"}
    /\ paper[d].reviewed # paper[d].uploader

PapersInv ==
  /\ DOMAIN paper = Files /\ paper = [d \in Files |-> paper[d]]
  /\ heads \in [Bringing!Topics -> Files \cup {None}]
  /\ \A t \in Bringing!Topics : heads[t] # None => TopicOf[heads[t]] = t
  /\ findable = {d \in Files : IsHead(d)}
  /\ \A d \in Files : PaperOK(d) /\ HeadOK(d)

\* A review is by another person than brought the document in; what is being
\* indexed bears the decision and is not in force yet.
ReviewOK(t) ==
  reviews[t] # None =>
    /\ reviews[t].doc \in Files
    /\ paper[reviews[t].doc] # None
    /\ paper[reviews[t].doc].uploader # reviews[t].who
    /\ reviews[t].at = "indexing" =>
         /\ reviews[t].doc \notin DOMAIN Seeding
         /\ paper[reviews[t].doc].decided = reviews[t].who
         /\ heads[TopicOf[reviews[t].doc]] # reviews[t].doc

\* One is indexed at a time.
ReviewsInv ==
  /\ DOMAIN reviews = Reviews
  /\ \A t \in Reviews : ReviewOK(t)
  /\ \A t, u \in Reviews : Bringing!At(t, "indexing") /\ Bringing!At(u, "indexing") => t = u

\* The row of a document changes, and no head.
LEMMA OnePaper ==
  ASSUME PapersInv, NEW d \in Files, NEW r, r # None, paper' = [paper EXCEPT ![d] = r],
         UNCHANGED <<heads, findable>>, DOMAIN r = PaperFields, r = Paper(r),
         r.external => r.level < 2,
         r.status = "active" =>
           IsHead(d) /\ (d \notin DOMAIN Seeding => r.decided = r.reviewed),
         IsHead(d) => r.status \in {"active", "returned"} /\ r.reviewed # r.uploader
  PROVE  /\ PapersInv'
         /\ paper'[d] = r /\ \A e \in Files : e # d => paper'[e] = paper[e]
<1>1. paper'[d] = r /\ \A e \in Files : e # d => paper'[e] = paper[e]
  BY DEF PapersInv
<1>2. /\ heads' = heads /\ findable' = findable
      /\ DOMAIN paper' = Files /\ paper' = [e \in Files |-> paper'[e]]
  BY DEF PapersInv
<1>3. ASSUME NEW e \in Files PROVE PaperOK(e)' /\ HeadOK(e)'
  <2>1. CASE e = d
    BY <1>1, <1>2, <2>1 DEF PaperOK, HeadOK, IsHead
  <2>2. CASE e # d
    <3>1. PaperOK(e) /\ HeadOK(e) /\ paper'[e] = paper[e]
      BY <1>1, <2>2 DEF PapersInv
    <3> QED
      BY <1>2, <3>1 DEF PaperOK, HeadOK, IsHead
  <2> QED
    BY <2>1, <2>2
<1> QED
  BY <1>1, <1>2, <1>3 DEF PapersInv, IsHead

\* A request that goes on as it was.
LEMMA ReviewStays ==
  ASSUME NEW t \in Reviews, ReviewOK(t), reviews'[t] = reviews[t],
         \A e \in Files : paper[e] # None =>
           paper'[e] # None /\ paper'[e].uploader = paper[e].uploader,
         Bringing!At(t, "indexing") =>
           /\ paper'[reviews[t].doc].decided = paper[reviews[t].doc].decided
           /\ heads'[TopicOf[reviews[t].doc]] # reviews[t].doc
  PROVE  ReviewOK(t)'
BY DEF ReviewOK, Bringing!At

\* A document that was not there comes in, and nothing looks at it.
LEMMA PaperComes ==
  ASSUME FilesAreApart, PapersInv, NEW d \in Files, paper[d] = None, NEW who, NEW level,
         paper' = [paper EXCEPT ![d] = Bringing!Row(who, level)], UNCHANGED <<heads, findable>>
  PROVE  /\ PapersInv'
         /\ paper'[d] # None /\ paper'[d].uploader = who
         /\ \A e \in Files : paper[e] # None => paper'[e] = paper[e]
<1>1. PICK r : r = Bringing!Row(who, level)
  OBVIOUS
<1>2. /\ r # None /\ DOMAIN r = PaperFields /\ r = Paper(r)
      /\ r.status = "pending_review" /\ r.external = FALSE /\ r.uploader = who
  BY <1>1 DEF FilesAreApart, Bringing!Row, PaperFields, Paper
<1>3. ~IsHead(d)
  BY DEF PapersInv, HeadOK
<1>4. paper' = [paper EXCEPT ![d] = r]
  BY <1>1
<1>5. /\ PapersInv'
      /\ paper'[d] = r /\ \A e \in Files : e # d => paper'[e] = paper[e]
  BY <1>2, <1>3, <1>4, OnePaper
<1> QED
  BY <1>2, <1>5

LEMMA Staged ==
  ASSUME FilesAreApart, PapersInv, ReviewsInv, NEW d \in Files, NEW who, NEW level,
         Bringing!Stage(d, who, level)
  PROVE  PapersInv' /\ ReviewsInv'
<1>1. /\ paper[d] = None /\ paper' = [paper EXCEPT ![d] = Bringing!Row(who, level)]
      /\ heads' = heads /\ findable' = findable /\ reviews' = reviews
  BY DEF Bringing!Stage
<1>2. PapersInv' /\ \A e \in Files : paper[e] # None => paper'[e] = paper[e]
  BY <1>1, PaperComes
<1>3. ASSUME NEW t \in Reviews PROVE ReviewOK(t)'
  BY <1>1, <1>2 DEF ReviewsInv, ReviewOK
<1> QED
  BY <1>1, <1>2, <1>3 DEF ReviewsInv, Bringing!At

LEMMA Imported ==
  ASSUME FilesAreApart, PapersInv, ReviewsInv, NEW t \in Reviews, NEW d \in Files, NEW who,
         NEW reviewer, NEW decision, Bringing!Import(t, d, who, reviewer, decision)
  PROVE  PapersInv' /\ ReviewsInv'
<1>1. PICK v : v = [at |-> "waiting", doc |-> d, who |-> reviewer, decision |-> decision]
  OBVIOUS
<1>2. /\ v.at = "waiting" /\ v.doc = d /\ v.who = reviewer
      /\ paper[d] = None /\ paper' = [paper EXCEPT ![d] = Bringing!Row(who, 1)]
      /\ heads' = heads /\ findable' = findable /\ who # reviewer
      /\ reviews' = [reviews EXCEPT ![t] = v]
  BY <1>1 DEF Bringing!Import
<1>3. /\ PapersInv'
      /\ paper'[d] # None /\ paper'[d].uploader = who
      /\ \A e \in Files : paper[e] # None => paper'[e] = paper[e]
  BY <1>2, PaperComes
<1>4. reviews'[t] = v /\ \A u \in Reviews : u # t => reviews'[u] = reviews[u]
  BY <1>2 DEF ReviewsInv
<1>5. ASSUME NEW u \in Reviews PROVE ReviewOK(u)'
  <2>1. CASE u = t
    BY <1>2, <1>3, <1>4, <2>1 DEF ReviewOK
  <2>2. CASE u # t
    BY <1>2, <1>3, <1>4, <2>2 DEF ReviewsInv, ReviewOK
  <2> QED
    BY <2>1, <2>2
<1>6. \A u \in Reviews : Bringing!At(u, "indexing")' => Bringing!At(u, "indexing")
  BY <1>2, <1>4 DEF Bringing!At
<1> QED
  BY <1>2, <1>3, <1>5, <1>6 DEF ReviewsInv


\* The decision is written, and the lock of the reviews was free.
LEMMA Decided ==
  ASSUME FilesAreApart, PapersInv, ReviewsInv, NEW t \in Reviews, NEW d \in Files,
         paper[d] # None, NEW who, NEW decision, Bringing!LockIsFree(t),
         Bringing!Decide(t, d, who, decision)
  PROVE  PapersInv' /\ ReviewsInv'
<1>1. PICK r : r = [paper[d] EXCEPT !.level = decision.level,
                                    !.external = decision.external, !.decided = who]
  OBVIOUS
<1>2. PICK v : v = [at |-> "indexing", doc |-> d, who |-> who, decision |-> decision]
  OBVIOUS
<1>3. /\ DOMAIN paper[d] = PaperFields /\ DOMAIN paper = Files
      /\ PaperOK(d) /\ HeadOK(d)
  BY DEF PapersInv, PaperOK
<1>4. /\ d \notin DOMAIN Seeding /\ paper[d].uploader # who
      /\ paper[d].status = "pending_review"
      /\ decision.external => decision.level < 2
      /\ paper' = [paper EXCEPT ![d] = r] /\ UNCHANGED <<heads, findable>>
      /\ reviews' = [reviews EXCEPT ![t] = v]
  BY <1>1, <1>2, <1>3 DEF Bringing!Decide, Bringing!Reviewable, Bringing!Allowed, Bringing!Seeded
<1>5. /\ DOMAIN r = PaperFields /\ r.status = "pending_review"
      /\ r.level = decision.level /\ r.external = decision.external /\ r.decided = who
      /\ r.uploader = paper[d].uploader /\ r = Paper(r)
  BY <1>1, <1>3, <1>4 DEF PaperFields, Paper
<1>6. r # None
  BY <1>5 DEF FilesAreApart, Paper
<1>7. ~IsHead(d)
  BY <1>3, <1>4 DEF HeadOK
<1>8. /\ PapersInv'
      /\ paper'[d] = r /\ \A e \in Files : e # d => paper'[e] = paper[e]
  BY <1>4, <1>5, <1>6, <1>7, OnePaper
<1>9. /\ v.at = "indexing" /\ v.doc = d /\ v.who = who
      /\ reviews'[t] = v /\ \A u \in Reviews : u # t => reviews'[u] = reviews[u]
  BY <1>2, <1>4 DEF ReviewsInv
<1>10. \A u \in Reviews : ~Bringing!At(u, "indexing")
  BY DEF Bringing!LockIsFree
<1>11. \A e \in Files : paper[e] # None =>
         paper'[e] # None /\ paper'[e].uploader = paper[e].uploader
  BY <1>5, <1>6, <1>8
<1>12. ASSUME NEW u \in Reviews PROVE ReviewOK(u)'
  <2>1. CASE u = t
    BY <1>4, <1>5, <1>6, <1>7, <1>8, <1>9, <2>1 DEF ReviewOK, IsHead
  <2>2. CASE u # t
    BY <1>9, <1>10, <1>11, <2>2, ReviewStays DEF ReviewsInv
  <2> QED
    BY <2>1, <2>2
<1>13. \A u \in Reviews : Bringing!At(u, "indexing")' => u = t
  BY <1>9, <1>10 DEF Bringing!At
<1> QED
  BY <1>4, <1>8, <1>12, <1>13 DEF ReviewsInv

\* A request that comes to its end.
LEMMA ReviewEnds ==
  ASSUME ReviewsInv, NEW t \in Reviews, Bringing!Done(t),
         \A u \in Reviews : u # t /\ ReviewOK(u) /\ reviews'[u] = reviews[u] => ReviewOK(u)'
  PROVE  ReviewsInv'
<1>1. reviews'[t] = None /\ \A u \in Reviews : u # t => reviews'[u] = reviews[u]
  BY DEF ReviewsInv, Bringing!Done
<1>2. ASSUME NEW u \in Reviews PROVE ReviewOK(u)'
  <2>1. CASE u = t
    BY <1>1, <2>1 DEF ReviewOK
  <2>2. CASE u # t
    BY <1>1, <2>2 DEF ReviewsInv
  <2> QED
    BY <2>1, <2>2
<1>3. \A u \in Reviews : Bringing!At(u, "indexing")' => Bringing!At(u, "indexing")
  BY <1>1 DEF Bringing!At
<1>4. DOMAIN reviews' = Reviews
  BY DEF ReviewsInv, Bringing!Done
<1> QED
  BY <1>2, <1>3, <1>4 DEF ReviewsInv

LEMMA BegunImported ==
  ASSUME FilesAreApart, PapersInv, ReviewsInv, NEW t \in Reviews, Bringing!BeginImported(t)
  PROVE  PapersInv' /\ ReviewsInv'
<1>1. /\ Bringing!LockIsFree(t)
      /\ reviews[t].doc \in Files /\ paper[reviews[t].doc] # None
  BY DEF Bringing!BeginImported, Bringing!At, ReviewsInv, ReviewOK
<1>2. CASE Bringing!Decide(t, reviews[t].doc, reviews[t].who, reviews[t].decision)
  BY <1>1, <1>2, Decided
<1>3. CASE Bringing!Done(t) /\ UNCHANGED <<paper, heads, findable>>
  <2>1. paper' = paper /\ heads' = heads /\ findable' = findable
    BY <1>3
  <2>2. PapersInv'
    BY <2>1 DEF PapersInv, PaperOK, HeadOK, IsHead
  <2>3. \A u \in Reviews : ReviewOK(u) /\ reviews'[u] = reviews[u] => ReviewOK(u)'
    BY <2>1 DEF ReviewOK
  <2> QED
    BY <1>3, <2>2, <2>3, ReviewEnds
<1> QED
  BY <1>2, <1>3 DEF Bringing!BeginImported

\* A document is put in force before the head of its topic, or not; the rows are
\* those there are but that it is to be reviewed.
LEMMA Published ==
  ASSUME FilesAreApart, PapersInv, NEW d \in Files, paper[d] # None, ~IsHead(d),
         NEW who, paper[d].uploader # who,
         d \notin DOMAIN Seeding => paper[d].decided = who,
         Bringing!Publish(Bringing!SetStatus(paper, d, "pending_review"), d, who)
  PROVE  /\ PapersInv'
         /\ \A e \in Files : paper[e] # None =>
              /\ paper'[e] # None /\ paper'[e].uploader = paper[e].uploader
              /\ paper'[e].decided = paper[e].decided
         /\ \A e \in Files : e # d /\ ~IsHead(e) => heads'[TopicOf[e]] # e
<1>0. /\ DOMAIN paper[d] = PaperFields /\ DOMAIN paper = Files /\ PaperOK(d)
      /\ TopicOf[d] \in Bringing!Topics
      /\ heads \in [Bringing!Topics -> Files \cup {None}]
      /\ \A e \in Files : TopicOf[e] \in Bringing!Topics
  BY DEF PapersInv, PaperOK, Bringing!Topics
<1>1. PICK rows : rows = Bringing!SetStatus(paper, d, "pending_review")
  OBVIOUS
<1>2. PICK r : r = [paper[d] EXCEPT !.status = "pending_review"]
  OBVIOUS
<1>3. /\ DOMAIN r = PaperFields /\ r.status = "pending_review"
      /\ r.uploader = paper[d].uploader /\ r.decided = paper[d].decided
      /\ r.external = paper[d].external /\ r.level = paper[d].level
      /\ r.reviewed = paper[d].reviewed /\ r = Paper(r)
  BY <1>0, <1>2 DEF PaperFields, Paper
<1>4. rows = [paper EXCEPT ![d] = r]
  BY <1>0, <1>1, <1>2 DEF Bringing!SetStatus
<1>5. /\ rows[d] = r /\ DOMAIN rows = Files
      /\ \A e \in Files : e # d => rows[e] = paper[e]
  BY <1>0, <1>4
<1>6. \A row : row = Paper(row) => row # None
  BY DEF FilesAreApart, Paper
<1>7. CASE paper' = rows /\ UNCHANGED <<heads, findable>>
  <2>1. /\ PapersInv'
        /\ paper'[d] = r /\ \A e \in Files : e # d => paper'[e] = paper[e]
    BY <1>0, <1>3, <1>4, <1>6, <1>7, OnePaper DEF PaperOK
  <2> QED
    BY <1>3, <1>6, <1>7, <2>1 DEF IsHead
<1>8. CASE /\ Bringing!Newer(d)
           /\ paper' = Bringing!Superseded([rows EXCEPT ![d].status = "active",
                                                        ![d].reviewed = who], d)
           /\ heads' = [heads EXCEPT ![TopicOf[d]] = d]
           /\ findable' = (findable \cup {d}) \ {heads[TopicOf[d]]}
  <2>1. PICK h : h = heads[TopicOf[d]]
    OBVIOUS
  <2>2. PICK new : new = [r EXCEPT !.status = "active", !.reviewed = who]
    OBVIOUS
  <2>3. /\ DOMAIN new = PaperFields /\ new.status = "active" /\ new.reviewed = who
        /\ new.uploader = paper[d].uploader /\ new.decided = paper[d].decided
        /\ new.external = paper[d].external /\ new.level = paper[d].level
        /\ new = Paper(new)
    BY <1>3, <2>2 DEF PaperFields, Paper
  <2>4. PICK now : now = [rows EXCEPT ![d] = new]
    OBVIOUS
  <2>5. now = [rows EXCEPT ![d].status = "active", ![d].reviewed = who]
    BY <1>5, <2>2, <2>4
  <2>6. /\ DOMAIN now = Files /\ now[d] = new
        /\ \A e \in Files : e # d => now[e] = paper[e]
    BY <1>5, <2>4
  <2>7. h \in Files \cup {None} /\ h # d /\ (h # None => TopicOf[h] = TopicOf[d])
    BY <1>0, <2>1 DEF PapersInv, IsHead
  <2>8. /\ heads' \in [Bringing!Topics -> Files \cup {None}]
        /\ heads'[TopicOf[d]] = d
        /\ \A t \in Bringing!Topics : t # TopicOf[d] => heads'[t] = heads[t]
    BY <1>0, <1>8
  <2>9. /\ DOMAIN paper' = Files /\ paper'[d] = new
        /\ \A e \in Files : e # d /\ e # h => paper'[e] = paper[e]
        /\ h # None =>
             /\ paper[h] # None /\ DOMAIN paper'[h] = PaperFields
             /\ paper'[h] = Paper(paper'[h])
             /\ paper'[h].status = "archived"
             /\ paper'[h].uploader = paper[h].uploader
             /\ paper'[h].decided = paper[h].decided
             /\ paper'[h].external = paper[h].external /\ paper'[h].level = paper[h].level
    <3>1. CASE h = None
      <4>1. paper' = now
        BY <1>8, <2>1, <2>5, <3>1 DEF Bringing!Superseded
      <4> QED
        BY <2>6, <3>1, <4>1
    <3>2. CASE h # None
      <4>1. h \in Files /\ IsHead(h)
        BY <2>1, <2>7, <3>2 DEF IsHead
      <4>2. paper[h] # None /\ DOMAIN paper[h] = PaperFields
        BY <4>1 DEF PapersInv, HeadOK, PaperOK
      <4>3. paper' = [now EXCEPT ![h].status = "archived"]
        BY <1>8, <2>1, <2>5, <3>2 DEF Bringing!Superseded, Bringing!SetStatus
      <4>4. PICK x : x = [paper[h] EXCEPT !.status = "archived"]
        OBVIOUS
      <4>5. /\ DOMAIN x = PaperFields /\ x.status = "archived"
            /\ x.uploader = paper[h].uploader /\ x.decided = paper[h].decided
            /\ x.external = paper[h].external /\ x.level = paper[h].level
            /\ x = Paper(x)
        BY <4>2, <4>4 DEF PaperFields, Paper
      <4>6. paper' = [now EXCEPT ![h] = x]
        BY <2>6, <2>7, <4>1, <4>3, <4>4
      <4> QED
        BY <2>6, <2>7, <4>1, <4>2, <4>5, <4>6
    <3> QED
      BY <3>1, <3>2
  \* What heads a topic now: the document, and what did of the other topics.
  <2>10. ASSUME NEW e \in Files
         PROVE  IsHead(e)' <=> e = d \/ (IsHead(e) /\ e # h)
    <3>1. CASE TopicOf[e] = TopicOf[d]
      BY <2>1, <2>7, <2>8, <3>1 DEF IsHead
    <3>2. CASE TopicOf[e] # TopicOf[d]
      <4>1. heads'[TopicOf[e]] = heads[TopicOf[e]]
        BY <1>0, <2>8, <3>2
      <4>2. e # d /\ (e = h => h = None)
        BY <2>7, <3>2
      <4> QED
        BY <3>2, <4>1, <4>2 DEF IsHead, FilesAreApart
    <3> QED
      BY <3>1, <3>2
  <2>11. ASSUME NEW e \in Files PROVE PaperOK(e)' /\ HeadOK(e)'
    <3>1. CASE e = d
      <4>1. IsHead(e)' /\ paper'[e] = new /\ new # None
        BY <1>6, <2>3, <2>9, <2>10, <3>1
      <4>2. paper[d].external => paper[d].level < 2
        BY <1>0 DEF PaperOK
      <4> QED
        BY <2>3, <3>1, <4>1, <4>2 DEF PaperOK, HeadOK
    <3>2. CASE e = h
      <4>1. PaperOK(e) /\ ~IsHead(e)' /\ h # None
        BY <2>7, <2>10, <3>2 DEF PapersInv, FilesAreApart
      <4> QED
        BY <2>9, <3>2, <4>1 DEF PaperOK, HeadOK
    <3>3. CASE e # d /\ e # h
      <4>1. /\ paper'[e] = paper[e] /\ PaperOK(e) /\ HeadOK(e)
            /\ IsHead(e)' <=> IsHead(e)
        BY <2>9, <2>10, <3>3 DEF PapersInv
      <4> QED
        BY <4>1 DEF PaperOK, HeadOK
    <3> QED
      BY <3>1, <3>2, <3>3
  <2>12. findable' = {e \in Files : IsHead(e)'}
    <3>1. \A e \in Files : e \in findable <=> IsHead(e)
      BY DEF PapersInv
    <3>2. \A e : e \in findable => e \in Files
      BY DEF PapersInv
    <3>3. \A e : e \in findable' <=> (e \in findable \/ e = d) /\ e # h
      BY <1>8, <2>1
    <3> QED
      BY <2>7, <2>10, <3>1, <3>2, <3>3
  <2>13. \A t \in Bringing!Topics : heads'[t] # None => TopicOf[heads'[t]] = t
    BY <2>8 DEF PapersInv
  <2>14. PapersInv'
    <3>1. paper' = [e \in Files |-> paper'[e]]
      <4>1. now = [e \in Files |-> now[e]]
        BY <1>0, <1>4, <2>4
      <4>2. paper' = now \/ paper' = [now EXCEPT ![h].status = "archived"]
        BY <1>8, <2>1, <2>5 DEF Bringing!Superseded, Bringing!SetStatus
      <4> QED
        BY <4>1, <4>2
    <3> QED
      BY <2>8, <2>9, <2>11, <2>12, <2>13, <3>1 DEF PapersInv, IsHead, Bringing!Topics
  <2>15. ASSUME NEW e \in Files, paper[e] # None
         PROVE  /\ paper'[e] # None /\ paper'[e].uploader = paper[e].uploader
                /\ paper'[e].decided = paper[e].decided
    <3>1. CASE e = d
      BY <1>6, <2>3, <2>9, <3>1
    <3>2. CASE e = h
      BY <1>6, <2>9, <2>15, <3>2 DEF FilesAreApart
    <3>3. CASE e # d /\ e # h
      BY <2>9, <2>15, <3>3
    <3> QED
      BY <3>1, <3>2, <3>3
  <2> QED
    BY <2>10, <2>14, <2>15 DEF IsHead
<1> QED
  BY <1>1, <1>7, <1>8 DEF Bringing!Publish


LEMMA ReviewIndexed ==
  ASSUME FilesAreApart, PapersInv, ReviewsInv, NEW t \in Reviews, Bringing!Indexed(t)
  PROVE  PapersInv' /\ ReviewsInv'
<1>1. PICK d : d = reviews[t].doc
  OBVIOUS
<1>2. /\ Bringing!At(t, "indexing") /\ Bringing!Done(t)
      /\ Bringing!Publish(Bringing!SetStatus(paper, d, "pending_review"), d, reviews[t].who)
  BY <1>1 DEF Bringing!Indexed
<1>3. /\ d \in Files /\ paper[d] # None /\ paper[d].uploader # reviews[t].who
      /\ paper[d].decided = reviews[t].who /\ ~IsHead(d)
  BY <1>1, <1>2 DEF Bringing!At, ReviewsInv, ReviewOK, IsHead
<1>4. /\ PapersInv'
      /\ \A e \in Files : paper[e] # None =>
           /\ paper'[e] # None /\ paper'[e].uploader = paper[e].uploader
           /\ paper'[e].decided = paper[e].decided
  BY <1>2, <1>3, Published
<1>5. ASSUME NEW u \in Reviews, u # t, ReviewOK(u), reviews'[u] = reviews[u]
      PROVE  ReviewOK(u)'
  <2>1. ~Bringing!At(u, "indexing")
    BY <1>2, <1>5 DEF ReviewsInv
  <2> QED
    BY <1>4, <1>5, <2>1, ReviewStays
<1> QED
  BY <1>2, <1>4, <1>5, ReviewEnds

\* Only what the runtime began with is published without a review.
LEMMA DraftPublished ==
  ASSUME FilesAreApart, PapersInv, ReviewsInv, NEW d \in Files, NEW who,
         Bringing!PublishDraft(d, who)
  PROVE  PapersInv' /\ ReviewsInv'
<1>1. /\ paper[d] # None /\ d \in DOMAIN Seeding /\ paper[d].status = "pending_review"
      /\ Bringing!Publish(paper, d, who) /\ reviews' = reviews
  BY DEF Bringing!PublishDraft, Bringing!Seeded
<1>2. /\ DOMAIN paper[d] = PaperFields /\ paper[d] = Paper(paper[d])
      /\ DOMAIN paper = Files /\ HeadOK(d) /\ ~IsHead(d)
  BY <1>1 DEF PapersInv, PaperOK, HeadOK
<1>3. CASE paper[d].uploader = who
  <2>1. paper' = paper /\ heads' = heads /\ findable' = findable
    BY <1>1, <1>3 DEF Bringing!Publish
  <2>2. PapersInv'
    BY <2>1 DEF PapersInv, PaperOK, HeadOK, IsHead
  <2>3. ReviewsInv'
    BY <1>1, <2>1 DEF ReviewsInv, ReviewOK, Bringing!At
  <2> QED
    BY <2>2, <2>3
<1>4. CASE paper[d].uploader # who
  <2>1. PICK rows : rows = Bringing!SetStatus(paper, d, "pending_review")
    OBVIOUS
  <2>2. rows = paper
    <3>1. rows = [paper EXCEPT ![d].status = "pending_review"]
      BY <2>1 DEF Bringing!SetStatus
    <3>2. [paper[d] EXCEPT !.status = "pending_review"] = paper[d]
      BY <1>1, <1>2 DEF Paper
    <3>3. paper = [e \in Files |-> paper[e]]
      BY DEF PapersInv
    <3>4. rows = [e \in Files |-> paper[e]]
      BY <1>2, <3>1, <3>2
    <3> QED
      BY <3>3, <3>4
  <2>3. /\ PapersInv'
        /\ \A e \in Files : paper[e] # None =>
             /\ paper'[e] # None /\ paper'[e].uploader = paper[e].uploader
             /\ paper'[e].decided = paper[e].decided
        /\ \A e \in Files : e # d /\ ~IsHead(e) => heads'[TopicOf[e]] # e
    BY <1>1, <1>2, <1>4, <2>1, <2>2, Published
  <2>4. ASSUME NEW u \in Reviews PROVE ReviewOK(u)'
    <3>1. Bringing!At(u, "indexing") =>
            /\ reviews[u].doc \in Files /\ reviews[u].doc # d
            /\ paper[reviews[u].doc] # None /\ ~IsHead(reviews[u].doc)
      BY <1>1 DEF ReviewsInv, ReviewOK, Bringing!At, IsHead
    <3>2. ReviewOK(u) /\ reviews'[u] = reviews[u]
      BY <1>1 DEF ReviewsInv
    <3> QED
      BY <2>3, <3>1, <3>2, ReviewStays
  <2>5. ReviewsInv'
    BY <1>1, <2>4 DEF ReviewsInv, Bringing!At
  <2> QED
    BY <2>3, <2>5
<1> QED
  BY <1>3, <1>4

LEMMA RejectionBegun ==
  ASSUME FilesAreApart, PapersInv, ReviewsInv, NEW t \in Reviews, NEW d \in Files, NEW who,
         Bringing!Reject(t, d, who)
  PROVE  PapersInv' /\ ReviewsInv'
<1>1. PICK v : v = [at |-> "reason", doc |-> d, who |-> who, decision |-> None]
  OBVIOUS
<1>2. /\ v.at = "reason" /\ v.doc = d /\ v.who = who
      /\ paper[d] # None /\ paper[d].uploader # who
      /\ reviews' = [reviews EXCEPT ![t] = v]
      /\ paper' = paper /\ heads' = heads /\ findable' = findable
  BY <1>1 DEF Bringing!Reject, Bringing!Reviewable
<1>3. PapersInv'
  BY <1>2 DEF PapersInv, PaperOK, HeadOK, IsHead
<1>4. reviews'[t] = v /\ \A u \in Reviews : u # t => reviews'[u] = reviews[u]
  BY <1>2 DEF ReviewsInv
<1>5. ASSUME NEW u \in Reviews PROVE ReviewOK(u)'
  <2>1. CASE u = t
    BY <1>2, <1>4, <2>1 DEF ReviewOK
  <2>2. CASE u # t
    BY <1>2, <1>4, <2>2 DEF ReviewsInv, ReviewOK
  <2> QED
    BY <2>1, <2>2
<1>6. \A u \in Reviews : Bringing!At(u, "indexing")' => Bringing!At(u, "indexing")
  BY <1>2, <1>4 DEF Bringing!At
<1> QED
  BY <1>2, <1>3, <1>5, <1>6 DEF ReviewsInv

LEMMA Returned ==
  ASSUME FilesAreApart, PapersInv, ReviewsInv, NEW t \in Reviews, Bringing!Return(t)
  PROVE  PapersInv' /\ ReviewsInv'
<1>1. PICK d : d = reviews[t].doc
  OBVIOUS
<1>2. PICK r : r = [paper[d] EXCEPT !.status = "returned", !.reviewed = reviews[t].who]
  OBVIOUS
<1>3. /\ d \in Files /\ paper[d] # None /\ paper[d].uploader # reviews[t].who
      /\ Bringing!Done(t) /\ heads' = heads /\ findable' = findable
  BY <1>1 DEF Bringing!Return, Bringing!At, ReviewsInv, ReviewOK
<1>4. DOMAIN paper[d] = PaperFields /\ DOMAIN paper = Files /\ PaperOK(d)
  BY <1>3 DEF PapersInv, PaperOK
<1>5. CASE paper' = paper
  <2>1. PapersInv'
    BY <1>3, <1>5 DEF PapersInv, PaperOK, HeadOK, IsHead
  <2>2. \A u \in Reviews : ReviewOK(u) /\ reviews'[u] = reviews[u] => ReviewOK(u)'
    BY <1>3, <1>5 DEF ReviewOK
  <2> QED
    BY <1>3, <2>1, <2>2, ReviewEnds
<1>6. CASE paper' = [paper EXCEPT ![d].status = "returned", ![d].reviewed = reviews[t].who]
  <2>1. /\ DOMAIN r = PaperFields /\ r = Paper(r) /\ r.status = "returned"
        /\ r.reviewed = reviews[t].who /\ r.uploader = paper[d].uploader
        /\ r.decided = paper[d].decided
        /\ r.external = paper[d].external /\ r.level = paper[d].level
    BY <1>2, <1>4 DEF PaperFields, Paper
  <2>2. r # None
    BY <2>1 DEF FilesAreApart, Paper
  <2>3. paper' = [paper EXCEPT ![d] = r]
    BY <1>2, <1>4, <1>6
  <2>4. r.external => r.level < 2
    BY <1>3, <1>4, <2>1 DEF PaperOK
  <2>5. /\ PapersInv'
        /\ paper'[d] = r /\ \A e \in Files : e # d => paper'[e] = paper[e]
    BY <1>3, <2>1, <2>2, <2>3, <2>4, OnePaper
  <2>6. \A e \in Files : paper[e] # None =>
          /\ paper'[e] # None /\ paper'[e].uploader = paper[e].uploader
          /\ paper'[e].decided = paper[e].decided
    BY <2>1, <2>2, <2>5
  <2>7. \A u \in Reviews : ReviewOK(u) /\ reviews'[u] = reviews[u] => ReviewOK(u)'
    BY <1>3, <2>6 DEF ReviewOK
  <2> QED
    BY <1>3, <2>5, <2>7, ReviewEnds
<1> QED
  BY <1>1, <1>5, <1>6 DEF Bringing!Return

LEMMA BringingInit ==
  ASSUME FilesAreApart, Bringing!Init
  PROVE  PapersInv /\ ReviewsInv
<1>1. /\ paper = [d \in Files |-> IF d \in DOMAIN Seeding
                                  THEN [Bringing!Ingested EXCEPT !.status = Seeding[d]] ELSE None]
      /\ heads = [t \in Bringing!Topics |->
                    IF Bringing!InForce(t) = {} THEN None
                    ELSE CHOOSE d \in Bringing!InForce(t) : TRUE]
      /\ findable = {d \in DOMAIN Seeding : Seeding[d] = "active"}
      /\ reviews = [t \in Reviews |-> None]
  BY DEF Bringing!Init, Bringing!Seeded
<1>2. ASSUME NEW t \in Bringing!Topics
      PROVE  \/ Bringing!InForce(t) = {} /\ heads[t] = None
             \/ heads[t] \in Bringing!InForce(t)
  BY <1>1
<1>3. ASSUME NEW d \in Files
      PROVE  IsHead(d) <=> d \in DOMAIN Seeding /\ Seeding[d] = "active"
  <2>1. TopicOf[d] \in Bringing!Topics
    BY DEF Bringing!Topics
  <2> QED
    BY <1>2, <2>1 DEF IsHead, Bringing!InForce, FilesAreApart
<1>4. ASSUME NEW d \in DOMAIN Seeding
      PROVE  /\ paper[d] = Paper(paper[d]) /\ DOMAIN paper[d] = PaperFields
             /\ paper[d].status = Seeding[d] /\ paper[d].external = FALSE
             /\ paper[d].uploader = "seed_author" /\ paper[d].reviewed = None
  BY <1>1, <1>4 DEF FilesAreApart, Bringing!Ingested, Bringing!Row, Paper, PaperFields
<1>5. ASSUME NEW d \in Files PROVE PaperOK(d) /\ HeadOK(d)
  <2>1. CASE d \in DOMAIN Seeding
    <3>1. \A row : row = Paper(row) => row # None
      BY DEF FilesAreApart, Paper
    <3>2. paper[d] # None
      BY <1>4, <2>1, <3>1
    <3> QED
      BY <1>3, <1>4, <2>1, <3>2 DEF PaperOK, HeadOK, FilesAreApart
  <2>2. CASE d \notin DOMAIN Seeding
    BY <1>1, <1>3, <2>2 DEF PaperOK, HeadOK
  <2> QED
    BY <2>1, <2>2
<1>6. findable = {d \in Files : IsHead(d)}
  BY <1>1, <1>3 DEF FilesAreApart
<1>7. /\ heads \in [Bringing!Topics -> Files \cup {None}]
      /\ \A t \in Bringing!Topics : heads[t] # None => TopicOf[heads[t]] = t
  BY <1>1, <1>2 DEF Bringing!InForce, FilesAreApart
<1>8. PapersInv
  BY <1>1, <1>5, <1>6, <1>7 DEF PapersInv
<1>9. ReviewsInv
  BY <1>1 DEF ReviewsInv, ReviewOK, Bringing!At
<1> QED
  BY <1>8, <1>9

LEMMA BringingSteps ==
  ASSUME FilesAreApart, PapersInv, ReviewsInv, [Bringing!Next]_(Bringing!vars)
  PROVE  PapersInv' /\ ReviewsInv'
<1>1. CASE UNCHANGED Bringing!vars
  <2>1. paper' = paper /\ heads' = heads /\ findable' = findable /\ reviews' = reviews
    BY <1>1 DEF Bringing!vars
  <2>2. PapersInv'
    BY <2>1 DEF PapersInv, PaperOK, HeadOK, IsHead
  <2>3. ReviewsInv'
    BY <2>1 DEF ReviewsInv, ReviewOK, Bringing!At
  <2> QED
    BY <2>2, <2>3
<1>2. ASSUME NEW d \in Files, NEW who, NEW t \in Reviews, NEW decision,
             Bringing!Begin(t, d, who, decision)
      PROVE  PapersInv' /\ ReviewsInv'
  BY <1>2, Decided DEF Bringing!Begin
<1> QED
  BY <1>1, <1>2, Staged, Imported, BegunImported, ReviewIndexed, DraftPublished,
     RejectionBegun, Returned DEF Bringing!Next

\* Whatever is staged, imported, decided, published and sent back, by any number of
\* requests at once: of a topic one version at most is in force, the one its head
\* names; and what is in force or found was decided by one other person than brought
\* it in, and goes to no model outside if it is restricted (document_service.py and
\* ingestion.py of jinshu).
THEOREM DecisionsStayWhole ==
  ASSUME FilesAreApart
  PROVE  Bringing!Spec => [](Bringing!TopicStaysAnswered /\ Bringing!DecisionIsWhole)
<1>1. PapersInv => Bringing!TopicStaysAnswered
  <2> SUFFICES ASSUME PapersInv, NEW t \in Bringing!Topics
               PROVE  /\ heads[t] # None => paper[heads[t]].status \in {"active", "returned"}
                      /\ \A d \in Files : TopicOf[d] = t /\ paper[d] # None
                                            /\ paper[d].status = "active" => d = heads[t]
    BY DEF Bringing!TopicStaysAnswered
  <2>1. ASSUME heads[t] # None PROVE paper[heads[t]].status \in {"active", "returned"}
    <3>1. PICK d : d = heads[t]
      OBVIOUS
    <3>2. d \in Files /\ IsHead(d)
      BY <2>1, <3>1 DEF PapersInv, IsHead
    <3> QED
      BY <3>1, <3>2 DEF PapersInv, HeadOK
  <2>2. ASSUME NEW d \in Files, TopicOf[d] = t, paper[d] # None, paper[d].status = "active"
        PROVE  d = heads[t]
    BY <2>2 DEF PapersInv, PaperOK, IsHead
  <2> QED
    BY <2>1, <2>2
<1>2. FilesAreApart /\ PapersInv => Bringing!DecisionIsWhole
  <2> SUFFICES ASSUME FilesAreApart, PapersInv, NEW d \in Files, paper[d] # None
               PROVE  /\ paper[d].external => paper[d].level < 2
                      /\ d \in findable \cup {heads[TopicOf[d]]} =>
                           paper[d].reviewed # paper[d].uploader
                      /\ ~Bringing!Seeded(d) /\ paper[d].status = "active" =>
                           paper[d].decided = paper[d].reviewed
                      /\ Bringing!Listed(d) => d \in findable
    BY DEF Bringing!DecisionIsWhole
  <2>1. PaperOK(d) /\ HeadOK(d) /\ (d \in findable <=> IsHead(d))
    BY DEF PapersInv
  <2>2. d = heads[TopicOf[d]] => IsHead(d)
    BY DEF IsHead
  <2> QED
    BY <2>1, <2>2 DEF PaperOK, HeadOK, Bringing!Seeded, Bringing!Listed
<1> QED
  BY <1>1, <1>2, BringingInit, BringingSteps, PTL DEF Bringing!Spec

-----------------------------------------------------------------------------
(* The index of any pieces of text (KeywordIndex).                          *)
CONSTANTS Pieces, Volumes, VolumeOf, AreaOf, WordsOf, ByVector, Best

Finding == INSTANCE KeywordIndex WITH
             Docs <- Volumes, Chunks <- Pieces, DocOf <- VolumeOf, DeptOf <- AreaOf,
             TermsOf <- WordsOf, Nearest <- ByVector, Tasks <- Calls, TopK <- Best,
             active <- current, task <- indexing

PiecesAreFinite == IsFiniteSet(Pieces)

\* While none was put there by two requests, the statistics are those of what
\* is there.
IndexInv == held \in SUBSET Pieces /\ (overlapped = {} => Finding!Exact)

\* It counts them as they are counted here.
LEMMA SameNumber == \A S : Finding!Cardinality(S) = Cardinality(S)
  BY DEF Finding!Cardinality, Cardinality

\* The pieces of a set that have the word t, as the statistics count them.
Having(pieces, t) == {p \in pieces : t \in WordsOf[p]}

LEMMA CountsAre ==
  ASSUME NEW pieces
  PROVE  /\ DOMAIN Finding!Counts(pieces) = Finding!Terms
         /\ \A t \in Finding!Terms : Finding!Counts(pieces)[t] = Cardinality(Having(pieces, t))
<1>1. \A t : Having(pieces, t) = {c \in pieces : t \in WordsOf[c]}
  BY DEF Having
<1> QED
  BY <1>1, SameNumber DEF Finding!Counts

LEMMA SomeOfThem ==
  ASSUME PiecesAreFinite, NEW pieces \in SUBSET Pieces
  PROVE  /\ IsFiniteSet(pieces) /\ Cardinality(pieces) \in Nat
         /\ \A t : IsFiniteSet(Having(pieces, t)) /\ Cardinality(Having(pieces, t)) \in Nat
<1>1. IsFiniteSet(pieces)
  BY FS_Subset DEF PiecesAreFinite
<1>2. \A t : IsFiniteSet(Having(pieces, t))
  BY <1>1, FS_Subset DEF Having
<1> QED
  BY <1>1, <1>2, FS_CardinalityType

\* Without some of them, there are as many less as of these had the word.
LEMMA CountsWithout ==
  ASSUME PiecesAreFinite, NEW pieces \in SUBSET Pieces, NEW gone \in SUBSET pieces, NEW t
  PROVE  Cardinality(Having(pieces \ gone, t))
           = Cardinality(Having(pieces, t)) - Cardinality(Having(gone, t))
<1>1. /\ Having(pieces \ gone, t) = Having(pieces, t) \ Having(gone, t)
      /\ Having(pieces, t) \cap Having(gone, t) = Having(gone, t)
  BY DEF Having
<1>2. IsFiniteSet(Having(pieces, t))
  BY SomeOfThem
<1>3. Cardinality(Having(pieces, t) \ Having(gone, t))
        = Cardinality(Having(pieces, t)) - Cardinality(Having(pieces, t) \cap Having(gone, t))
  BY <1>2, FS_Difference
<1> QED
  BY <1>1, <1>3

\* With others that were not there, there are as many more.
LEMMA CountsWith ==
  ASSUME PiecesAreFinite, NEW pieces \in SUBSET Pieces, NEW new \in SUBSET Pieces,
         pieces \cap new = {}, NEW t
  PROVE  Cardinality(Having(pieces \cup new, t))
           = Cardinality(Having(pieces, t)) + Cardinality(Having(new, t))
<1>1. /\ Having(pieces \cup new, t) = Having(pieces, t) \cup Having(new, t)
      /\ Having(pieces, t) \cap Having(new, t) = {}
  BY DEF Having
<1>2. IsFiniteSet(Having(pieces, t)) /\ IsFiniteSet(Having(new, t))
  BY SomeOfThem
<1>3. Cardinality(Having(pieces, t) \cup Having(new, t))
        = Cardinality(Having(pieces, t)) + Cardinality(Having(new, t)) - Cardinality({})
  BY <1>1, <1>2, FS_Union
<1>4. Cardinality(Having(pieces, t)) \in Nat /\ Cardinality(Having(new, t)) \in Nat
  BY SomeOfThem
<1>5. Cardinality({}) = 0
  BY FS_EmptySet
<1>6. Cardinality(Having(pieces \cup new, t))
        = Cardinality(Having(pieces, t)) + Cardinality(Having(new, t)) - 0
  BY <1>1, <1>3, <1>5
<1> QED
  BY <1>4, <1>6

\* Statistics that are right word by word are those of what is there.
LEMMA ExactWordByWord ==
  ASSUME NEW pieces, NEW counts, DOMAIN counts = Finding!Terms,
         counts = [t \in Finding!Terms |-> counts[t]],
         \A t \in Finding!Terms : counts[t] = Cardinality(Having(pieces, t))
  PROVE  counts = Finding!Counts(pieces)
  BY CountsAre DEF Finding!Counts, Having

LEMMA ExactNext ==
  ASSUME held' \in SUBSET Pieces,
         overlapped' = {} => df' = Finding!Counts(held') /\ n' = Cardinality(held')
  PROVE  IndexInv'
  BY SameNumber DEF IndexInv, Finding!Exact, Finding!Counts, Finding!Terms

LEMMA RemovalIsExact ==
  ASSUME PiecesAreFinite, IndexInv, NEW gone \in SUBSET Pieces,
         Finding!RemoveAll(gone), overlapped' = {} => overlapped = {}
  PROVE  IndexInv'
<1>1. held' = held \ gone /\ n' = Cardinality(held \ gone)
  BY SameNumber DEF Finding!RemoveAll
<1>0. held' \in SUBSET Pieces /\ held' = held \ (gone \cap held) /\ n' = Cardinality(held')
  BY <1>1 DEF IndexInv
<1>2. ASSUME overlapped' = {} PROVE df' = Finding!Counts(held')
  <2>1. df = Finding!Counts(held)
    BY <1>2 DEF IndexInv, Finding!Exact
  <2>2. /\ df' = [t \in Finding!Terms |-> df[t] - Finding!Counts(gone \cap held)[t]]
        /\ DOMAIN df' = Finding!Terms
    BY DEF Finding!RemoveAll
  <2>3. \A t \in Finding!Terms :
          df'[t] = Cardinality(Having(held, t)) - Cardinality(Having(gone \cap held, t))
    BY <2>1, <2>2, CountsAre
  <2>4. \A t \in Finding!Terms : df'[t] = Cardinality(Having(held', t))
    BY <1>0, <2>3, CountsWithout DEF IndexInv
  <2> QED
    BY <2>2, <2>4, ExactWordByWord
<1> QED
  BY <1>0, <1>2, ExactNext

LEMMA IndexSteps ==
  ASSUME PiecesAreFinite, IndexInv, [Finding!Next]_(Finding!vars) PROVE IndexInv'
<1> USE PiecesAreFinite
<1>1. \A d : Finding!ChunksOf(d) \in SUBSET Pieces
  BY DEF Finding!ChunksOf
<1>2. ASSUME NEW d \in Volumes, Finding!SetStatus(d) PROVE IndexInv'
  BY <1>1, <1>2, RemovalIsExact DEF Finding!SetStatus
<1>3. ASSUME NEW d \in Volumes, NEW t \in Calls, Finding!BeginReindex(t, d) PROVE IndexInv'
  BY <1>1, <1>3, RemovalIsExact DEF Finding!BeginReindex
<1>4. ASSUME NEW d \in Volumes, Finding!Publish(d) PROVE IndexInv'
  <2>1. PICK mine, others : mine = Finding!ChunksOf(d) /\ others = held \ mine
    OBVIOUS
  <2>2. mine \in SUBSET Pieces /\ others \in SUBSET Pieces /\ others \cap mine = {}
    BY <1>1, <2>1 DEF IndexInv
  <2>3. /\ held' = others \cup mine /\ n' = Cardinality(held') /\ overlapped' = overlapped
        /\ df' = [t \in Finding!Terms |->
                    df[t] - Finding!Counts(held \cap mine)[t] + Finding!Counts(mine)[t]]
        /\ DOMAIN df' = Finding!Terms
    <3>1. /\ held' = others \cup mine /\ n' = Cardinality(others \cup mine)
          /\ overlapped' = overlapped
      BY <1>4, <2>1, SameNumber DEF Finding!Publish
    <3>2. df' = [t \in Finding!Terms |->
                   df[t] - Finding!Counts(held \cap mine)[t] + Finding!Counts(mine)[t]]
      BY <1>4, <2>1 DEF Finding!Publish
    <3> QED
      BY <3>1, <3>2
  <2>4. ASSUME overlapped = {} PROVE df' = Finding!Counts(held')
    <3>1. df = Finding!Counts(held)
      BY <2>4 DEF IndexInv, Finding!Exact
    <3>2. \A t \in Finding!Terms :
            df'[t] = Cardinality(Having(held, t)) - Cardinality(Having(held \cap mine, t))
                       + Cardinality(Having(mine, t))
      BY <2>3, <3>1, CountsAre
    <3>3. \A t \in Finding!Terms :
            Cardinality(Having(others, t))
              = Cardinality(Having(held, t)) - Cardinality(Having(held \cap mine, t))
      <4>1. held \cap mine \in SUBSET held /\ others = held \ (held \cap mine)
        BY <2>1
      <4> QED
        BY <4>1, CountsWithout DEF IndexInv
    <3>4. \A t \in Finding!Terms :
            Cardinality(Having(held', t))
              = Cardinality(Having(others, t)) + Cardinality(Having(mine, t))
      BY <2>2, <2>3, CountsWith
    <3>5. \A t \in Finding!Terms : df'[t] = Cardinality(Having(held', t))
      BY <3>2, <3>3, <3>4
    <3> QED
      BY <2>3, <3>5, ExactWordByWord
  <2> QED
    BY <2>2, <2>3, <2>4, ExactNext
<1>5. ASSUME NEW t \in Calls, NEW c \in Pieces, Finding!AddBack(t, c) PROVE IndexInv'
  <2>1. CASE UNCHANGED Finding!counted /\ UNCHANGED overlapped
    BY <2>1 DEF Finding!counted, IndexInv, Finding!Exact
  <2>2. ASSUME Finding!Add(c),
               overlapped' = IF c \in held THEN overlapped \cup {VolumeOf[c]} ELSE overlapped
        PROVE  IndexInv'
    <3>1. /\ held' \in SUBSET Pieces /\ held' = held \cup {c} /\ n' = n + 1
          /\ df' = [w \in Finding!Terms |-> IF w \in WordsOf[c] THEN df[w] + 1 ELSE df[w]]
          /\ DOMAIN df' = Finding!Terms
      BY <2>2 DEF Finding!Add, IndexInv
    <3>2. ASSUME overlapped' = {} PROVE df' = Finding!Counts(held') /\ n' = Cardinality(held')
      <4>1. overlapped = {} /\ c \notin held
        BY <2>2, <3>2
      <4>2. held \in SUBSET Pieces /\ df = Finding!Counts(held) /\ n = Cardinality(held)
        BY <4>1, SameNumber DEF IndexInv, Finding!Exact
      <4>3. n' = Cardinality(held')
        BY <3>1, <4>1, <4>2, SomeOfThem, FS_AddElement
      <4>4. \A w \in Finding!Terms : df'[w] = Cardinality(Having(held', w))
        <5> SUFFICES ASSUME NEW w \in Finding!Terms PROVE df'[w] = Cardinality(Having(held', w))
          OBVIOUS
        <5>1. Cardinality(Having(held', w)) = Cardinality(Having(held, w)) + Cardinality(Having({c}, w))
          BY <3>1, <4>1, <4>2, CountsWith
        <5>2. Having({c}, w) = IF w \in WordsOf[c] THEN {c} ELSE {}
          BY DEF Having
        <5>3. Cardinality(Having({c}, w)) = IF w \in WordsOf[c] THEN 1 ELSE 0
          BY <5>2, FS_EmptySet, FS_Singleton
        <5>4. df[w] = Cardinality(Having(held, w)) /\ df[w] \in Nat
          BY <4>2, CountsAre, SomeOfThem
        <5> QED
          BY <3>1, <5>1, <5>3, <5>4
      <4> QED
        BY <3>1, <4>3, <4>4, ExactWordByWord
    <3> QED
      BY <3>1, <3>2, ExactNext
  <2> QED
    BY <1>5, <2>1, <2>2 DEF Finding!AddBack
<1>6. CASE Finding!Restart
  BY <1>6 DEF Finding!Restart, Finding!Live, IndexInv, Finding!Exact
<1>7. CASE UNCHANGED Finding!vars \/ \E t \in Calls : Finding!GiveUp(t)
  BY <1>7 DEF Finding!vars, Finding!counted, Finding!GiveUp, IndexInv, Finding!Exact
<1> QED
  BY <1>2, <1>3, <1>4, <1>5, <1>6, <1>7 DEF Finding!Next

\* For any finite set of pieces, terms and requests: as long as no document is put
\* into the index by two requests at once, what was corrected piece by piece, by
\* requests that publish, withdraw and index anew, is what an index built anew
\* would count (bm25.py).
THEOREM StatisticsStayExact ==
  ASSUME PiecesAreFinite PROVE Finding!Spec => [](overlapped = {} => Finding!Exact)
<1>1. Finding!Init => IndexInv
  BY DEF Finding!Init, Finding!Live, IndexInv, Finding!Exact
<1>2. PiecesAreFinite /\ IndexInv /\ [Finding!Next]_(Finding!vars) => IndexInv'
  BY IndexSteps
<1>3. IndexInv => (overlapped = {} => Finding!Exact)
  BY DEF IndexInv
<1> QED
  BY <1>1, <1>2, <1>3, PTL DEF Finding!Spec
=============================================================================
