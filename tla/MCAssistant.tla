----------------------------- MODULE MCAssistant -----------------------------
(***************************************************************************)
(* What one person meets who asks: a chat session and its deletion, the     *)
(* memories its context is built from, the pieces documents are cut into    *)
(* and the index they are found by, the calls of models, the stages an      *)
(* answer goes through, the agents the stages have run by the service       *)
(* beside the backend, and how documents come into force.                  *)
(* They share no state in this instance, so each behavior is one of a       *)
(* single part, chosen at the start, and the others stay as they began.     *)
(* The memories of the organization and those of the user are taken one     *)
(* after the other: no step of theirs touches a row of the other.           *)
(***************************************************************************)
EXTENDS Integers, Sequences, FiniteSets

CONSTANTS
  Foci, None,
  c1, c2, c3, e1, e2,
  Turns, Users,
  Documents, Items, Notes, Readers, MaxUses,
  Chunks, DeptOf, Approved, Remembered, MAX_VERIFY_RETRY,
  Calls, Cycles, Depts, MaxArtifacts,
  MaxBlocks,
  People, Reviews

VARIABLES
  focus,
  context, counter, life, events, traces, summary, turn, clearing,
  active, past, item, note, author, writer, reader,
  inforce, allowed, opted, stage, depts, recalled, hits, evidence, mode, draft,
  attempt, sent, told, checked, judged,
  configured, stages, run, reply, phase, artifacts, dag,
  blocks,
  current, held, df, n, vectors, indexing, overlapped,
  env, endpoint, call, waiting, serving, loaded, answers,
  paper, heads, findable, reviews

Sessions == INSTANCE Session
Memories == INSTANCE Memory
Answers == INSTANCE Pipeline WITH chunks <- evidence
Agents == INSTANCE PiAgent WITH stage <- stages, Departments <- Depts

\* The last of the chunks is of another department.
LastApart == [c \in Chunks |-> IF c = c3 THEN e2 ELSE e1]

\* Lengths in hundreds of characters; every = 0 is a text without sentences.  Tables
\* that are all header, of one line and of two, one under a single line and one
\* whose rows are cut.
Kinds ==
  [kind : {"heading"}, n : 1 .. 3, every : {0}, head : {0}, width : {0}]
    \cup [kind : {"text"}, n : {2, 5, 23}, every : {0, 4}, head : {0}, width : {0}]
    \cup {[kind |-> "table", n |-> 0, every |-> 0, head |-> 1, width |-> 2],
          [kind |-> "table", n |-> 0, every |-> 0, head |-> 2, width |-> 1],
          [kind |-> "table", n |-> 4, every |-> 0, head |-> 1, width |-> 1],
          [kind |-> "table", n |-> 3, every |-> 3, head |-> 2, width |-> 2]}
    \cup [kind : {"clause"}, n : {1}, every : {0}, head : {0}, width : {0}]
    \cup [kind : {"noise"}, n : {0, 1}, every : {0}, head : {0}, width : {0}]
Cutting == INSTANCE Chunking WITH
             Blocks <- Kinds, MIN_CHARS <- 3, MAX_CHARS <- 6, RowsPerPiece <- 3,
             Window <- 4, Step <- 3, TableChars <- 3,
             PlainChars <- 6, LongLine <- 9, FirstCut <- 2, PageChars <- 6, PerPage <- 2

\* Of two documents of one department and one of another.
Indexed == {"a1", "a2", "b1", "z1"}
Index == INSTANCE KeywordIndex WITH
           Docs <- {"a", "b", "z"}, Chunks <- Indexed,
           DocOf <- [c \in Indexed |-> CASE c \in {"a1", "a2"} -> "a" [] c = "b1" -> "b" [] OTHER -> "z"],
           DeptOf <- [c \in Indexed |-> IF c = "z1" THEN e2 ELSE e1],
           TermsOf <- [c \in Indexed |-> CASE c = "a1" -> {"s", "t"} [] c = "b1" -> {"t"} [] OTHER -> {"s"}],
           Nearest <- <<"a2", "b1", "a1", "z1">>, Tasks <- Calls, TopK <- 2,
           active <- current, task <- indexing

Models == INSTANCE ModelCalls WITH
            Texts <- 3, BatchSize <- 2, Capacity <- 2, TopK <- 2, Retries <- 2
\* A topic with a version in force and a draft of the next, and another topic.
Papers == {"v1", "v2", "w"}
Desk == INSTANCE Staging WITH
          Docs <- Papers, Tasks <- Reviews,
          Topic <- [x \in Papers |-> IF x = "w" THEN "other" ELSE "one"],
          Version <- [x \in Papers |-> IF x = "v2" THEN 2 ELSE 1],
          Seeds <- [x \in {"v1", "v2"} |-> IF x = "v1" THEN "active" ELSE "pending_review"],
          Decisions <- [level : {1, 2}, external : BOOLEAN]

NotSet == [base |-> "", key |-> "", model |-> ""]

sessions == <<context, counter, life, events, traces, summary, turn, clearing>>
memories == <<active, past, item, note, author, writer, reader>>
answering == <<inforce, allowed, opted, stage, depts, recalled, hits, evidence, mode,
             draft, attempt, sent, told, checked, judged>>
agents == <<configured, stages, run, reply, phase, artifacts, dag>>
index == <<current, held, df, n, vectors, indexing, overlapped>>
models == <<env, endpoint, call, waiting, serving, loaded, answers>>
papers == <<paper, heads, findable, reviews>>

MCInit ==
  /\ focus \in Foci
  /\ Sessions!Init
  /\ Memories!Init
  /\ Answers!Init
  /\ Agents!Init
  /\ focus \notin {"runs", "dag"} => phase = "human_in_loop"
  /\ focus # "dag" => configured = None
  /\ focus # "answers" => opted /\ allowed = {}
  /\ Cutting!Init
  /\ Index!Init
  /\ focus # "index" => current = {}
  /\ env \in IF focus = "configuration" THEN Models!Environments
             ELSE {[selection |-> "auto", vercel |-> FALSE, chat |-> NotSet,
                    deepseek |-> NotSet, relay |-> [NotSet EXCEPT !.model = "named"]]}
  /\ endpoint \in IF focus = "models" THEN {"gateway", "provider"} ELSE {"gateway"}
  /\ Models!Init
  /\ Desk!Init

\* Turns, users and documents are interchangeable, so one of each goes first.
FirstTurn == CHOOSE t \in Turns : TRUE
FirstUser == CHOOSE u \in Users : TRUE
FirstDocument == CHOOSE d \in Documents : TRUE

SessionStep ==
  /\ focus = "sessions"
  /\ Sessions!Next
  /\ turn'[FirstTurn].user \in {None, FirstUser}
  /\ turn'[FirstTurn] = Sessions!Idle => turn' = turn
  /\ UNCHANGED <<focus, memories, answering, agents, blocks, index, models, papers>>

MemoryStep ==
  /\ \/ focus = "organization" /\ Memories!Organization
     \/ focus = "notes" /\ Memories!Personal
     \/ focus \in {"organization", "notes"} /\ Memories!Context
  /\ FirstDocument \in active' => active' = active
  /\ UNCHANGED <<focus, sessions, answering, agents, blocks, index, models, papers>>

AnswerStep ==
  /\ focus = "answers"
  /\ Answers!Next
  /\ UNCHANGED <<focus, sessions, memories, agents, blocks, index, models, papers>>

AgentStep ==
  /\ \/ focus = "runs" /\ (Agents!Stages \/ Agents!Loop)
     \/ focus = "dag" /\ Agents!Answering
  /\ UNCHANGED <<focus, sessions, memories, answering, blocks, index, models, papers>>

CutStep ==
  /\ focus = "documents"
  /\ Cutting!Next
  /\ UNCHANGED <<focus, sessions, memories, answering, agents, index, models, papers>>

IndexStep ==
  /\ focus = "index"
  /\ Index!Next
  /\ UNCHANGED <<focus, sessions, memories, answering, agents, blocks, models, papers>>

\* Calls of a provider do not meet, those of the gateway do.
ModelStep ==
  /\ focus = "models"
  /\ Models!Next
  /\ endpoint = "provider" => Cardinality({c \in Calls : call'[c].by # None}) = 1
  /\ UNCHANGED <<focus, sessions, memories, answering, agents, blocks, index, papers>>

DeskStep ==
  /\ focus = "desk"
  /\ Desk!Next
  /\ UNCHANGED <<focus, sessions, memories, answering, agents, blocks, index, models>>

MCNext ==
  SessionStep \/ MemoryStep \/ AnswerStep \/ AgentStep \/ CutStep \/ IndexStep
    \/ ModelStep \/ DeskStep

MCSpec ==
  MCInit /\ [][MCNext]_<<focus, sessions, memories, answering, agents, blocks, index, models, papers>>
-----------------------------------------------------------------------------
(* Session, Memory, Pipeline, PiAgent, Chunking, KeywordIndex,               *)
(* ModelCalls and Staging say what these mean for their code.              *)
MemoryHolds == Sessions!TurnsAreRecorded /\ Memories!WithdrawnIsNotRecalled
PassedIsGrounded == Answers!PassedIsGrounded
PiIsContained == Agents!PiIsContained
TextsAreFound ==
  /\ focus = "documents" => Cutting!PiecesAreWhole
  /\ focus = "index" => Index!IndexIsExact
  /\ focus = "configuration" => Models!KeysStayHome
  /\ focus = "models" => Models!ResultsAreTheirOwn
  /\ focus = "desk" => Desk!TopicStaysAnswered /\ Desk!DecisionIsWhole
=============================================================================
