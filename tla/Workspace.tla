------------------------------ MODULE Workspace ------------------------------
(***************************************************************************)
(* The governed workspace: core/governance.py, core/workspace.py and what  *)
(* core/rag.py takes for an active document.  Documents are submitted and  *)
(* published by another person; chat requests retrieve from them, wait for *)
(* the model and save their answer to a conversation; answers are given    *)
(* feedback; feedback makes candidate skills, which are replayed, released *)
(* to a share of the owners, promoted and rolled back.                     *)
(*                                                                         *)
(* Every operation is one Store.mutate (FactStore), but a chat request     *)
(* reads the state, calls the model, and mutates later.  A session is a    *)
(* member of Principals; logging in and out is left out.                   *)
(***************************************************************************)
EXTENDS Naturals, Sequences, FiniteSets

CONSTANTS
  Principals,       \* browsers: [owner, username, role]
  Forms,            \* documents one can submit: [topic, department, version,
                    \* effective, expires]
  Departments,      \* the departments a question can be put to
  Categories,       \* of feedback
  Chats,            \* chat requests, each made at most once; one that starts a
                    \* conversation lends it its name
  MayFind(_),       \* what the search may return of a set of documents
  Bucket(_, _),     \* the bucket 0..99 of an owner for a skill (policy)
  LastDay,          \* bound of the model
  MaxDocuments,     \* 80
  MaxPerOwner,      \* 20 conversations
  MaxConversations, \* 100
  MaxRounds,        \* 20
  MaxFeedback,      \* 200
  MaxStamp,         \* bound of the model: a feedback is sent this often
  MaxSkills,        \* bound of the model
  MinUsers,         \* 5
  MinCases,         \* 3
  None

ASSUME FormsAssumption == \A form \in Forms : form.version \in Nat
ASSUME PeopleAssumption == \A who \in Principals : who.username # None

VARIABLES
  today,          \* date.today()
  documents,      \* in the order of submission; the place of one is its id
  conversations,  \* the row of each conversation, or None
  feedback,       \* in the order of the first submission
  skills,         \* in the order of proposal; the place of one is its id
  chat,           \* where each chat request is
  context         \* what one under way has read, or None

store == <<documents, conversations, feedback, skills>>
requests == <<chat, context>>
vars == <<today, store, requests>>

Init ==
  /\ today = 0
  /\ documents = <<>>
  /\ conversations = [c \in Chats |-> None]
  /\ feedback = <<>>
  /\ skills = <<>>
  /\ chat = [q \in Chats |-> "unused"]
  /\ context = [q \in Chats |-> None]
-----------------------------------------------------------------------------
(* Documents.                                                              *)

InForce(d) == d.effective <= today /\ today <= d.expires

Covers(d, department) ==
  department = "all" \/ d.department \in {"shared", department}

\* active_documents that may be sent to the model.  The text of a document
\* never changes, so that its id stands for version and hashes.
Citable(department) ==
  {i \in 1..Len(documents) :
     /\ documents[i].status = "active"
     /\ documents[i].external
     /\ Covers(documents[i], department)
     /\ InForce(documents[i])}

SameTopic(d, e) == d.topic = e.topic /\ d.department = e.department

Submit(who, form) ==
  /\ who.role \in {"editor", "reviewer"}
  /\ Len(documents) < MaxDocuments
  /\ ~\E i \in 1..Len(documents) :
        SameTopic(documents[i], form) /\ documents[i].version = form.version
  /\ documents' = Append(documents,
       [topic |-> form.topic, department |-> form.department,
        version |-> form.version, effective |-> form.effective,
        expires |-> form.expires, author |-> who.username,
        status |-> "pending", external |-> FALSE])
  /\ UNCHANGED <<today, conversations, feedback, skills, requests>>

Published(d) ==
  {i \in 1..Len(documents) :
     documents[i].status = "active" /\ SameTopic(documents[i], d)}

Pending(who, i) ==
  /\ who.role = "reviewer"
  /\ documents[i].status = "pending"
  /\ documents[i].author # who.username

Reject(who, i) ==
  /\ Pending(who, i)
  /\ documents' = [documents EXCEPT ![i].status = "rejected"]
  /\ UNCHANGED <<today, conversations, feedback, skills, requests>>

\* Mutant: the version is not held against those published.
PublishAnyVersion(who, i, external) ==
  /\ Pending(who, i)
  /\ InForce(documents[i])
  /\ documents' = [j \in 1..Len(documents) |->
       IF j = i THEN [documents[j] EXCEPT !.status = "active",
                                          !.external = external]
       ELSE IF j \in Published(documents[i])
       THEN [documents[j] EXCEPT !.status = "archived"] ELSE documents[j]]
  /\ UNCHANGED <<today, conversations, feedback, skills, requests>>

Publish(who, i, external) ==
  /\ Pending(who, i)
  /\ \A j \in Published(documents[i]) : documents[j].version < documents[i].version
  /\ InForce(documents[i])
  /\ documents' = [j \in 1..Len(documents) |->
       IF j = i THEN [documents[j] EXCEPT !.status = "active",
                                          !.external = external]
       ELSE IF j \in Published(documents[i])
       THEN [documents[j] EXCEPT !.status = "archived"] ELSE documents[j]]
  /\ UNCHANGED <<today, conversations, feedback, skills, requests>>

NextDay ==
  /\ today < LastDay
  /\ today' = today + 1
  /\ UNCHANGED <<store, requests>>
-----------------------------------------------------------------------------
(* Skills: the evidence they were replayed on, and who is served one.      *)

Place(turn) == {i \in 1..Len(feedback) : feedback[i].turn = turn}
Exists(turn) == Place(turn) # {}
FeedbackOn(turn) == feedback[CHOOSE i \in Place(turn) : TRUE]

\* Mutant: the binding names the cases, not what they hold.
BindingToIds(s) ==
  [docs |-> Citable(skills[s].department), cases |-> skills[s].cases]

Binding(s) ==
  [docs |-> Citable(skills[s].department),
   cases |-> [t \in skills[s].cases |->
                IF Exists(t) THEN FeedbackOn(t) ELSE None]]

Fits(s) == skills[s].replay.binding = Binding(s)

Serving(department) ==
  {s \in 1..Len(skills) :
     /\ skills[s].status = "active"
     /\ skills[s].department \in {department, "all"}
     /\ Fits(s)}

\* The first skill that serves the department, and the group of the owner.
Policy(owner, department) ==
  IF Serving(department) = {} THEN [skill |-> 0, group |-> "baseline"]
  ELSE LET s == CHOOSE s \in Serving(department) :
                  \A r \in Serving(department) : s <= r
       IN [skill |-> s,
           group |-> IF Bucket(owner, s) < skills[s].rollout
                     THEN "treatment" ELSE "control"]
-----------------------------------------------------------------------------
(* Conversations.                                                          *)

Present(c) == conversations[c] # None
Trace(turns) == [i \in 1..Len(turns) |-> turns[i].chat]

\* prepare(): a new conversation or one of the browser's own, at the revision
\* the client has; the sources are what the search makes of the documents.
Prepare(q, who, c, department, sources) ==
  /\ chat[q] = "unused"
  /\ \/ c = q
     \/ Present(c) /\ conversations[c].owner = who.owner
  /\ sources \in MayFind(Citable(department))
  /\ chat' = [chat EXCEPT ![q] = "underway"]
  /\ context' = [context EXCEPT ![q] =
       [conversation |-> c, owner |-> who.owner, department |-> department,
        sources |-> sources,
        revision |-> IF Present(c) THEN conversations[c].revision ELSE 0,
        seen |-> IF Present(c) THEN Trace(conversations[c].turns) ELSE <<>>,
        policy |-> Policy(who.owner, department)]]
  /\ UNCHANGED <<today, store>>

OwnedBy(owner) == {c \in Chats : Present(c) /\ conversations[c].owner = owner}

\* save_answer() finds the conversation it may add to, or makes it.
Room(b) ==
  IF Present(b.conversation)
  THEN /\ conversations[b.conversation].owner = b.owner
       /\ conversations[b.conversation].revision = b.revision
       /\ Len(conversations[b.conversation].turns) < MaxRounds
  ELSE /\ Cardinality(OwnedBy(b.owner)) < MaxPerOwner
       /\ Cardinality({c \in Chats : Present(c)}) < MaxConversations

\* Mutant: what could be cited when the question was put.
CitableWhenAsked(b) == b.sources \subseteq 1..Len(documents)

\* verify_current_sources.
StillCitable(b) == b.sources \subseteq Citable(b.department)

Turn(q) ==
  [chat |-> q, seen |-> context[q].seen, sources |-> context[q].sources,
   department |-> context[q].department, policy |-> context[q].policy]

\* The model has answered and the citations are in order.
SaveAnswer(q) ==
  LET b == context[q]
      c == b.conversation
      row == IF Present(c) THEN conversations[c]
             ELSE [owner |-> b.owner, revision |-> 0, turns |-> <<>>]
  IN /\ chat[q] = "underway"
     /\ Room(b)
     /\ StillCitable(b)
     /\ conversations' = [conversations EXCEPT ![c] =
          [row EXCEPT !.revision = @ + 1, !.turns = Append(@, Turn(q))]]
     /\ chat' = [chat EXCEPT ![q] = "saved"]
     /\ context' = [context EXCEPT ![q] = None]
     /\ UNCHANGED <<today, documents, feedback, skills>>

\* The model fails, the answer is refused, or the client is gone.
Abandon(q) ==
  /\ chat[q] = "underway"
  /\ chat' = [chat EXCEPT ![q] = "failed"]
  /\ context' = [context EXCEPT ![q] = None]
  /\ UNCHANGED <<today, store>>

\* The feedback on other conversations, and the order it is in.
Others(c) == {i \in 1..Len(feedback) : feedback[i].conversation # c}
InOrder(places) ==
  {f \in [1..Cardinality(places) -> places] : \A m, n \in DOMAIN f : m < n => f[m] < f[n]}

Forget(who, c) ==
  /\ Present(c)
  /\ conversations[c].owner = who.owner
  /\ conversations' = [conversations EXCEPT ![c] = None]
  /\ \E f \in InOrder(Others(c)) : feedback' = [i \in DOMAIN f |-> feedback[f[i]]]
  /\ UNCHANGED <<today, documents, skills, requests>>
-----------------------------------------------------------------------------
(* Feedback, and the guardrail it sets off.                                *)

\* skill_metrics: of each owner in the group the last record counts.
Votes(fb, s, group) ==
  {i \in 1..Len(fb) : fb[i].policy = [skill |-> s, group |-> group]}
Owners(fb, s, group) == {fb[i].owner : i \in Votes(fb, s, group)}
Resolved(fb, s, group) ==
  {o \in Owners(fb, s, group) :
     \E i \in Votes(fb, s, group) :
       /\ fb[i].owner = o /\ fb[i].resolved
       /\ \A j \in Votes(fb, s, group) : fb[j].owner = o => j <= i}

Users(fb, s, group) == Cardinality(Owners(fb, s, group))
Happy(fb, s, group) == Cardinality(Resolved(fb, s, group))

Measured(fb, s) ==
  \A group \in {"control", "treatment"} : Users(fb, s, group) >= MinUsers

\* The rate of the treatment is more than 10 points below the control's.  The
\* code has floats, which may round either way at 10 points exactly.
Worse(fb, s) ==
  LET t == Users(fb, s, "treatment")
      c == Users(fb, s, "control")
  IN /\ Measured(fb, s)
     /\ 10 * Happy(fb, s, "treatment") * c + t * c
          < 10 * Happy(fb, s, "control") * t

Stopped(s) == [skills EXCEPT ![s].status = "rolled_back", ![s].rollout = 0]

\* Mutant: only complaints make it look at the metrics.
GuardedAtComplaints(fb, f) ==
  LET s == f.policy.skill IN
  IF s # 0 /\ ~f.resolved /\ skills[s].status = "active" /\ Worse(fb, s)
  THEN Stopped(s) ELSE skills

Guarded(fb, f) ==
  LET s == f.policy.skill IN
  IF s # 0 /\ skills[s].status = "active" /\ Worse(fb, s)
  THEN Stopped(s) ELSE skills

\* Feedback on the i-th answer of one's own conversation, new or once more.
GiveFeedback(who, c, i, resolved, category, expected) ==
  /\ Present(c)
  /\ conversations[c].owner = who.owner
  /\ i \in 1..Len(conversations[c].turns)
  /\ LET turn == conversations[c].turns[i]
         again == Exists(turn.chat)
         f == [turn |-> turn.chat, conversation |-> c, owner |-> who.owner,
               resolved |-> resolved, category |-> category,
               expected |-> expected, department |-> turn.department,
               policy |-> turn.policy,
               stamp |-> IF again THEN FeedbackOn(turn.chat).stamp + 1 ELSE 1]
         fb == IF again
               THEN [j \in 1..Len(feedback) |->
                       IF j \in Place(turn.chat) THEN f ELSE feedback[j]]
               ELSE Append(feedback, f)
     IN /\ expected \subseteq Citable(turn.department)
        /\ Len(feedback) < MaxFeedback \/ again
        /\ f.stamp <= MaxStamp
        /\ feedback' = fb
        /\ skills' = Guarded(fb, f)
  /\ UNCHANGED <<today, documents, conversations, requests>>
-----------------------------------------------------------------------------
(* Skills: proposal, replay, release.                                      *)

Propose(who, cases) ==
  /\ who.role \in {"editor", "operator", "reviewer"}
  /\ Len(skills) < MaxSkills
  /\ cases # {}
  /\ \A t \in cases : Exists(t)
  /\ \E d \in Departments :
       /\ \A t \in cases : FeedbackOn(t).department = d
       /\ \E t \in cases : FeedbackOn(t).category # "knowledge_gap"
       /\ skills' = Append(skills,
            [author |-> who.username, department |-> d, cases |-> cases,
             status |-> "draft", rollout |-> 0, replay |-> None,
             reviewer |-> None])
  /\ UNCHANGED <<today, documents, conversations, feedback, requests>>

\* Cases that still exist, each with a label one can cite.
Labelled(s) ==
  {t \in skills[s].cases :
     /\ Exists(t)
     /\ FeedbackOn(t).expected # {}
     /\ FeedbackOn(t).expected \subseteq Citable(skills[s].department)}

\* Mutant: any candidate can be replayed.
ReplayAny(who, s, passed) ==
  /\ who.role \in {"editor", "operator", "reviewer"}
  /\ passed => Cardinality(Labelled(s)) >= MinCases
  /\ skills' = [skills EXCEPT ![s].status = "evaluated",
                  ![s].replay = [passed |-> passed, binding |-> Binding(s)]]
  /\ UNCHANGED <<today, documents, conversations, feedback, requests>>

\* The replay passes on at least MinCases distinct questions or not at all;
\* which of the cases ask the same and which are hit is left open.
Replay(who, s, passed) ==
  /\ who.role \in {"editor", "operator", "reviewer"}
  /\ skills[s].status \in {"draft", "evaluated"}
  /\ passed => Cardinality(Labelled(s)) >= MinCases
  /\ skills' = [skills EXCEPT ![s].status = "evaluated",
                  ![s].replay = [passed |-> passed, binding |-> Binding(s)]]
  /\ UNCHANGED <<today, documents, conversations, feedback, requests>>

MayRelease(who, s) == who.role = "reviewer" /\ who.username # skills[s].author

\* Mutant: another candidate of the department may be active.
CanaryNextToAnother(who, s) ==
  /\ MayRelease(who, s)
  /\ skills[s].status = "evaluated" /\ skills[s].replay.passed
  /\ Fits(s)
  /\ skills' = [skills EXCEPT ![s].status = "active", ![s].rollout = 5,
                              ![s].reviewer = who.username]
  /\ UNCHANGED <<today, documents, conversations, feedback, requests>>

Canary(who, s) ==
  /\ MayRelease(who, s)
  /\ skills[s].status = "evaluated" /\ skills[s].replay.passed
  /\ Fits(s)
  /\ ~\E r \in 1..Len(skills) :
        skills[r].status = "active" /\ skills[r].department = skills[s].department
  /\ skills' = [skills EXCEPT ![s].status = "active", ![s].rollout = 5,
                              ![s].reviewer = who.username]
  /\ UNCHANGED <<today, documents, conversations, feedback, requests>>

NextStep(rollout) ==
  CASE rollout = 5 -> 20 [] rollout = 20 -> 50 [] OTHER -> 100

Promote(who, s) ==
  /\ MayRelease(who, s)
  /\ skills[s].status = "active"
  /\ Fits(s)
  /\ Measured(feedback, s)
  /\ Happy(feedback, s, "treatment") * Users(feedback, s, "control")
       >= Happy(feedback, s, "control") * Users(feedback, s, "treatment")
  /\ skills' = [skills EXCEPT ![s].rollout = NextStep(@)]
  /\ UNCHANGED <<today, documents, conversations, feedback, requests>>

Rollback(who, s) ==
  /\ MayRelease(who, s)
  /\ skills[s].status = "active"
  /\ skills' = Stopped(s)
  /\ UNCHANGED <<today, documents, conversations, feedback, requests>>
-----------------------------------------------------------------------------
Documents ==
  \E who \in Principals :
    \/ \E form \in Forms : Submit(who, form)
    \/ \E i \in 1..Len(documents) :
         \/ Reject(who, i)
         \/ \E external \in BOOLEAN : Publish(who, i, external)

Conversing ==
  \/ \E q \in Chats : SaveAnswer(q) \/ Abandon(q)
  \/ \E who \in Principals, c \in Chats :
       \/ Forget(who, c)
       \/ \E q \in Chats, d \in Departments : \E sources \in MayFind(Citable(d)) :
            Prepare(q, who, c, d, sources)

Feeding ==
  \E who \in Principals, c \in Chats, i \in 1..MaxRounds, resolved \in BOOLEAN,
     category \in Categories, expected \in SUBSET (1..Len(documents)) :
    GiveFeedback(who, c, i, resolved, category, expected)

Releasing ==
  \E who \in Principals :
    \/ \E cases \in SUBSET Chats : Propose(who, cases)
    \/ \E s \in 1..Len(skills) :
         \/ \E passed \in BOOLEAN : Replay(who, s, passed)
         \/ Canary(who, s) \/ Promote(who, s) \/ Rollback(who, s)

Next == NextDay \/ Documents \/ Conversing \/ Feeding \/ Releasing

Spec == Init /\ [][Next]_vars
-----------------------------------------------------------------------------
(* Properties.                                                             *)

Contexts ==
  [conversation : Chats, owner : {who.owner : who \in Principals},
   department : Departments, sources : SUBSET (1..MaxDocuments),
   revision : Nat, seen : Seq(Chats),
   policy : [skill : 0..MaxSkills, group : {"baseline", "control", "treatment"}]]

\* The types of the state, with the caps on conversations, their rounds,
\* documents and feedback.
TypeOK ==
  /\ today \in 0..LastDay
  /\ Len(documents) <= MaxDocuments
  /\ \A i \in 1..Len(documents) :
       documents[i].status \in {"pending", "rejected", "active", "archived"}
  /\ \A c \in Chats : Present(c) =>
       /\ Len(conversations[c].turns) \in 1..MaxRounds
       /\ conversations[c].revision = Len(conversations[c].turns)
       /\ Cardinality(OwnedBy(conversations[c].owner)) <= MaxPerOwner
  /\ Cardinality({c \in Chats : Present(c)}) <= MaxConversations
  /\ Len(feedback) <= MaxFeedback
  /\ \A s \in 1..Len(skills) :
       /\ skills[s].status \in {"draft", "evaluated", "active", "rolled_back"}
       /\ skills[s].rollout \in IF skills[s].status = "active"
                                THEN {5, 20, 50, 100} ELSE {0}
  /\ \A q \in Chats :
       IF chat[q] = "underway" THEN context[q] \in Contexts
       ELSE chat[q] \in {"unused", "saved", "failed"} /\ context[q] = None

\* Whatever the order in which versions of a topic are submitted, approved
\* and expire, one at most is in force, and it is newer than every version
\* that ever was.
NewestVersionInForce ==
  \A i, j \in 1..Len(documents) :
    ( /\ i # j
      /\ documents[i].status = "active"
      /\ documents[j].status \in {"active", "archived"}
      /\ SameTopic(documents[i], documents[j]) )
      => documents[j].version < documents[i].version

\* An answer was given on the turns that stand before it, whatever other
\* answers were saved meanwhile.  A conversation made again by an answer that
\* outlived its deletion is not held to it: what its first turn has seen is
\* gone.
AnswersFollowTurns ==
  \A c \in Chats : Present(c) =>
    LET turns == conversations[c].turns IN
    turns[1].chat = c =>
      \A i \in 1..Len(turns) :
        turns[i].seen = [j \in 1..(i - 1) |-> turns[j].chat]

\* No feedback outlives its answer, and each is its owner's: what a browser
\* deletes cannot be read by operations any longer.
FeedbackHasTurn ==
  \A i \in 1..Len(feedback) :
    LET f == feedback[i] IN
    /\ Present(f.conversation)
    /\ conversations[f.conversation].owner = f.owner
    /\ \E j \in 1..Len(conversations[f.conversation].turns) :
         conversations[f.conversation].turns[j].chat = f.turn

\* What an answer cites when it is saved is in force and the newest version
\* of its topic, whatever was published or expired while the model answered.
AnswersCiteCurrent ==
  [][\A q \in Chats : chat[q] = "underway" /\ chat'[q] = "saved" =>
       \A i \in context[q].sources :
         /\ documents[i].status = "active" /\ documents[i].external
         /\ InForce(documents[i])
         /\ ~\E j \in 1..Len(documents) :
               /\ SameTopic(documents[i], documents[j])
               /\ documents[j].status = "active"
               /\ documents[j].version > documents[i].version]_vars

\* A candidate in use passed its replay, was released by somebody else than
\* its author, and is the only one of its department.
ActiveIsReviewed ==
  \A s \in 1..Len(skills) : skills[s].status = "active" =>
    /\ skills[s].replay.passed
    /\ skills[s].reviewer \notin {None, skills[s].author}
    /\ \A r \in 1..Len(skills) \ {s} :
         skills[r].status = "active" =>
           skills[r].department # skills[s].department

\* workspace.py:195, no orphaned treatment: whoever is served a candidate,
\* the cases it passed on still exist with the labels, and what they point to
\* can still be cited.
NoOrphanedTreatment ==
  [][\A q \in Chats :
       LET p == context'[q].policy IN
       chat[q] = "unused" /\ chat'[q] = "underway" /\ p.skill # 0 =>
         Cardinality(Labelled(p.skill)) >= MinCases]_vars

\* A candidate that was stopped, by a reviewer or the guardrail, is not used
\* again.
RollbackIsFinal ==
  [][\A s \in 1..Len(skills) :
       skills[s].status = "rolled_back" => skills'[s].status = "rolled_back"]_vars

Failing(s) == skills[s].status = "active" /\ Worse(feedback, s)

\* No feedback leaves a candidate in use whose treatment is more than ten
\* points below the control.  (Deleting a conversation may: the guardrail
\* looks at the next feedback only.)
GuardrailActs ==
  [][\A s \in 1..Len(skills) :
       ~Failing(s) /\ Failing(s)' => Len(feedback') < Len(feedback)]_vars

\* A conversation is gone once its deletion was confirmed.
Gone(c) == chat[c] = "saved" /\ ~Present(c)

\* tests/core/test_governed.py:62-64: what was deleted is not found again.
DeletedStaysDeleted == [][\A c \in Chats : Gone(c) => Gone(c)']_vars
=============================================================================
