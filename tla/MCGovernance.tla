---------------------------- MODULE MCGovernance ----------------------------
(***************************************************************************)
(* An instance of the governed workspace with three foci, each behavior     *)
(* being of one: in "answers" conversations go on while documents are       *)
(* submitted, published and expire; in "release" two candidates are replayed *)
(* and released while feedback is sent again or deleted and the document it *)
(* points to expires; in "guardrail" two reviewers in the treatment and the *)
(* control of one candidate give feedback.                                 *)
(***************************************************************************)
EXTENDS Workspace, TLC

\* Chat requests are interchangeable.
Symmetry == Permutations(Chats)

\* One person may have both a browser and an account.
Person(owner, username, role) ==
  [owner |-> owner, username |-> username, role |-> role]

Readers == {Person("o1", "editor", "editor"), Person("o2", "reviewer", "reviewer")}

\* Several reviewers, one of whom also submits.
Reviewers == {Person("o1", "rita", "reviewer"), Person("o2", "remy", "reviewer")}

Form(version, effective, expires) ==
  [topic |-> "t", department |-> "shared", version |-> version,
   effective |-> effective, expires |-> expires]

\* Three versions: one that expires, one not in force yet, and one for good.
Versions == {Form(1, 0, 0), Form(2, 1, 9), Form(3, 0, 9)}
Handbook == {Form(1, 0, 9)}
Expiring == {Form(1, 0, 0)}

AnyOf(docs) == SUBSET docs

\* The first owner is in the treatment from the start, the second from the
\* fourth step on.
SplitBuckets(owner, s) == IF owner = "o1" THEN 3 ELSE 60

VARIABLE focus

All == Readers \cup Reviewers
AllForms == Versions \cup Handbook \cup Expiring

Answering == focus = "answers"
FocusPeople == IF focus = "guardrail" THEN Reviewers ELSE Readers
FocusForms == CASE Answering -> Versions
                [] focus = "release" -> Expiring
                [] focus = "guardrail" -> Handbook
FocusFeedback == CASE Answering -> 0
                   [] focus = "release" -> 1
                   [] focus = "guardrail" -> 3
FocusStamp == IF focus = "release" THEN 2 ELSE 1
FocusSkills == CASE Answering -> 0 [] focus = "release" -> 2 [] focus = "guardrail" -> 1

Days == NextDay /\ focus # "guardrail"

FocusDocuments ==
  \E who \in FocusPeople :
    \/ \E form \in FocusForms :
         Submit(who, form) /\ (~Answering => documents = <<>>)
    \/ \E i \in 1..Len(documents) :
         \/ Reject(who, i)
         \/ \E external \in BOOLEAN : Publish(who, i, external)

\* Outside of "answers" conversations have one round and find nothing, and in
\* "release" there are two of them.  "answers" has no feedback.
FocusPrepare(q, who, c, d, sources) ==
  /\ ~Answering => ~Present(c) /\ sources = {}
  /\ focus = "release" => \E p \in Chats \ {q} : chat[p] = "unused"
  /\ Prepare(q, who, c, d, sources)

FocusConversing ==
  \/ \E q \in Chats : SaveAnswer(q) \/ Abandon(q)
  \/ \E who \in FocusPeople, c \in Chats :
       \/ Forget(who, c)
       \/ \E q \in Chats, d \in Departments : \E sources \in MayFind(Citable(d)) :
            FocusPrepare(q, who, c, d, sources)

FocusFeeding ==
  \E who \in FocusPeople, c \in Chats, i \in 1..MaxRounds, resolved \in BOOLEAN,
     category \in Categories, expected \in SUBSET (1..Len(documents)) :
    /\ GiveFeedback(who, c, i, resolved, category, expected)
    /\ Len(feedback') <= FocusFeedback
    /\ \A f \in 1..Len(feedback') : feedback'[f].stamp <= FocusStamp

FocusReleasing ==
  \E who \in FocusPeople :
    \/ Len(skills) < FocusSkills /\ \E cases \in SUBSET Chats : Propose(who, cases)
    \/ \E s \in 1..Len(skills) :
         \/ \E passed \in BOOLEAN : Replay(who, s, passed)
         \/ Canary(who, s) \/ Promote(who, s) \/ Rollback(who, s)

MCNext ==
  /\ Days \/ FocusDocuments \/ FocusConversing \/ FocusFeeding \/ FocusReleasing
  /\ UNCHANGED focus

MCInit == Init /\ focus \in {"answers", "release", "guardrail"}

MCSpec == MCInit /\ [][MCNext]_<<vars, focus>>
=============================================================================
