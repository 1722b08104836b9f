------------------------------- MODULE Staging -------------------------------
(***************************************************************************)
(* How a document comes into force in a runtime of one process             *)
(* (jinshu/document_service.py, ingestion.py, corpus.py and the routes of    *)
(* jinshu/api.py): seeded, staged or imported, decided by a reviewer while   *)
(* it is indexed, published as the head of its topic, or sent back.  The     *)
(* rows are kept in memory, so a request goes on until it waits for the lock *)
(* of the reviews, for the vectors, or for the body of a request.  Every     *)
(* document is due, and every actor of the department; the same steps over  *)
(* the shared store are SharedPublisher's.                                  *)
(***************************************************************************)
EXTENDS Naturals

CONSTANTS
  Docs,      \* documents, each for one attempt to bring it in
  Topic, Version,
  Seeds,     \* documents the runtime starts with, by their status
  People,    \* administrators
  Tasks,     \* requests to review or to send back
  Decisions, \* what a reviewer may decide: [level, external]
  None

VARIABLES
  paper,     \* of each document: None, or see Row
  heads,     \* document_heads: of each topic that has one, the document
  findable,  \* documents whose chunks the keyword index holds
  reviews    \* of each request: None, or [at, doc, who, decision]

vars == <<paper, heads, findable, reviews>>

\* decided: who decided the level; reviewed: reviewed_by, as it is at the end.
Row(uploader, level) ==
  [status |-> "pending_review", uploader |-> uploader, level |-> level,
   external |-> FALSE, decided |-> None, reviewed |-> None]

\* DraftIndexer.ingest: what the runtime starts with was brought in by nobody who
\* signs in, and no level was decided.
Ingested == Row("seed_author", 1)
Seeded(d) == d \in DOMAIN Seeds
Topics == {Topic[d] : d \in Docs}

\* What is published at the start is the newest active version of its topic.
InForce(t) ==
  {d \in DOMAIN Seeds : Topic[d] = t /\ Seeds[d] = "active"}

Init ==
  /\ paper = [d \in Docs |-> IF Seeded(d) THEN [Ingested EXCEPT !.status = Seeds[d]] ELSE None]
  /\ heads = [t \in Topics |-> IF InForce(t) = {} THEN None ELSE CHOOSE d \in InForce(t) : TRUE]
  /\ findable = {d \in DOMAIN Seeds : Seeds[d] = "active"}
  /\ reviews = [t \in Tasks |-> None]

SetStatus(rows, d, status) == [rows EXCEPT ![d].status = status]
-----------------------------------------------------------------------------
\* stage_file: a version of a topic is staged once.
Stage(d, who, level) ==
  /\ paper[d] = None
  /\ \A e \in Docs : paper[e] # None /\ Topic[e] = Topic[d] => Version[e] # Version[d]
  /\ paper' = [paper EXCEPT ![d] = Row(who, level)]
  /\ UNCHANGED <<heads, findable, reviews>>

\* import_reviewed_pack: a file of a reviewed corpus, under a topic of its own;
\* the review named with it follows.
Import(t, d, who, reviewer, decision) ==
  /\ reviews[t] = None
  /\ paper[d] = None
  /\ who # reviewer
  /\ \A e \in Docs \ {d} : Topic[e] # Topic[d]
  /\ paper' = [paper EXCEPT ![d] = Row(who, 1)]
  /\ reviews' = [reviews EXCEPT ![t] =
                [at |-> "waiting", doc |-> d, who |-> reviewer, decision |-> decision]]
  /\ UNCHANGED <<heads, findable>>

At(t, place) == reviews[t] # None /\ reviews[t].at = place
Done(t) == reviews' = [reviews EXCEPT ![t] = None]

\* ReviewedDocumentService.lock
LockIsFree(t) == \A u \in Tasks : ~At(u, "indexing")

Reviewable(d, who) ==
  /\ paper[d].uploader # who
  /\ paper[d].status = "pending_review"

\* Restricted and sensitive material goes to no model outside.
Allowed(decision) == decision.external => decision.level < 2

\* The decision is written whole; then the vectors are made.  The row of a seed
\* lacks what the decision quotes, and its review fails.
Decide(t, d, who, decision) ==
  /\ ~Seeded(d)
  /\ Reviewable(d, who)
  /\ Allowed(decision)
  /\ paper' = [paper EXCEPT ![d].level = decision.level,
                        ![d].external = decision.external,
                        ![d].decided = who]
  /\ reviews' = [reviews EXCEPT ![t] =
                [at |-> "indexing", doc |-> d, who |-> who, decision |-> decision]]
  /\ UNCHANGED <<heads, findable>>

\* A review that has to wait for the lock begins where it gets it.
Begin(t, d, who, decision) ==
  /\ reviews[t] = None
  /\ paper[d] # None
  /\ LockIsFree(t)
  /\ Decide(t, d, who, decision)

\* So does the one an import waits for; it may come too late.
BeginImported(t) ==
  /\ At(t, "waiting")
  /\ LockIsFree(t)
  /\ \/ Decide(t, reviews[t].doc, reviews[t].who, reviews[t].decision)
     \/ /\ ~(Reviewable(reviews[t].doc, reviews[t].who) /\ Allowed(reviews[t].decision))
        /\ Done(t)
        /\ UNCHANGED <<paper, heads, findable>>
-----------------------------------------------------------------------------
Newer(d) == heads[Topic[d]] # None => Version[heads[Topic[d]]] < Version[d]

\* Mutant: the head is moved and the version before it stays active.
Beside(rows, d) == rows

Superseded(rows, d) ==
  IF heads[Topic[d]] = None THEN rows
  ELSE SetStatus(rows, heads[Topic[d]], "archived")

\* DraftIndexer.publish, of the rows as they are by then.
Publish(rows, d, who) ==
  IF rows[d].uploader # who /\ rows[d].status = "pending_review" /\ Newer(d)
  THEN /\ paper' = Superseded([rows EXCEPT ![d].status = "active", ![d].reviewed = who], d)
       /\ heads' = [heads EXCEPT ![Topic[d]] = d]
       /\ findable' = (findable \cup {d}) \ {heads[Topic[d]]}
  ELSE paper' = rows /\ UNCHANGED <<heads, findable>>

\* The vectors are there, or could not be made; the status is written as it was
\* when the review began, whatever it is.
Indexed(t) ==
  /\ At(t, "indexing")
  /\ Publish(SetStatus(paper, reviews[t].doc, "pending_review"), reviews[t].doc, reviews[t].who)
  /\ Done(t)

\* POST /publish is for what needs no decision.
PublishDraft(d, who) ==
  /\ paper[d] # None
  /\ Seeded(d)
  /\ paper[d].status = "pending_review"
  /\ Newer(d)
  /\ Publish(paper, d, who)
  /\ UNCHANGED reviews

\* POST /reject looks at the document and then waits for the reason.
Reject(t, d, who) ==
  /\ reviews[t] = None
  /\ paper[d] # None
  /\ Reviewable(d, who)
  /\ reviews' = [reviews EXCEPT ![t] = [at |-> "reason", doc |-> d, who |-> who, decision |-> None]]
  /\ UNCHANGED <<paper, heads, findable>>

\* Given no reason, it does nothing.
Return(t) ==
  /\ At(t, "reason")
  /\ \/ paper' = [paper EXCEPT ![reviews[t].doc].status = "returned",
                           ![reviews[t].doc].reviewed = reviews[t].who]
     \/ UNCHANGED paper
  /\ Done(t)
  /\ UNCHANGED <<heads, findable>>

Next ==
  \/ \E d \in Docs, who \in People :
       \/ \E decision \in Decisions : Stage(d, who, decision.level)
       \/ PublishDraft(d, who)
       \/ \E t \in Tasks : Reject(t, d, who)
       \/ \E t \in Tasks, decision \in Decisions :
            \/ Begin(t, d, who, decision)
            \/ \E author \in People : Import(t, d, author, who, decision)
  \/ \E t \in Tasks : BeginImported(t) \/ Indexed(t) \/ Return(t)

Spec == Init /\ [][Next]_vars
-----------------------------------------------------------------------------
\* GET /documents: what somebody who is not an administrator is shown.
CanRead(d, clearance) == paper[d].level <= clearance

Listed(d) == paper[d] # None /\ paper[d].status = "active" /\ CanRead(d, 1)

(* A topic that has had a version in force keeps one: the version its head   *)
(* names, and that alone, unless somebody sent this version back while it    *)
(* was reviewed.                                                            *)
TopicStaysAnswered ==
  \A t \in Topics :
    /\ heads[t] # None => paper[heads[t]].status \in {"active", "returned"}
    /\ \A d \in Docs :
         Topic[d] = t /\ paper[d] # None /\ paper[d].status = "active" => d = heads[t]

(* What is in force or can be found was decided by one person, another than  *)
(* who brought it: who published it decided its level, and no material that  *)
(* is restricted may be shown to a model outside.                           *)
DecisionIsWhole ==
  \A d \in Docs : paper[d] # None =>
    /\ paper[d].external => paper[d].level < 2
    /\ d \in findable \cup {heads[Topic[d]]} => paper[d].reviewed # paper[d].uploader
    /\ ~Seeded(d) /\ paper[d].status = "active" => paper[d].decided = paper[d].reviewed
    /\ Listed(d) => d \in findable
=============================================================================
