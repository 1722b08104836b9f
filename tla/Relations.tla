------------------------------ MODULE Relations ------------------------------
(***************************************************************************)
(* An upload on its way through the engine: queued (routes/documents.py),   *)
(* taken by a worker (scripts/async_worker.py), ingested, compared with the *)
(* documents of the other departments (conflict_detector.py), put up for    *)
(* review.  Several workers do this at once and die where they are; the     *)
(* queue is a stream of Redis, which hands each job to one of them.  Here a  *)
(* document is one chunk; Ingest has the steps of an ingestion one by one.  *)
(***************************************************************************)
EXTENDS Naturals, FiniteSets

CONSTANTS
  Docs,        \* uploads, each of another title and content
  Dept,        \* of each its department
  Cites,       \* of each those whose titles it names
  Near,        \* of each the place of every document, the most similar first
  Alike,       \* pairs over both thresholds, of similarity and of keywords
  Conflicting, \* pairs a model that answers finds in conflict
  TopK, Extra, \* 3 and 5
  Processes,   \* the workers
  None

VARIABLES
  job,       \* of each upload: "none", "queued", "running", "completed", "failed"
  doc,       \* of each upload the status of its row, or None
  vectors,   \* documents whose vectors are stored
  relations, \* doc_relations: [from, to, type]
  orders,    \* documents with a review order
  worker,    \* of each worker: None, or [doc, at, hits, found]
  unsure     \* documents whose comparison failed somewhere or was cut short

vars == <<job, doc, vectors, relations, orders, worker, unsure>>

Init ==
  /\ job = [d \in Docs |-> "none"]
  /\ doc = [d \in Docs |-> None]
  /\ vectors = {}
  /\ relations = {}
  /\ orders = {}
  /\ worker = [w \in Processes |-> None]
  /\ unsure = {}

At(w, place) == worker[w] # None /\ worker[w].at = place
Of(w) == worker[w].doc
Go(w, place) == worker' = [worker EXCEPT ![w].at = place]
Related(d, e, type) == [from |-> d, to |-> e, type |-> type]
-----------------------------------------------------------------------------
Upload(d) ==
  /\ job[d] = "none"
  /\ job' = [job EXCEPT ![d] = "queued"]
  /\ UNCHANGED <<doc, vectors, relations, orders, worker, unsure>>

\* What a worker took that then died is never delivered again.
Take(w, d) ==
  /\ worker[w] = None
  /\ job[d] = "queued"
  /\ job' = [job EXCEPT ![d] = "running"]
  /\ worker' = [worker EXCEPT ![w] = [doc |-> d, at |-> "ingest", hits |-> {}, found |-> {}]]
  /\ UNCHANGED <<doc, vectors, relations, orders, unsure>>

Ended(w, status) ==
  /\ job' = [job EXCEPT ![Of(w)] = status]
  /\ worker' = [worker EXCEPT ![w] = None]

Insert(w) ==
  /\ At(w, "ingest")
  /\ doc' = [doc EXCEPT ![Of(w)] = "indexing"]
  /\ Go(w, "index")
  /\ UNCHANGED <<job, vectors, relations, orders, unsure>>

Index(w) ==
  /\ At(w, "index")
  /\ vectors' = vectors \cup {Of(w)}
  /\ Go(w, "activate")
  /\ UNCHANGED <<job, doc, relations, orders, unsure>>

Activate(w) ==
  /\ At(w, "activate")
  /\ doc' = [doc EXCEPT ![Of(w)] = "active"]
  /\ Go(w, "references")
  /\ UNCHANGED <<job, vectors, relations, orders, unsure>>

\* Before there is a row as well.
FailIngest(w) ==
  /\ At(w, "ingest") \/ At(w, "index") \/ At(w, "activate")
  /\ vectors' = vectors \ {Of(w)}
  /\ doc' = [doc EXCEPT ![Of(w)] = None]
  /\ Ended(w, "failed")
  /\ UNCHANGED <<relations, orders, unsure>>
-----------------------------------------------------------------------------
\* Whatever has a row can be referred to.
References(w) ==
  LET d == Of(w)
  IN  /\ At(w, "references")
      /\ worker' = [worker EXCEPT
           ![w].found = {Related(d, e, "reference") : e \in {e \in Cites[d] \ {d} : doc[e] # None}},
           ![w].at = "search"]
      /\ UNCHANGED <<job, doc, vectors, relations, orders, unsure>>

Nearest(d, S, k) == {e \in S : Cardinality({f \in S : Near[d][f] < Near[d][e]}) < k}
UnsureIf(cut, d) == unsure' = IF cut THEN unsure \cup {d} ELSE unsure

Search(w) ==
  LET hits == Nearest(Of(w), vectors, TopK + Extra)
  IN  /\ At(w, "search")
      /\ worker' = [worker EXCEPT ![w].hits = hits, ![w].at = "enrich"]
      /\ UnsureIf(hits # vectors, Of(w))
      /\ UNCHANGED <<job, doc, vectors, relations, orders>>

\* Mutant: the nearest are taken first, and of them those that are in force.
KeptOfNearest(d, hits) ==
  {e \in Nearest(d, hits, TopK) : e # d /\ doc[e] = "active"}

\* Its own vector counts among the hits, its own department among those in force.
KeptOf(d, hits) == {e \in hits : e # d /\ doc[e] = "active"}

Enrich(w) ==
  LET kept == KeptOf(Of(w), worker[w].hits)
      hits == Nearest(Of(w), kept, TopK)
  IN  /\ At(w, "enrich")
      /\ worker' = [worker EXCEPT ![w].hits = hits, ![w].at = "judge"]
      /\ UnsureIf(hits # kept, Of(w))
      /\ UNCHANGED <<job, doc, vectors, relations, orders>>

\* A search that fails finds nothing.
FailSearch(w) ==
  /\ At(w, "search") \/ At(w, "enrich")
  /\ worker' = [worker EXCEPT ![w].hits = {}, ![w].at = "judge"]
  /\ unsure' = unsure \cup {Of(w)}
  /\ UNCHANGED <<job, doc, vectors, relations, orders>>

Compared(d, e) == Dept[e] # Dept[d] /\ <<d, e>> \in Alike

\* A model that does not answer has found no conflict.
Judge(w, e, answered) ==
  LET d == Of(w)
      conflict == Compared(d, e) /\ {d, e} \in Conflicting /\ answered
  IN  /\ At(w, "judge")
      /\ e \in worker[w].hits
      /\ ~answered => Compared(d, e)
      /\ worker' = [worker EXCEPT
           ![w].hits = @ \ {e},
           ![w].found = @ \cup (IF conflict THEN {Related(d, e, "conflict")} ELSE {})]
      /\ unsure' = IF answered THEN unsure ELSE unsure \cup {d}
      /\ UNCHANGED <<job, doc, vectors, relations, orders>>

Record(w) ==
  /\ At(w, "judge")
  /\ worker[w].hits = {}
  /\ \E r \in worker[w].found :
       /\ relations' = relations \cup {r}
       /\ worker' = [worker EXCEPT ![w].found = @ \ {r}]
  /\ UNCHANGED <<job, doc, vectors, orders, unsure>>

Order(w) ==
  /\ At(w, "judge")
  /\ worker[w].hits = {} /\ worker[w].found = {}
  /\ orders' = orders \cup {Of(w)}
  /\ Go(w, "finish")
  /\ UNCHANGED <<job, doc, vectors, relations, unsure>>

Finish(w) ==
  /\ At(w, "finish")
  /\ Ended(w, "completed")
  /\ UNCHANGED <<doc, vectors, relations, orders, unsure>>

\* What is raised once the document is in force ends the job, and no more.
Fail(w) ==
  /\ worker[w] # None /\ worker[w].at \in {"references", "judge", "finish"}
  /\ Ended(w, "failed")
  /\ UNCHANGED <<doc, vectors, relations, orders, unsure>>

Crash(w) ==
  /\ worker[w] # None
  /\ worker' = [worker EXCEPT ![w] = None]
  /\ UNCHANGED <<job, doc, vectors, relations, orders, unsure>>

Archive(d) ==
  /\ doc[d] = "active"
  /\ doc' = [doc EXCEPT ![d] = "archived"]
  /\ vectors' = vectors \ {d}
  /\ UNCHANGED <<job, relations, orders, worker, unsure>>

Next ==
  \/ \E d \in Docs : Upload(d) \/ Archive(d)
  \/ \E w \in Processes, d \in Docs : Take(w, d)
  \/ \E w \in Processes :
       \/ Insert(w) \/ Index(w) \/ Activate(w) \/ FailIngest(w) \/ References(w)
       \/ Search(w) \/ Enrich(w) \/ FailSearch(w) \/ Record(w) \/ Order(w)
       \/ Finish(w) \/ Fail(w) \/ Crash(w)
       \/ \E e \in Docs, answered \in BOOLEAN : Judge(w, e, answered)

Spec == Init /\ [][Next]_vars
-----------------------------------------------------------------------------
Sure(d) == job[d] = "completed" /\ doc[d] = "active" /\ d \notin unsure

Differ(d, e) ==
  /\ Compared(d, e) /\ Compared(e, d)
  /\ {d, e} \in Conflicting

(* Of two documents in force that contradict each other, whichever workers   *)
(* ingested them at once, one was compared with the other and the conflict   *)
(* is on record, if neither comparison failed or ran out of hits; whatever   *)
(* completed is up for review.                                              *)
ConflictsAreFound ==
  /\ \A d, e \in Docs : Sure(d) /\ Sure(e) /\ Differ(d, e) =>
       {Related(d, e, "conflict"), Related(e, d, "conflict")} \cap relations # {}
  /\ \A d \in Docs : job[d] = "completed" => d \in orders
=============================================================================
