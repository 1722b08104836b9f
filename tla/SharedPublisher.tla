--------------------------- MODULE SharedPublisher ---------------------------
(***************************************************************************)
(* The documents of one topic in the enterprise service: the review of     *)
(* jinshu/document_service.py, which indexes a document and publishes it   *)
(* through SharedPublisher of jinshu/service_ops.py, the withdrawal of     *)
(* unified/app.py, and the index each process keeps (jinshu/live.py).      *)
(* Documents, the head of the topic, its lease and the revision of the     *)
(* corpus are rows of MongoDB, each read and written on its own, by the    *)
(* requests of several processes.                                          *)
(*                                                                         *)
(* DataStore.update_document reads a row and writes it back whole.  Where  *)
(* it does not set the status (Copy, Decide) these are two steps, for the  *)
(* status goes back as it was read.  Where it does they are one: all that  *)
(* could go back as it was read is the mark of a withdrawal.               *)
(***************************************************************************)
EXTENDS Naturals, FiniteSets

CONSTANTS
  Docs,          \* the documents staged for the topic, all awaiting review
  Version,       \* their versions
  Uploader,      \* who staged each
  InForce,       \* those in force today
  Actors,        \* reviewers
  Reviews,       \* requests to review and publish, each made at most once
  Searches,      \* keyword searches, each in its process, one after the other
  Processes,
  ProcessOf,     \* where each review and search runs
  Withdrawable,  \* those somebody may want to withdraw
  MaxFaults,     \* bound of the model
  None

ASSUME DocsAssumption ==
  /\ Version \in [Docs -> Nat]
  /\ None \notin Docs \cup Nat
  /\ Withdrawable \subseteq Docs

ASSUME FaultsAssumption == MaxFaults \in Nat

VARIABLES
  document,  \* [status, archived_by]; the latter tells a withdrawn one
  head,      \* document_heads: the document in force, or None
  lease,     \* publish_leases: [owner, live], or None
  corpus,    \* corpus_revisions
  review,    \* where each review is and what it has read
  search,    \* the revision each search has read, or None
  index,     \* of each process: the revision and documents it was built on
  faults     \* how many errors and crashes there were

published == <<head, lease, corpus>>
readers == <<search, index>>
vars == <<document, published, review, readers, faults>>

Idle == [at |-> "idle", doc |-> None, actor |-> None, read |-> None, old |-> None]

Init ==
  /\ document = [d \in Docs |-> [status |-> "pending_review", archived_by |-> FALSE]]
  /\ head = None
  /\ lease = None
  /\ corpus = 0
  /\ review = [r \in Reviews |-> Idle]
  /\ search = [s \in Searches |-> None]
  /\ index = [p \in Processes |-> [revision |-> None, docs |-> {}]]
  /\ faults = 0

At(r, place) == review[r].at = place

\* What a review has read is forgotten with it.
Moved(row, place) ==
  IF place = "ended" THEN [Idle EXCEPT !.at = "ended"]
  ELSE [row EXCEPT !.at = place]

Goes(r, place) == review' = [review EXCEPT ![r] = Moved(@, place)]
Subject(r) == review[r].doc
SetStatus(d, status) == document' = [document EXCEPT ![d].status = status]

Finished(r) == review[r].at \in {"idle", "ended"}
-----------------------------------------------------------------------------
(* review_and_publish: the decision and the index.                         *)

\* ReviewedDocumentService.lock serialises the reviews of one process.
Begin(r, d, who) ==
  /\ At(r, "idle")
  /\ \A q \in Reviews : ProcessOf[q] = ProcessOf[r] => Finished(q)
  /\ Uploader[d] # who
  /\ document[d].status = "pending_review"
  /\ review' = [review EXCEPT ![r] =
                  [Idle EXCEPT !.at = "deciding", !.doc = d, !.actor = who]]
  /\ UNCHANGED <<document, published, readers, faults>>

\* update_document(did, reviewed) reads the row ...
Copy(r) ==
  /\ At(r, "deciding")
  /\ review' = [review EXCEPT ![r].at = "copied",
                              ![r].read = document[Subject(r)]]
  /\ UNCHANGED <<document, published, readers, faults>>

\* ... and writes it back with the decision.
Decide(r) ==
  /\ At(r, "copied")
  /\ document' = [document EXCEPT ![Subject(r)] = review[r].read]
  /\ Goes(r, "indexing")
  /\ UNCHANGED <<published, readers, faults>>

\* The vectors are stored, or the document is to be found by keyword only;
\* either is recorded together with the status.
Indexed(r) ==
  /\ At(r, "indexing")
  /\ SetStatus(Subject(r), "pending_review")
  /\ Goes(r, "asking")
  /\ UNCHANGED <<published, readers, faults>>
-----------------------------------------------------------------------------
(* SharedPublisher.publish.                                                *)

Fetch(r) ==
  /\ At(r, "asking")
  /\ review' = [review EXCEPT ![r].at = "fetched",
                              ![r].read = document[Subject(r)]]
  /\ UNCHANGED <<document, published, readers, faults>>

Publishable(r) ==
  /\ Uploader[Subject(r)] # review[r].actor
  /\ review[r].read.status = "pending_review"
  /\ Subject(r) \in InForce

Held == lease # None /\ lease.live

\* The upsert fails on the key of a lease that has not expired.
TakeLease(r) ==
  /\ At(r, "fetched")
  /\ IF Held
     THEN Goes(r, "ended") /\ UNCHANGED lease
     ELSE /\ lease' = [owner |-> r, live |-> TRUE]
          /\ Goes(r, IF Publishable(r) THEN "leased" ELSE "leaving")
  /\ UNCHANGED <<document, head, corpus, readers, faults>>

Newer(d) == head = None \/ Version[head] < Version[d]

ReadHead(r) ==
  /\ At(r, "leased")
  /\ review' = [review EXCEPT
       ![r].at = IF Newer(Subject(r)) THEN "checked" ELSE "leaving",
       ![r].old = head]
  /\ UNCHANGED <<document, published, readers, faults>>

Activate(r) ==
  /\ At(r, "checked")
  /\ SetStatus(Subject(r), "active")
  /\ Goes(r, "activated")
  /\ UNCHANGED <<published, readers, faults>>

\* Mutant: the head is replaced whatever it is (DraftIndexer.publish does so,
\* under the lock of its process).
SwapAnyHead(r) ==
  /\ At(r, "activated")
  /\ head' = Subject(r)
  /\ Goes(r, "swapped")
  /\ UNCHANGED <<document, lease, corpus, readers, faults>>

\* replace_one matches the head that was read, insert_one no head.
Swap(r) ==
  /\ At(r, "activated")
  /\ IF head = review[r].old
     THEN head' = Subject(r) /\ Goes(r, "swapped")
     ELSE Goes(r, "undoing") /\ UNCHANGED head
  /\ UNCHANGED <<document, lease, corpus, readers, faults>>

\* Mutant: nothing is compensated.
UndoNothing(r) ==
  /\ At(r, "undoing")
  /\ Goes(r, "leaving")
  /\ UNCHANGED <<document, published, readers, faults>>

Undo(r) ==
  /\ At(r, "undoing")
  /\ SetStatus(Subject(r), "pending_review")
  /\ Goes(r, "leaving")
  /\ UNCHANGED <<published, readers, faults>>

Count(r) ==
  /\ At(r, "swapped")
  /\ corpus' = corpus + 1
  /\ Goes(r, "counted")
  /\ UNCHANGED <<document, head, lease, readers, faults>>

\* Mutant: what is archived is what the head is by now.
ArchiveHead(r) ==
  /\ At(r, "counted")
  /\ IF review[r].old = None THEN UNCHANGED document ELSE SetStatus(head, "archived")
  /\ Goes(r, "leaving")
  /\ UNCHANGED <<published, readers, faults>>

Archive(r) ==
  /\ At(r, "counted")
  /\ IF review[r].old = None THEN UNCHANGED document
     ELSE SetStatus(review[r].old, "archived")
  /\ Goes(r, "leaving")
  /\ UNCHANGED <<published, readers, faults>>

\* The lease of another owner is left alone.
Leave(r) ==
  /\ At(r, "leaving")
  /\ lease' = IF lease # None /\ lease.owner = r THEN None ELSE lease
  /\ Goes(r, "ended")
  /\ UNCHANGED <<document, head, corpus, readers, faults>>

\* 45 seconds are over, however far its owner has come.
Expire ==
  /\ Held
  /\ lease' = [lease EXCEPT !.live = FALSE]
  /\ UNCHANGED <<document, head, corpus, review, readers, faults>>
-----------------------------------------------------------------------------
(* Errors and crashes.                                                     *)

\* Where an exception of the step at a place leads: except and finally.
Catch(place) ==
  CASE place = "activated" -> "undoing"
    [] place \in {"leased", "checked", "swapped", "counted", "undoing"} -> "leaving"
    [] OTHER -> "ended"

Fault ==
  /\ faults < MaxFaults
  /\ faults' = faults + 1

\* A request to the database fails and has no effect.
Error(r) ==
  /\ ~Finished(r)
  /\ Goes(r, Catch(review[r].at))
  /\ Fault
  /\ UNCHANGED <<document, published, readers>>

\* It takes effect, but the answer is lost.
Unanswered(r) ==
  /\ \/ /\ At(r, "fetched")
        /\ ~Held
        /\ lease' = [owner |-> r, live |-> TRUE]
        /\ UNCHANGED <<document, head>>
     \/ /\ At(r, "checked")
        /\ SetStatus(Subject(r), "active")
        /\ UNCHANGED <<head, lease>>
     \/ /\ At(r, "activated")
        /\ head = review[r].old
        /\ head' = Subject(r)
        /\ UNCHANGED <<document, lease>>
  /\ Goes(r, Catch(review[r].at))
  /\ Fault
  /\ UNCHANGED <<corpus, readers>>

\* A process dies, with its reviews, searches and index.
Crash(p) ==
  /\ \E r \in Reviews : ProcessOf[r] = p /\ ~Finished(r)
  /\ review' = [r \in Reviews |->
       IF ProcessOf[r] = p /\ ~Finished(r)
       THEN Moved(review[r], "ended") ELSE review[r]]
  /\ search' = [s \in Searches |->
       IF ProcessOf[s] = p THEN None ELSE search[s]]
  /\ index' = [index EXCEPT ![p] = [revision |-> None, docs |-> {}]]
  /\ Fault
  /\ UNCHANGED <<document, published>>
-----------------------------------------------------------------------------
(* Withdrawals and searches.                                               *)

\* archive(): whatever the status.  The row and the revision are written in
\* one step; another time would change the revision only.
Withdraw(d) ==
  /\ ~document[d].archived_by
  /\ document' = [document EXCEPT ![d] = [status |-> "archived", archived_by |-> TRUE]]
  /\ corpus' = corpus + 1
  /\ UNCHANGED <<head, lease, review, readers, faults>>

\* RevisionBM25.search reads the revision ...
ReadRevision(s) ==
  /\ search[s] = None
  /\ search' = [search EXCEPT ![s] = corpus]
  /\ UNCHANGED <<document, published, review, index, faults>>

Active == {d \in Docs : document[d].status = "active"}

\* Mutant: the revision is read again once the documents are.
RefreshLate(s) ==
  LET p == ProcessOf[s] IN
  /\ search[s] # None
  /\ search' = [search EXCEPT ![s] = None]
  /\ index' = [index EXCEPT ![p].revision = corpus]
  /\ UNCHANGED <<document, published, review, faults>>

\* ... and, under the lock of the process, builds the index anew unless it
\* was built for that revision.
Refresh(s) ==
  LET p == ProcessOf[s] IN
  /\ search[s] # None
  /\ search' = [search EXCEPT ![s] = None]
  /\ index' = IF index[p].revision = search[s] THEN index
              ELSE [index EXCEPT ![p] = [revision |-> search[s], docs |-> Active]]
  /\ UNCHANGED <<document, published, review, faults>>
-----------------------------------------------------------------------------
Publishing(r) ==
  \/ Fetch(r) \/ TakeLease(r) \/ ReadHead(r) \/ Activate(r) \/ Swap(r)
  \/ Undo(r) \/ Count(r) \/ Archive(r) \/ Leave(r)

Reviewing(r) ==
  \/ \E d \in Docs, who \in Actors : Begin(r, d, who)
  \/ Copy(r) \/ Decide(r) \/ Indexed(r)

Failing(r) == Error(r) \/ Unanswered(r)

Next ==
  \/ \E r \in Reviews : Reviewing(r) \/ Publishing(r) \/ Failing(r)
  \/ Expire
  \/ \E p \in Processes : Crash(p)
  \/ \E d \in Withdrawable : Withdraw(d)
  \/ \E s \in Searches : ReadRevision(s) \/ Refresh(s)

Spec == Init /\ [][Next]_vars
-----------------------------------------------------------------------------
(* Properties.                                                             *)

Row == [status : {"pending_review", "active", "archived"}, archived_by : BOOLEAN]

Places == {"idle", "deciding", "copied", "indexing", "asking", "fetched",
           "leased", "checked", "activated", "undoing", "swapped", "counted",
           "leaving", "ended"}

\* The types of the state.
TypeOK ==
  /\ document \in [Docs -> Row]
  /\ head \in Docs \cup {None}
  /\ lease \in [owner : Reviews, live : BOOLEAN] \cup {None}
  /\ corpus \in Nat
  /\ review \in [Reviews -> [at : Places, doc : Docs \cup {None},
                             actor : Actors \cup {None}, read : Row \cup {None},
                             old : Docs \cup {None}]]
  /\ search \in [Searches -> Nat \cup {None}]
  /\ index \in [Processes -> [revision : Nat \cup {None}, docs : SUBSET Docs]]
  /\ faults \in 0..MaxFaults

\* However many publishers there are once leases expire, and whatever fails,
\* the topic never goes back to an older version or to none.
HeadsAdvance ==
  [][head' # head => /\ head' # None
                     /\ head = None \/ Version[head] < Version[head']]_vars

\* A document archived for another, and not withdrawn, gave way to a newer
\* one, even if its publisher archives it long after.
ArchivedGaveWay ==
  \A d \in Docs :
    document[d].status = "archived" /\ ~document[d].archived_by =>
      head # None /\ Version[d] < Version[head]

\* What has been withdrawn is not a basis of answers any more
\* (unified/app.py:210).
WithdrawnStaysOut ==
  \A d \in Docs : document[d].archived_by => document[d].status # "active"

Quiet == faults = 0 /\ \A r \in Reviews : Finished(r)

\* When all reviews have ended, without an error or a crash, the head is the
\* only active document: those who lost the race have taken theirs back.
LosersWithdraw ==
  Quiet => \A d \in Docs : document[d].status = "active" => d = head

\* And an index that counts as up to date has the document in force in it.
IndexIsComplete ==
  Quiet => \A p \in Processes :
    /\ index[p].revision = corpus
    /\ head # None
    /\ document[head].status = "active"
    => head \in index[p].docs
=============================================================================
