------------------------------- MODULE Ingest -------------------------------
(***************************************************************************)
(* Versions of one title of a department: ingested by workers              *)
(* (pipeline/indexer.py, scripts/async_worker.py), given another status by *)
(* administrators (routes/documents.py), and found by retrieval, which      *)
(* takes chunks of active documents alone.  Vectors are kept in the shared *)
(* store; of the keyword index, which each process keeps for itself, no     *)
(* promise is made.  Every update of a row reads it and writes it whole.    *)
(***************************************************************************)
EXTENDS Naturals, FiniteSets

CONSTANTS
  Docs,    \* documents, each for one attempt to ingest a file
  Files,   \* contents, told apart by their hash
  Tasks,   \* workers and requests
  MaxTouched,  \* bound of the model
  None

VARIABLES
  docs,     \* row of each document: [file, status], or None
  chunks,   \* documents whose chunks are stored
  vectors,  \* documents whose vectors are stored
  task,     \* of each task: None, or see Job
  used,     \* documents that have their new identity
  born,     \* documents whose ingestion went as far as to archive the others
  touched   \* documents an administrator gave a status

vars == <<docs, chunks, vectors, task, used, born, touched>>
stores == <<chunks, vectors>>
history == <<used, born, touched>>

Init ==
  /\ docs = [d \in Docs |-> None]
  /\ chunks = {}
  /\ vectors = {}
  /\ task = [t \in Tasks |-> None]
  /\ used = {}
  /\ born = {}
  /\ touched = {}

\* old: the versions to archive; target, row and next: an update under way, and
\* the stage after it.
Job(d, stage, next) ==
  [doc |-> d, stage |-> stage, next |-> next,
   old |-> {}, target |-> None, row |-> None]

At(t, stage) == task[t] # None /\ task[t].stage = stage
Go(t, stage) == task' = [task EXCEPT ![t].stage = stage]
Done(t) == task' = [task EXCEPT ![t] = None]

Kept(d) == docs[d] # None /\ docs[d].status # "deleted"
Active(d) == docs[d] # None /\ docs[d].status = "active"
-----------------------------------------------------------------------------
\* The same file is refused, whatever became of it but "deleted"; the active
\* versions are taken from the same list.
StartIngest(t, d, f) ==
  /\ task[t] = None
  /\ d \notin used
  /\ ~\E e \in Docs : Kept(e) /\ docs[e].file = f
  /\ task' = [task EXCEPT ![t] =
       [Job(d, "insert", None) EXCEPT
          !.old = {e \in Docs : Active(e)}, !.row = [file |-> f, status |-> "indexing"]]]
  /\ used' = used \cup {d}
  /\ UNCHANGED <<docs, stores, born, touched>>

Insert(t) ==
  /\ At(t, "insert")
  /\ docs' = [docs EXCEPT ![task[t].doc] = task[t].row]
  /\ task' = [task EXCEPT ![t].stage = "embed", ![t].row = None]
  /\ UNCHANGED <<stores, history>>

Embed(t) ==
  /\ At(t, "embed")
  /\ vectors' = vectors \cup {task[t].doc}
  /\ Go(t, "store")
  /\ UNCHANGED <<docs, chunks, history>>

StoreChunks(t) ==
  /\ At(t, "store")
  /\ chunks' = chunks \cup {task[t].doc}
  /\ Go(t, "activate")
  /\ UNCHANGED <<docs, vectors, history>>

\* update_document, in two steps; one that finds no row does nothing.
Read(t, d, status, next) ==
  /\ task' = IF docs[d] = None
             THEN [task EXCEPT ![t].target = d, ![t].stage = next]
             ELSE [task EXCEPT ![t].target = d, ![t].stage = "write", ![t].next = next,
                    ![t].row = [docs[d] EXCEPT !.status = status]]
  /\ UNCHANGED <<docs, stores, history>>

Write(t) ==
  /\ At(t, "write")
  /\ docs' = [docs EXCEPT ![task[t].target] = task[t].row]
  /\ task' = [task EXCEPT ![t].stage = task[t].next, ![t].row = None, ![t].next = None]
  /\ UNCHANGED <<stores, history>>

Activate(t) == At(t, "activate") /\ Read(t, task[t].doc, "active", "ready")

\* Mutant: the versions to archive are listed when the new one is ready.
SupersededNow(t) == {e \in Docs : Active(e)} \ {task[t].doc}

Superseded(t) == task[t].old

Ready(t) ==
  /\ At(t, "ready")
  /\ born' = born \cup {task[t].doc}
  /\ task' = [task EXCEPT ![t].stage = "archive", ![t].old = Superseded(t)]
  /\ UNCHANGED <<docs, stores, used, touched>>

Archive(t, e) ==
  /\ At(t, "archive")
  /\ e \in task[t].old
  /\ Read(t, e, "archived", "unindex")

Unindex(t) ==
  LET e == task[t].target
  IN  /\ At(t, "unindex")
      /\ vectors' = vectors \ {e}
      /\ task' = [task EXCEPT ![t].old = @ \ {e}, ![t].target = None,
                    ![t].stage = IF e = task[t].doc THEN "done" ELSE "archive"]
      /\ UNCHANGED <<docs, chunks, history>>

\* The worker puts the file's name into the row of its new document.
Rename(t) ==
  /\ At(t, "archive")
  /\ task[t].old = {}
  /\ docs[task[t].doc] # None
  /\ Read(t, task[t].doc, docs[task[t].doc].status, "done")

\* Embedding or a store fails, or the answer of an update that was made is lost.
FailIngest(t) ==
  /\ \/ task[t] # None /\ task[t].stage \in {"embed", "store", "activate", "ready"}
     \/ At(t, "write") /\ task[t].next = "ready"
  /\ task' = [task EXCEPT ![t] = Job(@.doc, "clean", None)]
  /\ UNCHANGED <<docs, stores, history>>

\* The vectors go first, then the chunks, then the row.
CleanVectors(t) ==
  /\ At(t, "clean")
  /\ vectors' = vectors \ {task[t].doc}
  /\ Go(t, "clean_chunks")
  /\ UNCHANGED <<docs, chunks, history>>

CleanChunks(t) ==
  /\ At(t, "clean_chunks")
  /\ chunks' = chunks \ {task[t].doc}
  /\ Go(t, "clean_row")
  /\ UNCHANGED <<docs, vectors, history>>

CleanRow(t) ==
  /\ At(t, "clean_row")
  /\ docs' = [docs EXCEPT ![task[t].doc] = None]
  /\ Done(t)
  /\ UNCHANGED <<stores, history>>
-----------------------------------------------------------------------------
\* An administrator's status; "active" indexes the document anew.
SetStatus(t, d, status) ==
  /\ task[t] = None
  /\ docs[d] # None
  /\ Cardinality(touched \cup {d}) <= MaxTouched
  /\ touched' = touched \cup {d}
  /\ task' = [task EXCEPT ![t] =
       [Job(d, "write", IF status = "active" THEN "reindex" ELSE "unindex") EXCEPT
          !.target = d, !.row = [docs[d] EXCEPT !.status = status]]]
  /\ UNCHANGED <<docs, stores, used, born>>

\* A document without chunks cannot be indexed.
Reindex(t) ==
  /\ At(t, "reindex")
  /\ IF task[t].doc \in chunks
     THEN vectors' = vectors \ {task[t].doc} /\ Go(t, "reembed")
     ELSE UNCHANGED vectors /\ Done(t)
  /\ UNCHANGED <<docs, chunks, history>>

Reembed(t) ==
  /\ At(t, "reembed")
  /\ vectors' = vectors \cup {task[t].doc}
  /\ Go(t, "refresh")
  /\ UNCHANGED <<docs, chunks, history>>

Refresh(t) ==
  /\ At(t, "refresh")
  /\ docs[task[t].doc] # None
  /\ Read(t, task[t].doc, docs[task[t].doc].status, "done")

\* A task has ended, or dies where it is; what it left stays.
Leave(t) ==
  /\ task[t] # None
  /\ Done(t)
  /\ UNCHANGED <<docs, stores, history>>

Next ==
  \/ \E t \in Tasks, d \in Docs, f \in Files : StartIngest(t, d, f)
  \/ \E t \in Tasks : Insert(t) \/ Embed(t) \/ StoreChunks(t) \/ Activate(t)
                        \/ Write(t) \/ Ready(t) \/ Unindex(t) \/ Rename(t)
                        \/ FailIngest(t) \/ CleanVectors(t) \/ CleanChunks(t) \/ CleanRow(t)
                        \/ Reindex(t) \/ Reembed(t) \/ Refresh(t) \/ Leave(t)
  \/ \E t \in Tasks, d \in Docs : Archive(t, d)
  \/ \E t \in Tasks, d \in Docs, status \in {"active", "archived", "deleted"} :
       SetStatus(t, d, status)

Spec == Init /\ [][Next]_vars
-----------------------------------------------------------------------------
\* What retrieval gives back of a document it finds by its vectors.
Found(d) == d \in vectors /\ d \in chunks /\ Active(d)

(* A title that was ever answered stays answered while its versions replace *)
(* one another: as long as no administrator touched them, one of the        *)
(* versions that came to be is active and found whole, though workers fail, *)
(* die and ingest versions of it at once.                                   *)
TitleStaysAnswered ==
  born # {} /\ born \cap touched = {} => \E d \in born : Found(d)
=============================================================================
