------------------------------- MODULE Memory -------------------------------
(***************************************************************************)
(* The long-term memories a context is built from: what the organization    *)
(* published with references to documents (organization.py, memory.py) and  *)
(* what users asked to remember (user_semantic.py, retention.py).  Every    *)
(* read and write of the store is a step, rows are written whole, so that   *)
(* the readings of several requests interleave with publication, archiving, *)
(* forgetting and expiry.  One chunk stands for its document; relevance,    *)
(* scopes and the texts are left out.                                      *)
(***************************************************************************)
EXTENDS Integers, FiniteSets, FiniteSetsExt

CONSTANTS
  Documents,
  Items,      \* the memories of the organization that may be published
  Notes,      \* the memories of one user that may be made, all of one key
  Readers,    \* requests building a context
  MaxUses,    \* bound on what is counted
  None

VARIABLES
  active,   \* the documents in force, which valid_chunk lets through
  past,     \* the documents, items and notes that no longer are; history
  item,     \* of each: [status, refs, uses], or None
  note,     \* of each: [status, revision], or None
  author,   \* of each item being published or archived: [at, ...], or None
  writer,   \* of each note being made or forgotten, or None
  reader    \* of each request

vars == <<active, past, item, note, author, writer, reader>>

Resting == [at |-> "idle", rows |-> {}, notes |-> {}, kept |-> {}, evidence |-> {},
            todo |-> {}, gone |-> {}]

Init ==
  /\ active = Documents /\ past = {}
  /\ item = [i \in Items |-> None]
  /\ note = [n \in Notes |-> None]
  /\ author = [i \in Items |-> None]
  /\ writer = [n \in Notes |-> None]
  /\ reader = [r \in Readers |-> Resting]

Live(row) == row # None /\ row.status = "active"

\* An archived, replaced or expired document stays out of force.
Withdraw(d) ==
  /\ d \in active
  /\ active' = active \ {d} /\ past' = past \cup {d}
  /\ UNCHANGED <<item, note, author, writer, reader>>
-----------------------------------------------------------------------------
(* publish(): the references are verified one by one, then the row is saved *)
(* with those that were valid; without any it is refused.                   *)
BeginPublish(i, refs) ==
  /\ item[i] = None /\ author[i] = None
  /\ refs # {}
  /\ author' = [author EXCEPT ![i] = [at |-> "verify", todo |-> refs, refs |-> {}]]
  /\ UNCHANGED <<active, past, item, note, writer, reader>>

VerifyRef(i, d) ==
  /\ author[i] # None /\ author[i].at = "verify"
  /\ d \in author[i].todo
  /\ author' = [author EXCEPT ![i].todo = @ \ {d},
                              ![i].refs = @ \cup ({d} \cap active)]
  /\ UNCHANGED <<active, past, item, note, writer, reader>>

SaveItem(i) ==
  /\ author[i] # None /\ author[i].at = "verify" /\ author[i].todo = {}
  /\ item' = IF author[i].refs = {} THEN item
             ELSE [item EXCEPT ![i] =
                     [status |-> "active", refs |-> author[i].refs, uses |-> 0]]
  /\ author' = [author EXCEPT ![i] = None]
  /\ UNCHANGED <<active, past, note, writer, reader>>

\* archive_organization_memory reads the row and writes it back archived.
ReadToArchive(i) ==
  /\ item[i] # None /\ author[i] = None
  /\ author' = [author EXCEPT ![i] = [at |-> "archive", row |-> item[i]]]
  /\ UNCHANGED <<active, past, item, note, writer, reader>>

Archive(i) ==
  /\ author[i] # None /\ author[i].at = "archive"
  /\ item' = [item EXCEPT ![i] = [author[i].row EXCEPT !.status = "archived"]]
  /\ author' = [author EXCEPT ![i] = None]
  /\ past' = past \cup {i}
  /\ UNCHANGED <<active, note, writer, reader>>
-----------------------------------------------------------------------------
(* remember(), forget(), and the deletion of rows by prune_expired() and     *)
(* delete_user().                                                           *)
BeginRemember(n) ==
  /\ note[n] = None /\ writer[n] = None
  /\ LET held == {m \in Notes : Live(note[m])} IN
     writer' = [writer EXCEPT ![n] =
       [at |-> "supersede", rows |-> {[of |-> m, row |-> note[m]] : m \in held},
        revision |-> 1 + Max({0} \cup {note[m].revision : m \in held})]]
  /\ UNCHANGED <<active, past, item, note, author, reader>>

Supersede(n) ==
  /\ writer[n] # None /\ writer[n].at = "supersede"
  /\ \E old \in writer[n].rows :
       /\ note' = [note EXCEPT ![old.of] = [old.row EXCEPT !.status = "superseded"]]
       /\ writer' = [writer EXCEPT ![n].rows = @ \ {old}]
       /\ past' = past \cup {old.of}
  /\ UNCHANGED <<active, item, author, reader>>

SaveNote(n) ==
  /\ writer[n] # None /\ writer[n].at = "supersede" /\ writer[n].rows = {}
  /\ note' = [note EXCEPT ![n] = [status |-> "active", revision |-> writer[n].revision]]
  /\ writer' = [writer EXCEPT ![n] = None]
  /\ UNCHANGED <<active, past, item, author, reader>>

ReadToForget(n) ==
  /\ note[n] # None /\ note[n].status # "erased" /\ writer[n] = None
  /\ writer' = [writer EXCEPT ![n] = [at |-> "forget", row |-> note[n]]]
  /\ UNCHANGED <<active, past, item, note, author, reader>>

Forget(n) ==
  /\ writer[n] # None /\ writer[n].at = "forget"
  /\ note' = [note EXCEPT ![n] = [writer[n].row EXCEPT !.status = "deleted"]]
  /\ writer' = [writer EXCEPT ![n] = None]
  /\ past' = past \cup {n}
  /\ UNCHANGED <<active, item, author, reader>>

\* A row is deleted when it has expired or with all of its user's; one that a
\* writer still holds comes back when it is written.
Prune(n) ==
  /\ note[n] # None /\ note[n].status # "erased"
  /\ note' = [note EXCEPT ![n].status = "erased"]
  /\ past' = past \cup {n}
  /\ UNCHANGED <<active, item, author, writer, reader>>
-----------------------------------------------------------------------------
(* MemoryContextBuilder.build(): recall the notes, recall the items, count  *)
(* their use, fetch their sources, and check these again.                   *)
Goes(r, at) == [reader[r] EXCEPT !.at = at]

RecallNotes(r) ==
  /\ reader[r].at = "idle"
  /\ reader' = [reader EXCEPT ![r] =
       [Goes(r, "find") EXCEPT !.notes = {n \in Notes : Live(note[n])},
                               !.gone = past]]
  /\ UNCHANGED <<active, past, item, note, author, writer>>

FindItems(r) ==
  /\ reader[r].at = "find"
  /\ reader' = [reader EXCEPT ![r] =
       [Goes(r, "verify") EXCEPT
          !.rows = {[of |-> i, row |-> item[i]] : i \in {j \in Items : Live(item[j])}}]]
  /\ UNCHANGED <<active, past, item, note, author, writer>>

\* A candidate whose sources are all in force is kept; another is marked stale
\* by writing back the row that was found.
VerifyItem(r) ==
  /\ reader[r].at = "verify"
  /\ \E found \in reader[r].rows :
       IF found.row.refs \subseteq active
       THEN reader' = [reader EXCEPT ![r].rows = @ \ {found}, ![r].kept = @ \cup {found}]
       ELSE reader' = [reader EXCEPT ![r] = [Goes(r, "stale") EXCEPT !.todo = {found}]]
  /\ UNCHANGED <<active, past, item, note, author, writer>>

MarkStale(r) ==
  /\ reader[r].at = "stale"
  /\ \E found \in reader[r].todo :
       /\ item' = [item EXCEPT ![found.of] = [found.row EXCEPT !.status = "stale"]]
       /\ reader' = [reader EXCEPT ![r] =
            [Goes(r, "verify") EXCEPT !.rows = @ \ {found}, !.todo = {}]]
       /\ past' = past \cup {found.of}
  /\ UNCHANGED <<active, note, author, writer>>

Recalled(r) ==
  /\ reader[r].at = "verify" /\ reader[r].rows = {}
  /\ reader' = [reader EXCEPT ![r] = [Goes(r, "use") EXCEPT !.todo = reader[r].kept]]
  /\ UNCHANGED <<active, past, item, note, author, writer>>

\* Mutant: the row that was found is written back with one use more.
CountFound(found) == [found.row EXCEPT !.uses = @ + 1]

\* The count is incremented in the store.
CountUse(found) == [item[found.of] EXCEPT !.uses = @ + 1]

\* source_chunks: the use is counted and the sources in force are taken.
UseItem(r) ==
  /\ reader[r].at = "use"
  /\ \E found \in reader[r].todo :
       /\ item[found.of].uses < MaxUses
       /\ item' = [item EXCEPT ![found.of] = CountUse(found)]
       /\ reader' = [reader EXCEPT ![r].todo = @ \ {found},
                       ![r].evidence = @ \cup (found.row.refs \cap active)]
  /\ UNCHANGED <<active, past, note, author, writer>>

\* _apply_budget drops items first, then notes; the chunks of dropped items
\* go with them, and those no longer valid.
Build(r, dropped) ==
  /\ reader[r].at = "use" /\ reader[r].todo = {}
  /\ LET items == {found \in reader[r].kept : found.of \notin dropped}
         cited == UNION {found.row.refs : found \in items}
     IN  reader' = [reader EXCEPT ![r] =
           [Goes(r, "built") EXCEPT !.kept = items,
              !.notes = IF items = {} THEN @ \ dropped ELSE @,
              !.evidence = @ \cap active \cap cited]]
  /\ UNCHANGED <<active, past, item, note, author, writer>>

Answer(r) ==
  /\ reader[r].at = "built"
  /\ reader' = [reader EXCEPT ![r] = Resting]
  /\ UNCHANGED <<active, past, item, note, author, writer>>

Reading(r) ==
  \/ RecallNotes(r) \/ FindItems(r) \/ VerifyItem(r) \/ MarkStale(r)
  \/ Recalled(r) \/ UseItem(r) \/ Answer(r)
  \/ \E dropped \in SUBSET (Items \cup Notes) : Build(r, dropped)

Organization ==
  \/ \E d \in Documents : Withdraw(d)
  \/ \E i \in Items : \/ \E refs \in SUBSET Documents : BeginPublish(i, refs)
                      \/ \E d \in Documents : VerifyRef(i, d)
                      \/ SaveItem(i) \/ ReadToArchive(i) \/ Archive(i)

Personal ==
  \E n \in Notes : \/ BeginRemember(n) \/ Supersede(n) \/ SaveNote(n)
                   \/ ReadToForget(n) \/ Forget(n) \/ Prune(n)

Context == \E r \in Readers : Reading(r)

Next == Organization \/ Personal \/ Context

Spec == Init /\ [][Next]_vars
-----------------------------------------------------------------------------
(* What was withdrawn before a context was begun is not in it: no document   *)
(* out of force, no memory archived or found stale, no note forgotten or     *)
(* replaced, whichever rows other requests write back meanwhile; and its     *)
(* evidence is of items it still holds.                                     *)
WithdrawnIsNotRecalled ==
  \A r \in Readers : reader[r].at = "built" =>
    /\ reader[r].gone \cap
         (reader[r].notes \cup reader[r].evidence \cup {k.of : k \in reader[r].kept}) = {}
    /\ reader[r].evidence \subseteq UNION {k.row.refs : k \in reader[r].kept}
=============================================================================
