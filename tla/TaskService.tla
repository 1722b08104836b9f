----------------------------- MODULE TaskService -----------------------------
(***************************************************************************)
(* The life of one task of the workbench (unified/tasks.py).  Every request *)
(* reads the row, and stores what it made of it only if the row still has   *)
(* the revision it read.  A tool runs between two such stores, a file is    *)
(* rendered between two reads.  A result is told apart by the input the     *)
(* tool was given.                                                         *)
(***************************************************************************)
EXTENDS Naturals

CONSTANTS
  Requests,
  Inputs,
  MaxRevision,  \* bound of the model
  None

VARIABLES
  row,     \* [revision, status, input, result, approval]; None before create
  asked,   \* of each request: [op, stage, revision, row], or None
  file     \* the last file delivered: the row it shows, and the row then

vars == <<row, asked, file>>

Init ==
  /\ row = None
  /\ asked = [r \in Requests |-> None]
  /\ file = None

Draft(revision, x) ==
  [revision |-> revision, status |-> "draft", input |-> x,
   result |-> None, approval |-> None]

Create(x) ==
  /\ row = None
  /\ row' = Draft(1, x)
  /\ UNCHANGED <<asked, file>>

At(r, stage) == asked[r] # None /\ asked[r].stage = stage
Turn(r, job) == asked' = [asked EXCEPT ![r] = job]

\* read, and what the request will store; the revision it came with is current.
Begin(r, op, stage, next) ==
  /\ asked[r] = None
  /\ row.revision < MaxRevision
  /\ Turn(r, [op |-> op, stage |-> stage, revision |-> row.revision, row |-> next])
  /\ UNCHANGED <<row, file>>

Edit(r, x) ==
  /\ row # None
  /\ Begin(r, "edit", "change", Draft(row.revision + 1, x))

Run(r) ==
  /\ row # None
  /\ row.status \in {"draft", "failed"}
  /\ Begin(r, "run", "change",
           [row EXCEPT !.revision = @ + 1, !.status = "running"])

Approve(r) ==
  /\ row # None
  /\ row.status = "needs_review"
  /\ Begin(r, "approve", "change",
           [row EXCEPT !.revision = @ + 1, !.status = "approved",
                       !.approval = row.result])

Export(r) ==
  /\ row # None
  /\ row.status = "approved"
  /\ row.approval = row.result
  /\ Begin(r, "export", "render", row)

\* Mutant: the row is stored whatever its revision became.
ChangeAnyRevision(r) ==
  /\ At(r, "change")
  /\ row' = asked[r].row
  /\ Turn(r, IF asked[r].op = "run" THEN [asked[r] EXCEPT !.stage = "tool"] ELSE None)
  /\ UNCHANGED file

\* A conflict drops what the request made.
Change(r) ==
  /\ At(r, "change")
  /\ IF row.revision = asked[r].revision
     THEN /\ row' = asked[r].row
          /\ Turn(r, IF asked[r].op = "run"
                     THEN [asked[r] EXCEPT !.stage = "tool"] ELSE None)
     ELSE /\ Turn(r, None)
          /\ UNCHANGED row
  /\ UNCHANGED file

\* The tool ends, with a result or an error, and that is stored like the rest.
Tool(r, ok) ==
  LET running == asked[r].row
      ended == [running EXCEPT !.revision = @ + 1,
                               !.status = IF ok THEN "needs_review" ELSE "failed",
                               !.result = IF ok THEN running.input ELSE @]
  IN  /\ At(r, "tool")
      /\ Turn(r, [op |-> "result", stage |-> "change",
                  revision |-> running.revision, row |-> ended])
      /\ UNCHANGED <<row, file>>

\* Mutant: the row is not read again.
DeliverAtOnce(r) ==
  /\ At(r, "render")
  /\ file' = [shown |-> asked[r].row, current |-> row]
  /\ Turn(r, None)
  /\ UNCHANGED row

Deliver(r) ==
  /\ At(r, "render")
  /\ IF row.revision = asked[r].revision
     THEN file' = [shown |-> asked[r].row, current |-> row]
     ELSE UNCHANGED file
  /\ Turn(r, None)
  /\ UNCHANGED row

\* The process dies, the client goes away, or the file cannot be rendered: a
\* task that runs stays running until it is edited.
Die(r) ==
  /\ asked[r] # None
  /\ Turn(r, None)
  /\ UNCHANGED <<row, file>>

Next ==
  \/ \E x \in Inputs : Create(x)
  \/ \E r \in Requests, x \in Inputs : Edit(r, x)
  \/ \E r \in Requests : Run(r) \/ Approve(r) \/ Export(r)
                           \/ Change(r) \/ Deliver(r) \/ Die(r)
  \/ \E r \in Requests, ok \in BOOLEAN : Tool(r, ok)

Spec == Init /\ [][Next]_vars
-----------------------------------------------------------------------------
(* A file shows the task as it is when it is delivered: a result of its     *)
(* present input that was confirmed, though the task is edited, run or       *)
(* confirmed again while a tool runs or the file is rendered.                *)
FilesAreCurrent ==
  file # None =>
    /\ file.shown = file.current
    /\ file.shown.status = "approved"
    /\ file.shown.approval = file.shown.result
    /\ file.shown.result = file.shown.input
=============================================================================
