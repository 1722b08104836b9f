---------------------------- MODULE ReviewEngine ----------------------------
(***************************************************************************)
(* The review of a department's new documents (review_engine.py), by which  *)
(* people leave the loop: an order of test questions for each document,     *)
(* judged by an administrator, statistics of the department, and its phase. *)
(* The row of the department is read and written back whole, three times    *)
(* in a submission.  A submission that stops half-way never goes on.        *)
(***************************************************************************)
EXTENDS Naturals

CONSTANTS
  Orders,      \* orders of one department, with a question each
  Sampled,     \* those whose document falls in the sample
  Submits,     \* submissions under way
  MinSamples,
  Num, Den,    \* the threshold of accuracy, Num/Den
  MaxTotal,    \* bound of the model
  None

VARIABLES
  dept,        \* [phase, total, correct]
  order,       \* of each order: [status, phase], or None
  submit       \* of each submission: [order, right, stage, row], or None

vars == <<dept, order, submit>>

Init ==
  /\ dept = [phase |-> "human_in_loop", total |-> 0, correct |-> 0]
  /\ order = [o \in Orders |-> None]
  /\ submit = [t \in Submits |-> None]

Out(row) == row.phase = "human_out_of_loop"

\* Questions are generated and answered, then the phase is read.
Create(o) ==
  /\ order[o] = None
  /\ order' = [order EXCEPT ![o] = [status |-> "created", phase |-> dept.phase]]
  /\ UNCHANGED <<dept, submit>>

Issue(o) ==
  /\ order[o] # None /\ order[o].status = "created"
  /\ order' = [order EXCEPT ![o].status =
       IF Out(order[o]) /\ o \notin Sampled THEN "auto_approved" ELSE "pending"]
  /\ UNCHANGED <<dept, submit>>

At(t, stage) == submit[t] # None /\ submit[t].stage = stage
Go(t, stage, row) ==
  submit' = [submit EXCEPT ![t].stage = stage, ![t].row = row]
Done(t) == submit' = [submit EXCEPT ![t] = None]

Submit(t, o, right) ==
  /\ submit[t] = None
  /\ order[o] # None /\ order[o].status = "pending"
  /\ dept.total < MaxTotal
  /\ submit' = [submit EXCEPT ![t] =
       [order |-> o, right |-> right, stage |-> "judged", row |-> None]]
  /\ UNCHANGED <<dept, order>>

Judge(t) ==
  /\ At(t, "judged")
  /\ order' = [order EXCEPT ![submit[t].order].status = "reviewed"]
  /\ Go(t, "stats", None)
  /\ UNCHANGED <<dept>>

Write(t, next) ==
  /\ dept' = submit[t].row
  /\ Go(t, next, None)
  /\ UNCHANGED order

ReadStats(t) ==
  /\ At(t, "stats")
  /\ Go(t, "add", [dept EXCEPT !.total = @ + 1,
                               !.correct = IF submit[t].right THEN @ + 1 ELSE @])
  /\ UNCHANGED <<dept, order>>

WriteStats(t) == At(t, "add") /\ Write(t, "fade")

Accurate(row) == row.total > 0 /\ Den * row.correct >= Num * row.total

\* Mutant: the phase only ever moves on.
PhaseOfNoReturn(row) ==
  IF Out(row) \/ (Accurate(row) /\ row.total >= MinSamples) THEN "human_out_of_loop"
  ELSE IF Accurate(row) THEN "human_on_loop" ELSE row.phase

PhaseOf(row) ==
  IF ~Accurate(row) THEN "human_in_loop"
  ELSE IF row.total >= MinSamples THEN "human_out_of_loop" ELSE "human_on_loop"

SampleFailed(t) ==
  LET o == submit[t].order
  IN  Out(order[o]) /\ o \in Sampled /\ ~submit[t].right

Then(t) == IF SampleFailed(t) THEN "sample" ELSE "done"

\* maybe_fade_out: only a phase that changes is written.
FadeOut(t) ==
  LET phase == PhaseOf(dept)
  IN  /\ At(t, "fade")
      /\ IF phase = dept.phase
         THEN Go(t, Then(t), None)
         ELSE Go(t, "phase", [dept EXCEPT !.phase = phase])
      /\ UNCHANGED <<dept, order>>

WritePhase(t) == At(t, "phase") /\ Write(t, Then(t))

ReadSampled(t) ==
  /\ At(t, "sample")
  /\ Go(t, "return", [dept EXCEPT !.phase = "human_on_loop"])
  /\ UNCHANGED <<dept, order>>

ReturnToLoop(t) ==
  /\ At(t, "return")
  /\ Write(t, "done")

Respond(t) ==
  /\ At(t, "done")
  /\ Done(t)
  /\ UNCHANGED <<dept, order>>

Next ==
  \/ \E o \in Orders : Create(o) \/ Issue(o)
  \/ \E t \in Submits, o \in Orders, right \in BOOLEAN : Submit(t, o, right)
  \/ \E t \in Submits : Judge(t) \/ ReadStats(t) \/ WriteStats(t) \/ FadeOut(t)
                          \/ WritePhase(t) \/ ReadSampled(t) \/ ReturnToLoop(t)
                          \/ Respond(t)

Spec == Init /\ [][Next]_vars
-----------------------------------------------------------------------------
(* People are out of the loop only on evidence: whenever no submission is   *)
(* under way, a department that is out of the loop has the accuracy and the *)
(* number of samples it takes, though submissions overwrite the department  *)
(* with rows they read before each other's writes.                          *)
PhaseIsEarned ==
  (\A t \in Submits : submit[t] = None) /\ Out(dept) =>
    Accurate(dept) /\ dept.total >= MinSamples
=============================================================================
