------------------------------- MODULE Rollout -------------------------------
(***************************************************************************)
(* Candidates of one workflow family: proposed by the feedback loop,        *)
(* approved, promoted, measured and taken back (jinshu/loop.py), used by    *)
(* requests (jinshu/skills.py, orchestrator.py), and the freeze that keeps  *)
(* them out (jinshu/operations.py; shared between instances by              *)
(* jinshu/service_ops.py).  Rows are read and written back whole.  Shares   *)
(* of users, metrics and the replay itself are left out.                   *)
(***************************************************************************)
CONSTANTS
  Instances,
  Candidates,
  Tasks,   \* requests and loop cycles under way
  Shared,  \* TRUE in the profile "services"
  None

VARIABLES
  skill,    \* row of each candidate: [status, passed]
  exper,    \* status of its experiment
  control,  \* the shared freeze: None or [frozen, status]
  local,    \* of each instance: None or [frozen, status, by]
  disk,     \* the same in its file
  lock,     \* the task that has the lock of its recovery, or None
  task,     \* of each task: None or what it is about, see Job
  stopped,  \* instances frozen by a rollback and not resumed since
  use       \* the last use: [passed, stopped], or None

vars == <<skill, exper, control, local, disk, lock, task, stopped, use>>
rows == <<skill, exper, control>>
ledger == <<local, disk, lock, stopped>>

NoSkills == [c \in Candidates |-> [status |-> "none", passed |-> FALSE]]
NoExperiments == [c \in Candidates |-> "none"]

Init ==
  /\ skill = NoSkills
  /\ exper = NoExperiments
  /\ control = None
  /\ local = [i \in Instances |-> None]
  /\ disk = [i \in Instances |-> None]
  /\ lock = [i \in Instances |-> None]
  /\ task = [t \in Tasks |-> None]
  /\ stopped = {}
  /\ use = None

\* s, e and row are what was read and will be written; late says that the
\* instance was stopped when the request came.
Job(op, i, c, stage) ==
  [op |-> op, at |-> i, c |-> c, stage |-> stage,
   s |-> None, e |-> None, row |-> None, late |-> FALSE]

At(t, stage) == task[t] # None /\ task[t].stage = stage
Turn(t, job) == task' = [task EXCEPT ![t] = job]
Go(t, stage) == Turn(t, [task[t] EXCEPT !.stage = stage])
Free(t) == task[t] = None
Frozen(i) == local[i] # None /\ local[i].frozen
Row(frozen, status) == [frozen |-> frozen, status |-> status]
Keep(i, row, by) ==
  local' = [local EXCEPT ![i] =
              [frozen |-> row.frozen, status |-> row.status, by |-> by]]
Save == disk' = local'
-----------------------------------------------------------------------------
Propose(t, i, c, passed) ==
  /\ Free(t)
  /\ skill[c].status = "none"
  /\ Turn(t, [Job("propose", i, c, "skill") EXCEPT
                !.s = [status |-> "pending", passed |-> passed],
                !.e = "pending_review"])
  /\ UNCHANGED <<rows, ledger, use>>

\* The replay is run again and has to pass.
Approve(t, i, c) ==
  /\ Free(t)
  /\ skill[c].status = "pending" /\ skill[c].passed
  /\ Turn(t, [Job("approve", i, c, "others") EXCEPT
                !.s = [skill[c] EXCEPT !.status = "active"], !.e = "running"])
  /\ UNCHANGED <<rows, ledger, use>>

Others(t) ==
  /\ At(t, "others")
  /\ IF \E c \in Candidates : exper[c] = "running"
     THEN Turn(t, None)
     ELSE Go(t, "skill")
  /\ UNCHANGED <<rows, ledger, use>>

Promote(t, i, c) ==
  /\ Free(t)
  /\ skill[c].status = "active"
  /\ Turn(t, [Job("promote", i, c, "grow") EXCEPT !.s = skill[c]])
  /\ UNCHANGED <<rows, ledger, use>>

Grow(t, all) ==
  /\ At(t, "grow")
  /\ Turn(t, [task[t] EXCEPT !.stage = "skill",
                !.e = IF all THEN "deployed" ELSE exper[task[t].c]])
  /\ UNCHANGED <<rows, ledger, use>>

Monitor(t, i, c) ==
  /\ Free(t)
  /\ exper[c] = "running"
  /\ Turn(t, [Job("monitor", i, c, "measure") EXCEPT !.e = "running"])
  /\ UNCHANGED <<rows, ledger, use>>

\* A candidate that does worse is taken back, its row read before the freeze.
Measure(t, worse) ==
  /\ At(t, "measure")
  /\ IF worse
     THEN Turn(t, [task[t] EXCEPT !.stage = "freeze",
                     !.s = [skill[task[t].c] EXCEPT !.status = "deprecated"]])
     ELSE Go(t, "experiment")
  /\ UNCHANGED <<rows, ledger, use>>

Rollback(t, i, c) ==
  /\ Free(t)
  /\ skill[c].status # "none"
  /\ Turn(t, [Job("rollback", i, c, "freeze") EXCEPT
                !.s = [skill[c] EXCEPT !.status = "rolled_back"],
                !.e = "rolled_back"])
  /\ UNCHANGED <<rows, ledger, use>>
-----------------------------------------------------------------------------
\* The mutant freezes in memory alone.
FreezeUnsaved(t) ==
  LET i == task[t].at
  IN  /\ At(t, "freeze")
      /\ lock[i] = None
      /\ lock' = [lock EXCEPT ![i] = t]
      /\ Keep(i, Row(TRUE, "local_frozen_remote_pending"), t)
      /\ stopped' = stopped \cup {i}
      /\ Go(t, IF Shared THEN "share" ELSE "skill")
      /\ UNCHANGED <<rows, disk, use>>

Freeze(t) ==
  LET i == task[t].at
  IN  /\ At(t, "freeze")
      /\ lock[i] = None
      /\ lock' = [lock EXCEPT ![i] = t]
      /\ Keep(i, Row(TRUE, "local_frozen_remote_pending"), t)
      /\ Save
      /\ stopped' = stopped \cup {i}
      /\ Go(t, IF Shared THEN "share" ELSE "skill")
      /\ UNCHANGED <<rows, use>>

Share(t) ==
  /\ At(t, "share")
  /\ control' = Row(TRUE, "shared_freeze_confirmed")
  /\ Go(t, "skill")
  /\ UNCHANGED <<skill, exper, ledger, use>>

Confirming == IF Shared THEN "confirm" ELSE "close"

WriteSkill(t) ==
  /\ At(t, "skill")
  /\ skill' = [skill EXCEPT ![task[t].c] = task[t].s]
  /\ CASE task[t].op = "ask" -> Turn(t, None)
       [] task[t].op = "monitor" -> Go(t, Confirming)
       [] OTHER -> Go(t, "experiment")
  /\ UNCHANGED <<exper, control, ledger, use>>

WriteExperiment(t) ==
  LET c == task[t].c
  IN  /\ At(t, "experiment")
      /\ exper' = IF exper[c] = "none" /\ task[t].op # "propose"
                  THEN exper ELSE [exper EXCEPT ![c] = task[t].e]
      /\ IF task[t].op = "rollback" THEN Go(t, Confirming) ELSE Turn(t, None)
      /\ UNCHANGED <<skill, control, ledger, use>>

Confirm(t) ==
  /\ At(t, "confirm")
  /\ control' = Row(TRUE, "remote_rollback_confirmed")
  /\ Go(t, "close")
  /\ UNCHANGED <<skill, exper, ledger, use>>

\* The status goes into the record of this rollback, if that is still there.
Ended(t, confirmed) ==
  LET i == task[t].at
      status == IF confirmed THEN "remote_rollback_confirmed"
                ELSE "local_baseline_remote_unconfirmed"
  IN  /\ IF local[i].by = t
         THEN Keep(i, Row(local[i].frozen, status), None)
         ELSE UNCHANGED local
      /\ Save
      /\ lock' = [lock EXCEPT ![i] = None]
      /\ IF task[t].op = "monitor"
         THEN Turn(t, [task[t] EXCEPT !.stage = "experiment",
                         !.e = IF confirmed THEN "rolled_back"
                               ELSE "local_frozen_remote_unconfirmed"])
         ELSE Turn(t, None)
      /\ UNCHANGED <<rows, stopped, use>>

Close(t) == At(t, "close") /\ Ended(t, TRUE)

\* The remote part fails, or times out with its last write done or not.
Fail(t) ==
  /\ task[t] # None
  /\ lock[task[t].at] = t
  /\ Ended(t, FALSE)
-----------------------------------------------------------------------------
\* A rollback that failed has to be repeated before its family is resumed.
Resume(i) ==
  /\ ~Shared
  /\ local[i] # None
  /\ local[i].status = "remote_rollback_confirmed"
  /\ Keep(i, Row(FALSE, local[i].status), None)
  /\ Save
  /\ stopped' = stopped \ {i}
  /\ UNCHANGED <<rows, lock, task, use>>

ResumeShared(t, i) ==
  /\ Shared
  /\ Free(t)
  /\ Turn(t, [Job("resume", i, None, "resume") EXCEPT !.row = control])
  /\ UNCHANGED <<rows, ledger, use>>

Unfreeze(t) ==
  LET i == task[t].at
      row == IF task[t].row # None THEN task[t].row
             ELSE IF local[i] # None THEN local[i] ELSE None
      next == Row(FALSE, IF row = None THEN None ELSE row.status)
  IN  /\ At(t, "resume")
      /\ IF row = None \/ row.status = "remote_rollback_confirmed"
         THEN /\ IF row = None THEN UNCHANGED local ELSE Keep(i, next, None)
              /\ stopped' = stopped \ {i}
              /\ Turn(t, [task[t] EXCEPT !.stage = "control", !.row = next])
         ELSE /\ IF task[t].row = None THEN UNCHANGED local ELSE Keep(i, row, None)
              /\ UNCHANGED stopped
              /\ Turn(t, None)
      /\ Save
      /\ UNCHANGED <<rows, lock, use>>

WriteControl(t) ==
  /\ At(t, "control")
  /\ control' = task[t].row
  /\ Turn(t, None)
  /\ UNCHANGED <<skill, exper, ledger, use>>
-----------------------------------------------------------------------------
Ask(t, i) ==
  /\ Free(t)
  /\ Turn(t, [Job("ask", i, None, IF Shared THEN "refresh" ELSE "list") EXCEPT
                !.row = control, !.late = i \in stopped])
  /\ UNCHANGED <<rows, ledger, use>>

\* The row as it was read replaces what the instance knows.
Refresh(t) ==
  /\ At(t, "refresh")
  /\ IF task[t].row = None
     THEN UNCHANGED <<local, disk>>
     ELSE Keep(task[t].at, task[t].row, None) /\ Save
  /\ Go(t, "list")
  /\ UNCHANGED <<rows, lock, stopped, use>>

Unreadable(t) ==
  /\ At(t, "refresh")
  /\ Keep(task[t].at, Row(TRUE, "authority_unavailable"), None)
  /\ Turn(t, None)
  /\ UNCHANGED <<rows, disk, lock, stopped, use>>

List(t, c) ==
  /\ At(t, "list")
  /\ skill[c].status = "active"
  /\ Turn(t, [task[t] EXCEPT !.stage = "use", !.c = c, !.s = skill[c]])
  /\ UNCHANGED <<rows, ledger, use>>

\* A frozen family is left to its baseline.  How often a candidate was used is
\* written into its row as it was listed.
Use(t) ==
  LET i == task[t].at
  IN  /\ At(t, "use")
      /\ IF Frozen(i)
         THEN Turn(t, None) /\ UNCHANGED use
         ELSE /\ use' = [passed |-> task[t].s.passed,
                         stopped |-> task[t].late /\ i \in stopped]
              /\ Go(t, "skill")
      /\ UNCHANGED <<rows, ledger>>

\* A task that has no lock fails, is cancelled or finds nothing to do.
Stop(t) ==
  /\ task[t] # None
  /\ lock[task[t].at] # t
  /\ Turn(t, None)
  /\ UNCHANGED <<rows, ledger, use>>

\* The rows of the offline profile are in memory.
Restart(i) ==
  /\ local' = [local EXCEPT ![i] = disk[i]]
  /\ lock' = [lock EXCEPT ![i] = None]
  /\ task' = [t \in Tasks |->
                IF task[t] # None /\ task[t].at = i THEN None ELSE task[t]]
  /\ IF Shared THEN UNCHANGED <<skill, exper>>
     ELSE skill' = NoSkills /\ exper' = NoExperiments
  /\ UNCHANGED <<control, disk, stopped, use>>

Next ==
  \/ \E t \in Tasks, i \in Instances, c \in Candidates, passed \in BOOLEAN :
       Propose(t, i, c, passed)
  \/ \E t \in Tasks, i \in Instances, c \in Candidates :
       Approve(t, i, c) \/ Promote(t, i, c) \/ Monitor(t, i, c) \/ Rollback(t, i, c)
  \/ \E t \in Tasks : Others(t) \/ (\E b \in BOOLEAN : Grow(t, b) \/ Measure(t, b))
  \/ \E t \in Tasks : Freeze(t) \/ Share(t) \/ WriteSkill(t) \/ WriteExperiment(t)
                        \/ Confirm(t) \/ Close(t) \/ Fail(t)
  \/ \E i \in Instances : Resume(i) \/ Restart(i)
  \/ \E t \in Tasks, i \in Instances : ResumeShared(t, i) \/ Ask(t, i)
  \/ \E t \in Tasks : Unfreeze(t) \/ WriteControl(t) \/ Refresh(t)
                        \/ Unreadable(t) \/ Use(t) \/ Stop(t)
  \/ \E t \in Tasks, c \in Candidates : List(t, c)

Spec == Init /\ [][Next]_vars
-----------------------------------------------------------------------------
(* What is used passed its replay, whatever stale rows were written back.   *)
UsedPassed == use # None => use.passed

(* Once a rollback froze an instance, no request that comes afterwards uses *)
(* a candidate there before the family was resumed, be the rollback pending, *)
(* failed or confirmed, and the instance restarted or not.                  *)
FreezeHolds == use # None => ~use.stopped
=============================================================================
