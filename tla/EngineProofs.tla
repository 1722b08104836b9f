---------------------------- MODULE EngineProofs ----------------------------
(***************************************************************************)
(* What MCEngine checks of the engine, for every value of the constants:    *)
(* the phases of a department, the roll-out of candidates in one instance,  *)
(* the orchestration of a question, the learning loop, the ingestion of the *)
(* versions of a title and the comparison of uploads.  For each an invariant *)
(* that its steps keep, from which the property follows.                   *)
(***************************************************************************)
EXTENDS MCEngine, TLAPS

-----------------------------------------------------------------------------
(* The review of documents (ReviewEngine).                                  *)
Phases == {"human_in_loop", "human_on_loop", "human_out_of_loop"}
DeptRow == [phase : Phases, total : Nat, correct : Nat]

Stages == {"judged", "stats", "add", "fade", "phase", "sample", "return", "done"}
Submission ==
  [order : Orders, right : BOOLEAN, stage : Stages, row : DeptRow \cup {None}]

NoneIsNoSubmission == None \notin DeptRow /\ None \notin Submission

Earned(row) == Review!Accurate(row) /\ row.total >= MinSamples

\* Statistics that do not bear the phase, as when a row read before another's
\* writes was written over them, are there only until the one who wrote them
\* has compared the two; no other row takes a department out of the loop.
ReviewInv ==
  /\ dept \in DeptRow
  /\ submit \in [Submits -> Submission \cup {None}]
  /\ \A t \in Submits : submit[t] # None =>
       /\ submit[t].stage \in {"add", "phase", "return"} => submit[t].row # None
       /\ submit[t].stage \in {"phase", "return"} /\ Review!Out(submit[t].row) =>
            Earned(submit[t].row)
  /\ Review!Out(dept) /\ ~Earned(dept) =>
       \E t \in Submits : submit[t] # None /\ submit[t].stage \in {"fade", "phase"}

Restaged(job, stage, row) == [job EXCEPT !.stage = stage, !.row = row]
Added(row, right) ==
  [row EXCEPT !.total = @ + 1, !.correct = IF right THEN @ + 1 ELSE @]

LEMMA SubmissionMoves ==
  ASSUME NEW job \in Submission, NEW row \in DeptRow \cup {None},
         NEW stage \in Stages
  PROVE  /\ Restaged(job, stage, row) \in Submission
         /\ Restaged(job, stage, row).stage = stage
         /\ Restaged(job, stage, row).row = row
<1> SUFFICES ASSUME NEW next, next = [job EXCEPT !.stage = stage, !.row = row]
             PROVE  next \in Submission /\ next.stage = stage /\ next.row = row
  BY DEF Restaged
<1>1. next = [order |-> job.order, right |-> job.right, stage |-> stage, row |-> row]
  BY DEF Submission
<1>2. job.order \in Orders /\ job.right \in BOOLEAN
  BY DEF Submission
<1>3. next \in Submission
  BY <1>1, <1>2, Zenon DEF Submission
<1> QED
  BY <1>1, <1>3

LEMMA StatisticsAdd ==
  ASSUME NEW row \in DeptRow, NEW right \in BOOLEAN PROVE Added(row, right) \in DeptRow
<1> SUFFICES ASSUME NEW next, next = [row EXCEPT !.total = @ + 1,
                                        !.correct = IF right THEN @ + 1 ELSE @]
             PROVE  next \in DeptRow
  BY DEF Added
<1> DEFINE correct == IF right THEN row.correct + 1 ELSE row.correct
<1>1. next = [phase |-> row.phase, total |-> row.total + 1, correct |-> correct]
  BY DEF DeptRow
<1>2. correct \in Nat /\ row.total + 1 \in Nat
      /\ row.phase \in Phases
  BY DEF DeptRow
<1> HIDE DEF correct
<1> QED
  BY <1>1, <1>2 DEF DeptRow

\* A submission goes on to its next stage, and holds there what it may hold.
LEMMA SubmissionGoes ==
  ASSUME NoneIsNoSubmission, ReviewInv, NEW t \in Submits, submit[t] # None,
         NEW stage \in Stages,
         NEW row \in DeptRow \cup {None}, Review!Go(t, stage, row),
         stage \in {"add", "phase", "return"} => row # None,
         stage \in {"phase", "return"} /\ Review!Out(row) => Earned(row),
         dept' \in DeptRow,
         Review!Out(dept') /\ ~Earned(dept') =>
           \/ stage \in {"fade", "phase"}
           \/ \E u \in Submits \ {t} : submit[u] # None /\ submit[u].stage \in {"fade", "phase"}
  PROVE  ReviewInv'
<1> DEFINE next == Restaged(submit[t], stage, row)
<1>1. submit[t] \in Submission /\ submit \in [Submits -> Submission \cup {None}]
  BY DEF ReviewInv
<1>2. next \in Submission /\ next.stage = stage /\ next.row = row
  BY <1>1, SubmissionMoves DEF NoneIsNoSubmission
<1>4. submit' = [submit EXCEPT ![t] = next]
  BY DEF Review!Go, Restaged
<1> HIDE DEF next
<1>6. submit' \in [Submits -> Submission \cup {None}]
  BY <1>1, <1>2, <1>4
<1>7. submit'[t] = next /\ next # None /\ \A u \in Submits \ {t} : submit'[u] = submit[u]
  BY <1>1, <1>2, <1>4 DEF NoneIsNoSubmission
<1>8. ASSUME NEW u \in Submits, submit'[u] # None
      PROVE  /\ submit'[u].stage \in {"add", "phase", "return"} => submit'[u].row # None
             /\ submit'[u].stage \in {"phase", "return"} /\ Review!Out(submit'[u].row) =>
                  Earned(submit'[u].row)
  BY <1>2, <1>7, <1>8 DEF ReviewInv
<1>9. Review!Out(dept') /\ ~Earned(dept') =>
        \E u \in Submits : submit'[u] # None /\ submit'[u].stage \in {"fade", "phase"}
  BY <1>2, <1>7
<1> QED
  BY <1>6, <1>8, <1>9 DEF ReviewInv, Earned, Review!Accurate, Review!Out

LEMMA ReviewSteps ==
  ASSUME NoneIsNoSubmission PROVE ReviewInv /\ [Review!Next]_Review!vars => ReviewInv'
<1> USE DEF NoneIsNoSubmission
<1> SUFFICES ASSUME ReviewInv, [Review!Next]_Review!vars PROVE ReviewInv'
  OBVIOUS
<1>1. ASSUME NEW o \in Orders, Review!Create(o) PROVE ReviewInv'
  BY <1>1 DEF Review!Create, ReviewInv
<1>2. ASSUME NEW o \in Orders, Review!Issue(o) PROVE ReviewInv'
  BY <1>2 DEF Review!Issue, ReviewInv
<1>3. ASSUME NEW t \in Submits, NEW o \in Orders, NEW right \in BOOLEAN,
             Review!Submit(t, o, right)
      PROVE  ReviewInv'
  <2> DEFINE job == [order |-> o, right |-> right, stage |-> "judged", row |-> None]
  <2>1. job \in Submission
    BY DEF Submission, Stages
  <2>2. submit' = [submit EXCEPT ![t] = job] /\ dept' = dept /\ submit[t] = None
    BY <1>3 DEF Review!Submit
  <2> QED
    BY <2>1, <2>2 DEF ReviewInv
<1>4. ASSUME NEW t \in Submits, Review!Judge(t) PROVE ReviewInv'
  <2>1. submit[t] # None /\ submit[t].stage = "judged" /\ Review!Go(t, "stats", None) /\ dept' = dept
    BY <1>4 DEF Review!Judge, Review!At
  <2> QED
    BY <2>1, SubmissionGoes DEF ReviewInv, Stages
<1>5. ASSUME NEW t \in Submits, Review!ReadStats(t) PROVE ReviewInv'
  <2> DEFINE added == Added(dept, submit[t].right)
  <2>1. submit[t] # None /\ submit[t].stage = "stats" /\ Review!Go(t, "add", added) /\ dept' = dept
    BY <1>5 DEF Review!ReadStats, Review!At, Added
  <2>2. added \in DeptRow
    BY <2>1, StatisticsAdd DEF ReviewInv, Submission
  <2> HIDE DEF added
  <2> QED
    BY <2>1, <2>2, SubmissionGoes DEF ReviewInv, Stages, NoneIsNoSubmission
<1>6. ASSUME NEW t \in Submits, Review!WriteStats(t) PROVE ReviewInv'
  <2>1. submit[t] # None /\ submit[t].stage = "add" /\ Review!Go(t, "fade", None) /\ dept' = submit[t].row
    BY <1>6 DEF Review!WriteStats, Review!Write, Review!At
  <2>2. submit[t] \in Submission /\ submit[t].row # None
    BY <2>1 DEF ReviewInv
  <2>3. dept' \in DeptRow
    BY <2>1, <2>2 DEF Submission
  <2> QED
    BY <2>1, <2>3, SubmissionGoes DEF Stages
<1>7. ASSUME NEW t \in Submits, Review!FadeOut(t) PROVE ReviewInv'
  <2> DEFINE reached == Review!PhaseOf(dept)
             moved == [dept EXCEPT !.phase = reached]
  <2>1. submit[t] # None /\ submit[t].stage = "fade" /\ dept' = dept /\ dept \in DeptRow
    BY <1>7 DEF Review!FadeOut, Review!At, ReviewInv
  <2>2. reached \in Phases
    BY DEF Review!PhaseOf, Phases
  <2>3. moved \in DeptRow /\ moved.phase = reached /\ moved.total = dept.total /\ moved.correct = dept.correct
    BY <2>1, <2>2 DEF DeptRow
  <2>4. Review!Out(moved) => Earned(moved)
    BY <2>3 DEF Review!Out, Earned, Review!Accurate, Review!PhaseOf
  <2>5. CASE reached = dept.phase
    <3>1. Review!Go(t, Review!Then(t), None)
      BY <1>7, <2>5 DEF Review!FadeOut
    <3>2. Review!Then(t) \in {"sample", "done"}
      BY DEF Review!Then
    <3>3. Review!Out(dept) => Earned(dept)
      BY <2>5 DEF Review!Out, Earned, Review!Accurate, Review!PhaseOf
    <3> QED
      BY <2>1, <3>1, <3>2, <3>3, SubmissionGoes DEF Stages
  <2>6. CASE reached # dept.phase
    <3>1. Review!Go(t, "phase", moved)
      BY <1>7, <2>6 DEF Review!FadeOut
    <3>2. moved # None
      BY <2>3 DEF NoneIsNoSubmission
    <3> HIDE DEF moved
    <3> QED
      BY <2>1, <2>3, <2>4, <3>1, <3>2, SubmissionGoes DEF Stages
  <2> QED
    BY <2>5, <2>6
<1>8. ASSUME NEW t \in Submits, Review!WritePhase(t) PROVE ReviewInv'
  <2>1. /\ submit[t] # None /\ submit[t].stage = "phase"
        /\ Review!Go(t, Review!Then(t), None) /\ dept' = submit[t].row
    BY <1>8 DEF Review!WritePhase, Review!Write, Review!At
  <2>2. dept' \in DeptRow /\ (Review!Out(dept') => Earned(dept'))
    BY <2>1 DEF ReviewInv, Submission
  <2>3. Review!Then(t) \in {"sample", "done"}
    BY DEF Review!Then
  <2> QED
    BY <2>1, <2>2, <2>3, SubmissionGoes DEF ReviewInv, Stages
<1>9. ASSUME NEW t \in Submits, Review!ReadSampled(t) PROVE ReviewInv'
  <2> DEFINE back == [dept EXCEPT !.phase = "human_on_loop"]
  <2>1. submit[t] # None /\ submit[t].stage = "sample" /\ Review!Go(t, "return", back) /\ dept' = dept
    BY <1>9 DEF Review!ReadSampled, Review!At
  <2>2. back \in DeptRow /\ ~Review!Out(back)
    BY DEF ReviewInv, DeptRow, Phases, Review!Out
  <2> HIDE DEF back
  <2> QED
    BY <2>1, <2>2, SubmissionGoes DEF ReviewInv, Stages
<1>10. ASSUME NEW t \in Submits, Review!ReturnToLoop(t) PROVE ReviewInv'
  <2>1. /\ submit[t] # None /\ submit[t].stage = "return"
        /\ Review!Go(t, "done", None) /\ dept' = submit[t].row
    BY <1>10 DEF Review!ReturnToLoop, Review!Write, Review!At
  <2>2. dept' \in DeptRow /\ (Review!Out(dept') => Earned(dept'))
    BY <2>1 DEF ReviewInv, Submission
  <2> QED
    BY <2>1, <2>2, SubmissionGoes DEF ReviewInv, Stages
<1>11. ASSUME NEW t \in Submits, Review!Respond(t) PROVE ReviewInv'
  BY <1>11 DEF Review!Respond, Review!Done, Review!At, ReviewInv
<1>12. CASE UNCHANGED Review!vars
  BY <1>12 DEF Review!vars, ReviewInv
<1> QED
  BY <1>1, <1>2, <1>3, <1>4, <1>5, <1>6, <1>7, <1>8, <1>9, <1>10, <1>11, <1>12 DEF Review!Next

(* A department is out of the loop, no submission being under way, only with *)
(* the accuracy and the samples it takes, however many submissions overwrite *)
(* each other's rows: review_engine.py reads and writes the whole row three  *)
(* times, and the last of these answers for what it finds.                  *)
THEOREM PhaseHasEvidence ==
  ASSUME NoneIsNoSubmission PROVE Review!Spec => []PhaseIsEarned
<1>1. Review!Init => ReviewInv
  BY DEF Review!Init, ReviewInv, DeptRow, Phases, Review!Out
<1>2. ReviewInv => PhaseIsEarned
  BY DEF ReviewInv, PhaseIsEarned, Review!PhaseIsEarned, Earned
<1> QED
  BY <1>1, <1>2, ReviewSteps, PTL DEF Review!Spec
-----------------------------------------------------------------------------
(* The roll-out of candidates in one instance (Rollout, not Shared).         *)
Statuses == {"none", "pending", "active", "deprecated", "rolled_back"}
SkillRow == [status : Statuses, passed : BOOLEAN]
Trials == {"none", "pending_review", "running", "deployed", "rolled_back",
           "local_frozen_remote_unconfirmed"}
Verdicts == {"local_frozen_remote_pending", "remote_rollback_confirmed",
             "local_baseline_remote_unconfirmed"}
LedgerRow == [frozen : BOOLEAN, status : Verdicts, by : Tasks \cup {None}]

\* The stages of the profile "services" are not reached.
LoopStages == {"skill", "others", "grow", "measure", "freeze", "experiment", "close", "list", "use"}
LoopOps == {"propose", "approve", "promote", "monitor", "rollback", "ask"}
LoopJob ==
  [op : LoopOps, at : Instances, c : Candidates \cup {None}, stage : LoopStages,
   s : SkillRow \cup {None}, e : Trials \cup {None}, row : {None}, late : BOOLEAN]

NoneIsNoLoopRow ==
  None \notin SkillRow \cup Trials \cup LedgerRow \cup LoopJob \cup Tasks

Proven(row) == row.status = "active" => row.passed

\* What a task holds to write, or to use, and whose stages these are.
JobSound(job) ==
  /\ job.stage \in {"skill", "others", "grow", "freeze", "use"} => job.s # None
  /\ job.s # None => Proven(job.s)
  /\ job.stage = "use" => job.s.status = "active"
  /\ job.stage = "others" => job.op = "approve"
  /\ job.stage = "grow" => job.op = "promote"
  /\ job.stage = "measure" => job.op = "monitor"
  /\ job.stage \in {"list", "use"} => job.op = "ask"
  /\ job.stage \in {"freeze", "experiment", "close"} => job.op # "ask"
  /\ job.stage # "list" => job.c \in Candidates
  /\ job.op # "ask" /\ job.stage # "grow" => job.e # None

\* A task that froze its instance finds a record of it there.
FrozenBy(job) ==
  \/ job.stage = "close"
  \/ job.op = "monitor" /\ job.stage = "skill"
  \/ job.op = "rollback" /\ job.stage \in {"skill", "experiment"}

RolloutTyped ==
  /\ skill \in [Candidates -> SkillRow]
  /\ exper \in [Candidates -> Trials]
  /\ local \in [Instances -> LedgerRow \cup {None}]
  /\ lock \in [Instances -> Tasks \cup {None}]
  /\ turn \in [Tasks -> LoopJob \cup {None}]
  /\ stopped \in SUBSET Instances
  /\ control = None

JobsAreSound ==
  \A t \in Tasks : turn[t] # None =>
    /\ JobSound(turn[t])
    /\ FrozenBy(turn[t]) => local[turn[t].at] # None

\* The file of an instance says what its memory says, so that a restart forgets
\* no freeze.
LedgersHold ==
  /\ disk = local
  /\ \A i \in Instances : lock[i] # None => local[i] # None
  /\ \A i \in stopped : Offline!Frozen(i)

RolloutInv ==
  /\ RolloutTyped
  /\ \A c \in Candidates : Proven(skill[c])
  /\ JobsAreSound
  /\ LedgersHold
  /\ Offline!FreezeHolds
  /\ Offline!UsedPassed

\* A task takes up a job, or gives its own up, and may write rows that are proven.
LEMMA LoopWrites ==
  ASSUME NoneIsNoLoopRow, RolloutInv, NEW t \in Tasks, NEW job \in LoopJob \cup {None},
         Offline!Turn(t, job), UNCHANGED <<control, local, disk, lock, stopped>>,
         job # None => JobSound(job) /\ (FrozenBy(job) => local[job.at] # None),
         skill' \in [Candidates -> SkillRow], \A c \in Candidates : Proven(skill'[c]),
         exper' \in [Candidates -> Trials], use' # None => use'.passed /\ ~use'.stopped
  PROVE  RolloutInv'
<1>1. turn' = [turn EXCEPT ![t] = job] /\ turn \in [Tasks -> LoopJob \cup {None}]
  BY DEF Offline!Turn, RolloutInv, RolloutTyped
<1>2. RolloutTyped'
  BY <1>1 DEF RolloutInv, RolloutTyped
<1>3. ASSUME NEW u \in Tasks, turn'[u] # None
      PROVE  JobSound(turn'[u]) /\ (FrozenBy(turn'[u]) => local[turn'[u].at] # None)
  BY <1>1, <1>3 DEF RolloutInv, JobsAreSound
<1>4. JobsAreSound'
  BY <1>3 DEF JobsAreSound, JobSound, FrozenBy
<1>5. \A c \in Candidates : Proven(skill[c])'
  BY DEF Proven
<1> QED
  BY <1>2, <1>4, <1>5 DEF RolloutInv, LedgersHold, Offline!Frozen, Offline!FreezeHolds, Offline!UsedPassed

LEMMA LoopTurns ==
  ASSUME NoneIsNoLoopRow, RolloutInv, NEW t \in Tasks, NEW job \in LoopJob \cup {None},
         Offline!Turn(t, job), UNCHANGED <<skill, exper, control, local, disk, lock, stopped, use>>,
         job # None => JobSound(job) /\ (FrozenBy(job) => local[job.at] # None)
  PROVE  RolloutInv'
<1>1. /\ skill' \in [Candidates -> SkillRow] /\ \A c \in Candidates : Proven(skill'[c])
      /\ exper' \in [Candidates -> Trials] /\ (use' # None => use'.passed /\ ~use'.stopped)
  BY DEF RolloutInv, RolloutTyped, Offline!FreezeHolds, Offline!UsedPassed
<1> QED
  BY <1>1, LoopWrites

\* What an instance knows is written to its file.
LEMMA LedgerKept ==
  ASSUME NoneIsNoLoopRow, RolloutInv, NEW i \in Instances, NEW frozen \in BOOLEAN,
         NEW status \in Verdicts, NEW by \in Tasks \cup {None},
         Offline!Keep(i, Offline!Row(frozen, status), by)
  PROVE  /\ local' \in [Instances -> LedgerRow \cup {None}]
         /\ local'[i] # None /\ local'[i].frozen = frozen
         /\ \A j \in Instances \ {i} : local'[j] = local[j]
<1> DEFINE row == [frozen |-> frozen, status |-> status, by |-> by]
<1>1. row \in LedgerRow /\ row.frozen = frozen
  BY DEF LedgerRow
<1>2. local' = [local EXCEPT ![i] = row] /\ local \in [Instances -> LedgerRow \cup {None}]
  BY DEF Offline!Keep, Offline!Row, RolloutInv, RolloutTyped
<1> HIDE DEF row
<1> QED
  BY <1>1, <1>2 DEF NoneIsNoLoopRow

\* Whatever a task does with the ledger of its instance, the others stay, and a
\* family that a rollback stopped is left frozen.
LEMMA LedgerTurns ==
  ASSUME NoneIsNoLoopRow, RolloutInv, NEW i \in Instances,
         local' \in [Instances -> LedgerRow \cup {None}], disk' = local',
         local[i] # None => local'[i] # None,
         \A j \in Instances \ {i} : local'[j] = local[j],
         lock' \in [Instances -> Tasks \cup {None}],
         \A j \in Instances : lock'[j] # None => lock[j] # None \/ (j = i /\ local'[i] # None),
         stopped' \in SUBSET Instances, stopped' \subseteq stopped \cup {i},
         i \in stopped' => local'[i] # None /\ local'[i].frozen,
         turn' \in [Tasks -> LoopJob \cup {None}],
         \A t \in Tasks : turn'[t] # None =>
           JobSound(turn'[t]) /\ (FrozenBy(turn'[t]) => local'[turn'[t].at] # None),
         UNCHANGED <<skill, exper, control, use>>
  PROVE  RolloutInv'
<1>1. RolloutTyped'
  BY DEF RolloutInv, RolloutTyped
<1>2. \A j \in Instances : lock'[j] # None => local'[j] # None
  BY DEF RolloutInv, LedgersHold
<1>3. \A j \in stopped' : local'[j] # None /\ local'[j].frozen
  BY DEF RolloutInv, LedgersHold, Offline!Frozen
<1>4. JobsAreSound'
  BY DEF JobsAreSound, JobSound, FrozenBy
<1>5. LedgersHold'
  BY <1>2, <1>3 DEF LedgersHold, Offline!Frozen
<1> QED
  BY <1>1, <1>4, <1>5 DEF RolloutInv, Proven, Offline!FreezeHolds, Offline!UsedPassed

\* One task turns to a job, the others keep theirs and the records they count on.
LEMMA OthersStay ==
  ASSUME NoneIsNoLoopRow, RolloutInv, NEW t \in Tasks, NEW job \in LoopJob \cup {None},
         Offline!Turn(t, job), \A i \in Instances : local[i] # None => local'[i] # None,
         job # None => JobSound(job) /\ (FrozenBy(job) => local'[job.at] # None)
  PROVE  /\ turn' \in [Tasks -> LoopJob \cup {None}]
         /\ \A u \in Tasks : turn'[u] # None =>
              JobSound(turn'[u]) /\ (FrozenBy(turn'[u]) => local'[turn'[u].at] # None)
<1>1. turn' = [turn EXCEPT ![t] = job] /\ turn \in [Tasks -> LoopJob \cup {None}]
  BY DEF Offline!Turn, RolloutInv, RolloutTyped
<1>2. ASSUME NEW u \in Tasks, turn'[u] # None
      PROVE  JobSound(turn'[u]) /\ (FrozenBy(turn'[u]) => local'[turn'[u].at] # None)
  <2>1. CASE u = t
    BY <1>1, <1>2, <2>1
  <2>2. CASE u # t
    <3>1. turn'[u] = turn[u] /\ turn[u] \in LoopJob
      BY <1>1, <1>2, <2>2
    <3>2. JobSound(turn[u]) /\ (FrozenBy(turn[u]) => local[turn[u].at] # None)
      BY <1>2, <3>1 DEF RolloutInv, JobsAreSound
    <3>3. turn[u].at \in Instances
      BY <3>1 DEF LoopJob
    <3> QED
      BY <3>1, <3>2, <3>3
  <2> QED
    BY <2>1, <2>2
<1> QED
  BY <1>1, <1>2

LEMMA RolloutSteps ==
  ASSUME NoneIsNoLoopRow PROVE RolloutInv /\ [Offline!Next]_Offline!vars => RolloutInv'
<1> SUFFICES ASSUME RolloutInv, [Offline!Next]_Offline!vars PROVE RolloutInv'
  OBVIOUS
<1> DEFINE rest == <<skill, exper, control, local, disk, lock, stopped, use>>
<1>1. ASSUME NEW t \in Tasks, NEW i \in Instances, NEW c \in Candidates, NEW passed \in BOOLEAN,
             Offline!Propose(t, i, c, passed)
      PROVE  RolloutInv'
  <2> DEFINE row == [status |-> "pending", passed |-> passed]
  <2>1. PICK job : job = [Offline!Job("propose", i, c, "skill") EXCEPT
                            !.s = row, !.e = "pending_review"]
    OBVIOUS
  <2>2. row \in SkillRow /\ Proven(row)
    BY DEF SkillRow, Statuses, Proven
  <2>3. Offline!Turn(t, job) /\ UNCHANGED rest
    BY <1>1, <2>1 DEF Offline!Propose, Offline!rows, Offline!ledger
  <2> HIDE DEF row
  <2>4. job = [op |-> "propose", at |-> i, c |-> c, stage |-> "skill", s |-> row,
               e |-> "pending_review", row |-> None, late |-> FALSE]
    BY <2>1 DEF Offline!Job
  <2>5. job \in LoopJob
    BY <2>2, <2>4 DEF LoopJob, LoopOps, LoopStages, Trials
  <2>6. JobSound(job) /\ ~FrozenBy(job)
    BY <2>2, <2>4 DEF JobSound, FrozenBy, NoneIsNoLoopRow, Trials
  <2> QED
    BY <2>3, <2>5, <2>6, LoopTurns
<1>2. ASSUME NEW t \in Tasks, NEW i \in Instances, NEW c \in Candidates, Offline!Approve(t, i, c)
      PROVE  RolloutInv'
  <2> DEFINE row == [skill[c] EXCEPT !.status = "active"]
  <2>1. PICK job : job = [Offline!Job("approve", i, c, "others") EXCEPT !.s = row, !.e = "running"]
    OBVIOUS
  <2>2. row \in SkillRow /\ Proven(row)
    BY <1>2 DEF Offline!Approve, RolloutInv, RolloutTyped, SkillRow, Statuses, Proven
  <2>3. Offline!Turn(t, job) /\ UNCHANGED rest
    BY <1>2, <2>1 DEF Offline!Approve, Offline!rows, Offline!ledger
  <2> HIDE DEF row
  <2>4. job = [op |-> "approve", at |-> i, c |-> c, stage |-> "others", s |-> row, e |-> "running",
               row |-> None, late |-> FALSE]
    BY <2>1 DEF Offline!Job
  <2>5. job \in LoopJob
    BY <2>2, <2>4 DEF LoopJob, LoopOps, LoopStages, Trials
  <2>6. JobSound(job) /\ ~FrozenBy(job)
    BY <2>2, <2>4 DEF JobSound, FrozenBy, NoneIsNoLoopRow, Trials
  <2> QED
    BY <2>3, <2>5, <2>6, LoopTurns
<1>3. ASSUME NEW t \in Tasks, NEW i \in Instances, NEW c \in Candidates, Offline!Promote(t, i, c)
      PROVE  RolloutInv'
  <2>1. PICK job : job = [Offline!Job("promote", i, c, "grow") EXCEPT !.s = skill[c]]
    OBVIOUS
  <2>2. skill[c] \in SkillRow /\ Proven(skill[c])
    BY DEF RolloutInv, RolloutTyped
  <2>3. Offline!Turn(t, job) /\ UNCHANGED rest
    BY <1>3, <2>1 DEF Offline!Promote, Offline!rows, Offline!ledger
  <2>4. job = [op |-> "promote", at |-> i, c |-> c, stage |-> "grow", s |-> skill[c], e |-> None,
               row |-> None, late |-> FALSE]
    BY <2>1 DEF Offline!Job
  <2>5. job \in LoopJob
    BY <2>2, <2>4 DEF LoopJob, LoopOps, LoopStages
  <2>6. JobSound(job) /\ ~FrozenBy(job)
    BY <2>2, <2>4 DEF JobSound, FrozenBy, NoneIsNoLoopRow, Trials
  <2> QED
    BY <2>3, <2>5, <2>6, LoopTurns
<1>4. ASSUME NEW t \in Tasks, NEW i \in Instances, NEW c \in Candidates, Offline!Monitor(t, i, c)
      PROVE  RolloutInv'
  <2>1. PICK job : job = [Offline!Job("monitor", i, c, "measure") EXCEPT !.e = "running"]
    OBVIOUS
  <2>3. Offline!Turn(t, job) /\ UNCHANGED rest
    BY <1>4, <2>1 DEF Offline!Monitor, Offline!rows, Offline!ledger
  <2>4. job = [op |-> "monitor", at |-> i, c |-> c, stage |-> "measure", s |-> None, e |-> "running",
               row |-> None, late |-> FALSE]
    BY <2>1 DEF Offline!Job
  <2>5. job \in LoopJob
    BY <2>4 DEF LoopJob, LoopOps, LoopStages, Trials
  <2>6. JobSound(job) /\ ~FrozenBy(job)
    BY <2>4 DEF JobSound, FrozenBy, NoneIsNoLoopRow, Trials
  <2> QED
    BY <2>3, <2>5, <2>6, LoopTurns
<1>5. ASSUME NEW t \in Tasks, NEW i \in Instances, NEW c \in Candidates, Offline!Rollback(t, i, c)
      PROVE  RolloutInv'
  <2> DEFINE row == [skill[c] EXCEPT !.status = "rolled_back"]
  <2>1. PICK job : job = [Offline!Job("rollback", i, c, "freeze") EXCEPT
                            !.s = row, !.e = "rolled_back"]
    OBVIOUS
  <2>2. row \in SkillRow /\ Proven(row)
    BY <1>5 DEF RolloutInv, RolloutTyped, SkillRow, Statuses, Proven
  <2>3. Offline!Turn(t, job) /\ UNCHANGED rest
    BY <1>5, <2>1 DEF Offline!Rollback, Offline!rows, Offline!ledger
  <2> HIDE DEF row
  <2>4. job = [op |-> "rollback", at |-> i, c |-> c, stage |-> "freeze", s |-> row,
               e |-> "rolled_back", row |-> None, late |-> FALSE]
    BY <2>1 DEF Offline!Job
  <2>5. job \in LoopJob
    BY <2>2, <2>4 DEF LoopJob, LoopOps, LoopStages, Trials
  <2>6. JobSound(job) /\ ~FrozenBy(job)
    BY <2>2, <2>4 DEF JobSound, FrozenBy, NoneIsNoLoopRow, Trials
  <2> QED
    BY <2>3, <2>5, <2>6, LoopTurns
<1>6. ASSUME NEW t \in Tasks, NEW i \in Instances, Offline!Ask(t, i) PROVE RolloutInv'
  <2> DEFINE late == i \in stopped
  <2>1. PICK job : job = [Offline!Job("ask", i, None, "list") EXCEPT !.row = control, !.late = late]
    OBVIOUS
  <2>3. Offline!Turn(t, job) /\ UNCHANGED rest
    BY <1>6, <2>1 DEF Offline!Ask, Offline!rows, Offline!ledger
  <2>4. job = [op |-> "ask", at |-> i, c |-> None, stage |-> "list", s |-> None, e |-> None,
               row |-> None, late |-> late]
    BY <2>1 DEF Offline!Job, RolloutInv, RolloutTyped
  <2>5. late \in BOOLEAN
    OBVIOUS
  <2> HIDE DEF late
  <2>6. job \in LoopJob
    BY <2>4, <2>5 DEF LoopJob, LoopOps, LoopStages
  <2>7. JobSound(job) /\ ~FrozenBy(job)
    BY <2>4 DEF JobSound, FrozenBy, NoneIsNoLoopRow, Trials
  <2> QED
    BY <2>3, <2>6, <2>7, LoopTurns
<1>7. ASSUME NEW t \in Tasks, Offline!Others(t) PROVE RolloutInv'
  <2>1. turn[t] \in LoopJob /\ turn[t].stage = "others" /\ JobSound(turn[t])
    BY <1>7 DEF Offline!Others, Offline!At, RolloutInv, RolloutTyped, JobsAreSound
  <2>2. UNCHANGED rest
    BY <1>7 DEF Offline!Others, Offline!rows, Offline!ledger
  <2>3. CASE Offline!Turn(t, None)
    BY <2>2, <2>3, LoopTurns
  <2>4. CASE Offline!Go(t, "skill")
    <3>1. PICK job : job = [turn[t] EXCEPT !.stage = "skill"]
      OBVIOUS
    <3>2. Offline!Turn(t, job)
      BY <2>4, <3>1 DEF Offline!Go
    <3>3. /\ job \in LoopJob
          /\ job.op = "approve" /\ job.stage = "skill"
          /\ job.c = turn[t].c /\ job.s = turn[t].s /\ job.e = turn[t].e
      BY <2>1, <3>1 DEF LoopJob, LoopStages, JobSound
    <3>4. JobSound(job) /\ ~FrozenBy(job)
      BY <2>1, <3>3 DEF JobSound, FrozenBy
    <3> QED
      BY <2>2, <3>2, <3>3, <3>4, LoopTurns
  <2> QED
    BY <1>7, <2>3, <2>4 DEF Offline!Others
<1>8. ASSUME NEW t \in Tasks, NEW all \in BOOLEAN, Offline!Grow(t, all) PROVE RolloutInv'
  <2> DEFINE e == IF all THEN "deployed" ELSE exper[turn[t].c]
  <2>1. turn[t] \in LoopJob /\ turn[t].stage = "grow" /\ JobSound(turn[t])
    BY <1>8 DEF Offline!Grow, Offline!At, RolloutInv, RolloutTyped, JobsAreSound
  <2>2. PICK job : job = [turn[t] EXCEPT !.stage = "skill", !.e = e]
    OBVIOUS
  <2>3. Offline!Turn(t, job) /\ UNCHANGED rest
    BY <1>8, <2>2 DEF Offline!Grow, Offline!rows, Offline!ledger
  <2>4. e \in Trials
    BY <2>1 DEF JobSound, RolloutInv, RolloutTyped, Trials
  <2> HIDE DEF e
  <2>5. /\ job \in LoopJob
        /\ job.op = "promote" /\ job.stage = "skill"
        /\ job.c = turn[t].c /\ job.s = turn[t].s /\ job.e = e
    BY <2>1, <2>2, <2>4 DEF LoopJob, LoopStages, JobSound
  <2>6. JobSound(job) /\ ~FrozenBy(job)
    BY <2>1, <2>4, <2>5 DEF JobSound, FrozenBy, NoneIsNoLoopRow
  <2> QED
    BY <2>3, <2>5, <2>6, LoopTurns
<1>9. ASSUME NEW t \in Tasks, NEW turned \in BOOLEAN, Offline!Measure(t, turned) PROVE RolloutInv'
  <2> DEFINE row == [skill[turn[t].c] EXCEPT !.status = "deprecated"]
  <2>1. /\ turn[t] \in LoopJob /\ turn[t].stage = "measure" /\ JobSound(turn[t])
        /\ UNCHANGED rest
    BY <1>9 DEF Offline!Measure, Offline!At, RolloutInv, RolloutTyped, JobsAreSound,
                Offline!rows, Offline!ledger
  <2>2. row \in SkillRow /\ Proven(row)
    BY <2>1 DEF JobSound, RolloutInv, RolloutTyped, SkillRow, Statuses, Proven
  <2>3. CASE turned
    <3>1. PICK job : job = [turn[t] EXCEPT !.stage = "freeze", !.s = row]
      OBVIOUS
    <3>2. Offline!Turn(t, job)
      BY <1>9, <2>3, <3>1 DEF Offline!Measure
    <3> HIDE DEF row
    <3>3. /\ job \in LoopJob
          /\ job.op = "monitor" /\ job.stage = "freeze"
          /\ job.c = turn[t].c /\ job.s = row /\ job.e = turn[t].e
      BY <2>1, <2>2, <3>1 DEF LoopJob, LoopStages, JobSound
    <3>4. JobSound(job) /\ ~FrozenBy(job)
      BY <2>1, <2>2, <3>3 DEF JobSound, FrozenBy, NoneIsNoLoopRow
    <3> QED
      BY <2>1, <3>2, <3>3, <3>4, LoopTurns
  <2>4. CASE ~turned
    <3>1. PICK job : job = [turn[t] EXCEPT !.stage = "experiment"]
      OBVIOUS
    <3>2. Offline!Turn(t, job)
      BY <1>9, <2>4, <3>1 DEF Offline!Measure, Offline!Go
    <3>3. /\ job \in LoopJob
          /\ job.op = "monitor" /\ job.stage = "experiment"
          /\ job.c = turn[t].c /\ job.s = turn[t].s /\ job.e = turn[t].e
      BY <2>1, <3>1 DEF LoopJob, LoopStages, JobSound
    <3>4. JobSound(job) /\ ~FrozenBy(job)
      BY <2>1, <3>3 DEF JobSound, FrozenBy
    <3> QED
      BY <2>1, <3>2, <3>3, <3>4, LoopTurns
  <2> QED
    BY <2>3, <2>4
<1>10. ASSUME NEW t \in Tasks, Offline!WriteSkill(t) PROVE RolloutInv'
  <2>1. /\ turn[t] \in LoopJob /\ turn[t].stage = "skill" /\ JobSound(turn[t])
        /\ FrozenBy(turn[t]) => local[turn[t].at] # None
        /\ UNCHANGED <<exper, control, local, disk, lock, stopped, use>>
    BY <1>10 DEF Offline!WriteSkill, Offline!At, RolloutInv, RolloutTyped, JobsAreSound, Offline!ledger
  <2>2. turn[t].s \in SkillRow /\ Proven(turn[t].s)
    BY <2>1 DEF JobSound, LoopJob
  <2>3. skill' = [skill EXCEPT ![turn[t].c] = turn[t].s]
    BY <1>10 DEF Offline!WriteSkill
  <2>4. skill' \in [Candidates -> SkillRow] /\ \A c \in Candidates : Proven(skill'[c])
    BY <2>2, <2>3 DEF RolloutInv, RolloutTyped
  <2>5. exper' \in [Candidates -> Trials] /\ (use' # None => use'.passed /\ ~use'.stopped)
    BY <2>1 DEF RolloutInv, RolloutTyped, Offline!FreezeHolds, Offline!UsedPassed
  <2>6. CASE turn[t].op = "ask"
    <3>1. Offline!Turn(t, None)
      BY <1>10, <2>6 DEF Offline!WriteSkill
    <3> QED
      BY <2>1, <2>4, <2>5, <3>1, LoopWrites
  <2>7. CASE turn[t].op # "ask"
    <3> DEFINE stage == IF turn[t].op = "monitor" THEN "close" ELSE "experiment"
    <3>1. PICK job : job = [turn[t] EXCEPT !.stage = stage]
      OBVIOUS
    <3>2. Offline!Turn(t, job)
      BY <1>10, <2>7, <3>1 DEF Offline!WriteSkill, Offline!Go, Offline!Confirming
    <3>3. /\ job \in LoopJob
          /\ job.op = turn[t].op /\ job.stage = stage /\ job.at = turn[t].at
          /\ job.c = turn[t].c /\ job.s = turn[t].s /\ job.e = turn[t].e
      BY <2>1, <3>1 DEF LoopJob, LoopStages
    <3>4. JobSound(job) /\ (FrozenBy(job) => local[job.at] # None)
      BY <2>1, <2>7, <3>3 DEF JobSound, FrozenBy
    <3> QED
      BY <2>1, <2>4, <2>5, <3>2, <3>3, <3>4, LoopWrites
  <2> QED
    BY <2>6, <2>7
<1>11. ASSUME NEW t \in Tasks, Offline!WriteExperiment(t) PROVE RolloutInv'
  <2>1. /\ turn[t] \in LoopJob /\ turn[t].stage = "experiment" /\ JobSound(turn[t])
        /\ FrozenBy(turn[t]) => local[turn[t].at] # None
        /\ UNCHANGED <<skill, control, local, disk, lock, stopped, use>>
    BY <1>11 DEF Offline!WriteExperiment, Offline!At, RolloutInv, RolloutTyped, JobsAreSound, Offline!ledger
  <2>2. turn[t].e \in Trials
    BY <2>1 DEF JobSound, LoopJob
  <2>3. exper' = exper \/ exper' = [exper EXCEPT ![turn[t].c] = turn[t].e]
    BY <1>11 DEF Offline!WriteExperiment
  <2>4. exper' \in [Candidates -> Trials]
    BY <2>2, <2>3 DEF RolloutInv, RolloutTyped
  <2>5. /\ skill' \in [Candidates -> SkillRow] /\ \A c \in Candidates : Proven(skill'[c])
        /\ use' # None => use'.passed /\ ~use'.stopped
    BY <2>1 DEF RolloutInv, RolloutTyped, Offline!FreezeHolds, Offline!UsedPassed
  <2>6. CASE turn[t].op # "rollback"
    <3>1. Offline!Turn(t, None)
      BY <1>11, <2>6 DEF Offline!WriteExperiment
    <3> QED
      BY <2>1, <2>4, <2>5, <3>1, LoopWrites
  <2>7. CASE turn[t].op = "rollback"
    <3>1. PICK job : job = [turn[t] EXCEPT !.stage = "close"]
      OBVIOUS
    <3>2. Offline!Turn(t, job)
      BY <1>11, <2>7, <3>1 DEF Offline!WriteExperiment, Offline!Go, Offline!Confirming
    <3>3. /\ job \in LoopJob
          /\ job.op = turn[t].op /\ job.stage = "close" /\ job.at = turn[t].at
          /\ job.c = turn[t].c /\ job.s = turn[t].s /\ job.e = turn[t].e
      BY <2>1, <3>1 DEF LoopJob, LoopStages
    <3>4. JobSound(job) /\ (FrozenBy(job) => local[job.at] # None)
      BY <2>1, <2>7, <3>3 DEF JobSound, FrozenBy
    <3> QED
      BY <2>1, <2>4, <2>5, <3>2, <3>3, <3>4, LoopWrites
  <2> QED
    BY <2>6, <2>7
<1>12. ASSUME NEW t \in Tasks, NEW c \in Candidates, Offline!List(t, c) PROVE RolloutInv'
  <2>1. turn[t] \in LoopJob /\ turn[t].stage = "list" /\ JobSound(turn[t])
    BY <1>12 DEF Offline!List, Offline!At, RolloutInv, RolloutTyped, JobsAreSound
  <2>2. skill[c] \in SkillRow /\ Proven(skill[c]) /\ skill[c].status = "active"
    BY <1>12 DEF Offline!List, RolloutInv, RolloutTyped
  <2>3. PICK job : job = [turn[t] EXCEPT !.stage = "use", !.c = c, !.s = skill[c]]
    OBVIOUS
  <2>4. Offline!Turn(t, job) /\ UNCHANGED rest
    BY <1>12, <2>3 DEF Offline!List, Offline!rows, Offline!ledger
  <2>5. /\ job \in LoopJob
        /\ job.op = "ask" /\ job.stage = "use" /\ job.c = c /\ job.s = skill[c]
    BY <2>1, <2>2, <2>3 DEF LoopJob, LoopStages, JobSound
  <2>6. JobSound(job) /\ ~FrozenBy(job)
    BY <2>2, <2>5 DEF JobSound, FrozenBy, NoneIsNoLoopRow
  <2> QED
    BY <2>4, <2>5, <2>6, LoopTurns
<1>13. ASSUME NEW t \in Tasks, Offline!Use(t) PROVE RolloutInv'
  <2>1. /\ turn[t] \in LoopJob /\ turn[t].stage = "use" /\ JobSound(turn[t])
        /\ turn[t].at \in Instances
    BY <1>13 DEF Offline!Use, Offline!At, RolloutInv, RolloutTyped, JobsAreSound, LoopJob
  <2>2. turn[t].s.passed
    BY <2>1 DEF JobSound, Proven
  <2>3. UNCHANGED <<skill, exper, control, local, disk, lock, stopped>>
    BY <1>13 DEF Offline!Use, Offline!rows, Offline!ledger
  <2>4. CASE Offline!Frozen(turn[t].at)
    <3>1. Offline!Turn(t, None) /\ use' = use
      BY <1>13, <2>4 DEF Offline!Use
    <3> QED
      BY <2>3, <3>1, LoopTurns
  <2>5. CASE ~Offline!Frozen(turn[t].at)
    <3>1. turn[t].at \notin stopped
      BY <2>5 DEF RolloutInv, LedgersHold
    <3>2. use'.passed /\ ~use'.stopped
      <4>1. use' = [passed |-> turn[t].s.passed, stopped |-> turn[t].late /\ turn[t].at \in stopped]
        BY <1>13, <2>5 DEF Offline!Use
      <4>2. use'.passed = turn[t].s.passed
        BY <4>1, Zenon
      <4>3. use'.stopped = (turn[t].late /\ turn[t].at \in stopped)
        BY <4>1, Zenon
      <4> QED
        BY <2>2, <3>1, <4>2, <4>3, Zenon
    <3>3. PICK job : job = [turn[t] EXCEPT !.stage = "skill"]
      OBVIOUS
    <3>4. Offline!Turn(t, job)
      BY <1>13, <2>5, <3>3 DEF Offline!Use, Offline!Go
    <3>5. /\ job \in LoopJob
          /\ job.op = "ask" /\ job.stage = "skill" /\ job.c = turn[t].c /\ job.s = turn[t].s
      BY <2>1, <3>3 DEF LoopJob, LoopStages, JobSound
    <3>6. JobSound(job) /\ ~FrozenBy(job)
      BY <2>1, <3>5 DEF JobSound, FrozenBy
    <3>7. /\ skill' \in [Candidates -> SkillRow] /\ \A c \in Candidates : Proven(skill'[c])
          /\ exper' \in [Candidates -> Trials]
      BY <2>3 DEF RolloutInv, RolloutTyped
    <3> QED
      BY <2>3, <3>2, <3>4, <3>5, <3>6, <3>7, LoopWrites
  <2> QED
    BY <2>4, <2>5
<1>14. ASSUME NEW t \in Tasks, Offline!Stop(t) PROVE RolloutInv'
  <2>1. Offline!Turn(t, None) /\ UNCHANGED rest
    BY <1>14 DEF Offline!Stop, Offline!rows, Offline!ledger
  <2> QED
    BY <2>1, LoopTurns
<1>15. ASSUME NEW t \in Tasks, Offline!Freeze(t) PROVE RolloutInv'
  <2> DEFINE i == turn[t].at
  <2>1. /\ turn[t] \in LoopJob /\ turn[t].stage = "freeze" /\ JobSound(turn[t]) /\ i \in Instances
        /\ UNCHANGED <<skill, exper, control, use>> /\ disk' = local'
        /\ lock' = [lock EXCEPT ![i] = t] /\ stopped' = stopped \cup {i}
    BY <1>15 DEF Offline!Freeze, Offline!At, Offline!Save, RolloutInv, RolloutTyped, JobsAreSound,
                 LoopJob, Offline!rows
  <2>2. Offline!Keep(i, Offline!Row(TRUE, "local_frozen_remote_pending"), t)
    BY <1>15 DEF Offline!Freeze
  <2>3. "local_frozen_remote_pending" \in Verdicts
    BY DEF Verdicts
  <2>4. PICK job : job = [turn[t] EXCEPT !.stage = "skill"]
    OBVIOUS
  <2>5. Offline!Turn(t, job)
    BY <1>15, <2>4 DEF Offline!Freeze, Offline!Go
  <2>6. /\ job \in LoopJob
        /\ job.op = turn[t].op /\ job.stage = "skill" /\ job.at = i
        /\ job.c = turn[t].c /\ job.s = turn[t].s /\ job.e = turn[t].e
    BY <2>1, <2>4 DEF LoopJob, LoopStages
  <2>7. JobSound(job)
    BY <2>1, <2>6 DEF JobSound
  <2> HIDE DEF i
  <2>8. /\ local' \in [Instances -> LedgerRow \cup {None}] /\ local'[i] # None /\ local'[i].frozen
        /\ \A j \in Instances \ {i} : local'[j] = local[j]
    BY <2>1, <2>2, <2>3, LedgerKept
  <2>9. /\ turn' \in [Tasks -> LoopJob \cup {None}]
        /\ \A u \in Tasks : turn'[u] # None =>
             JobSound(turn'[u]) /\ (FrozenBy(turn'[u]) => local'[turn'[u].at] # None)
    BY <2>5, <2>6, <2>7, <2>8, OthersStay
  <2>10. /\ lock' \in [Instances -> Tasks \cup {None}]
         /\ \A j \in Instances : lock'[j] # None => lock[j] # None \/ j = i
         /\ stopped' \in SUBSET Instances
    BY <2>1 DEF RolloutInv, RolloutTyped
  <2> QED
    BY <2>1, <2>8, <2>9, <2>10, LedgerTurns
<1>16. ASSUME NEW t \in Tasks, NEW confirmed \in BOOLEAN, Offline!Ended(t, confirmed),
              turn[t] # None, local[turn[t].at] # None
       PROVE  RolloutInv'
  <2> DEFINE i == turn[t].at
             status == IF confirmed THEN "remote_rollback_confirmed"
                       ELSE "local_baseline_remote_unconfirmed"
             e == IF confirmed THEN "rolled_back" ELSE "local_frozen_remote_unconfirmed"
  <2>1. turn[t] \in LoopJob /\ JobSound(turn[t]) /\ i \in Instances
    BY <1>16 DEF RolloutInv, RolloutTyped, JobsAreSound, LoopJob
  <2>2. /\ UNCHANGED <<skill, exper, control, stopped, use>> /\ disk' = local'
        /\ lock' = [lock EXCEPT ![i] = None]
    BY <1>16 DEF Offline!Ended, Offline!Save, Offline!rows
  <2>3. local[i] \in LedgerRow /\ local[i].frozen \in BOOLEAN
    BY <1>16, <2>1 DEF RolloutInv, RolloutTyped, LedgerRow
  <2>4. /\ local' \in [Instances -> LedgerRow \cup {None}]
        /\ local'[i] # None /\ local'[i].frozen = local[i].frozen
        /\ \A j \in Instances \ {i} : local'[j] = local[j]
    <3>1. CASE local[i].by = t
      <4>1. Offline!Keep(i, Offline!Row(local[i].frozen, status), None)
        BY <1>16, <3>1 DEF Offline!Ended
      <4>2. status \in Verdicts
        BY DEF Verdicts
      <4> QED
        BY <2>1, <2>3, <4>1, <4>2, LedgerKept
    <3>2. CASE local[i].by # t
      BY <1>16, <2>1, <3>2 DEF Offline!Ended, RolloutInv, RolloutTyped
    <3> QED
      BY <3>1, <3>2
  <2>5. PICK job : /\ job \in LoopJob \cup {None} /\ Offline!Turn(t, job)
                   /\ job # None => JobSound(job) /\ ~FrozenBy(job)
    <3>1. CASE turn[t].op = "monitor"
      <4>1. PICK next : next = [turn[t] EXCEPT !.stage = "experiment", !.e = e]
        OBVIOUS
      <4>2. Offline!Turn(t, next)
        BY <1>16, <3>1, <4>1 DEF Offline!Ended
      <4>3. e \in Trials
        BY DEF Trials
      <4> HIDE DEF e
      <4>4. /\ next \in LoopJob
            /\ next.op = "monitor" /\ next.stage = "experiment"
            /\ next.c = turn[t].c /\ next.s = turn[t].s /\ next.e = e
        BY <2>1, <3>1, <4>1, <4>3 DEF LoopJob, LoopStages
      <4>5. JobSound(next) /\ ~FrozenBy(next)
        BY <2>1, <3>1, <4>3, <4>4 DEF JobSound, FrozenBy, NoneIsNoLoopRow
      <4> QED
        BY <4>2, <4>4, <4>5
    <3>2. CASE turn[t].op # "monitor"
      BY <1>16, <3>2 DEF Offline!Ended
    <3> QED
      BY <3>1, <3>2
  <2> HIDE DEF i
  <2>6. /\ turn' \in [Tasks -> LoopJob \cup {None}]
        /\ \A u \in Tasks : turn'[u] # None =>
             JobSound(turn'[u]) /\ (FrozenBy(turn'[u]) => local'[turn'[u].at] # None)
    BY <2>1, <2>4, <2>5, OthersStay
  <2>7. /\ lock' \in [Instances -> Tasks \cup {None}]
        /\ \A j \in Instances : lock'[j] # None => lock[j] # None
        /\ stopped' \in SUBSET Instances
    BY <2>2 DEF RolloutInv, RolloutTyped
  <2>8. i \in stopped' => local'[i] # None /\ local'[i].frozen
    BY <2>2, <2>4 DEF RolloutInv, LedgersHold, Offline!Frozen
  <2> QED
    BY <2>1, <2>2, <2>4, <2>6, <2>7, <2>8, LedgerTurns
<1>17. ASSUME NEW t \in Tasks, Offline!Close(t) PROVE RolloutInv'
  <2>1. /\ turn[t] # None /\ turn[t].stage = "close" /\ Offline!Ended(t, TRUE)
        /\ FrozenBy(turn[t]) => local[turn[t].at] # None
    BY <1>17 DEF Offline!Close, Offline!At, RolloutInv, JobsAreSound
  <2> QED
    BY <1>16, <2>1 DEF FrozenBy
<1>18. ASSUME NEW t \in Tasks, Offline!Fail(t) PROVE RolloutInv'
  <2>1. /\ turn[t] # None /\ turn[t] \in LoopJob /\ lock[turn[t].at] = t
        /\ Offline!Ended(t, FALSE)
    BY <1>18 DEF Offline!Fail, RolloutInv, RolloutTyped
  <2>2. turn[t].at \in Instances /\ t # None
    BY <2>1 DEF LoopJob, NoneIsNoLoopRow
  <2>3. local[turn[t].at] # None
    BY <2>1, <2>2 DEF RolloutInv, LedgersHold
  <2> QED
    BY <1>16, <2>1, <2>3
<1>19. ASSUME NEW i \in Instances, Offline!Resume(i) PROVE RolloutInv'
  <2>1. /\ UNCHANGED <<skill, exper, control, use, lock, turn>> /\ disk' = local'
        /\ stopped' = stopped \ {i} /\ local[i] # None
    BY <1>19 DEF Offline!Resume, Offline!Save, Offline!rows
  <2>2. local[i] \in LedgerRow /\ local[i].status \in Verdicts
    BY <2>1 DEF RolloutInv, RolloutTyped, LedgerRow
  <2>3. Offline!Keep(i, Offline!Row(FALSE, local[i].status), None)
    BY <1>19 DEF Offline!Resume
  <2>4. /\ local' \in [Instances -> LedgerRow \cup {None}] /\ local'[i] # None
        /\ \A j \in Instances \ {i} : local'[j] = local[j]
    BY <2>2, <2>3, LedgerKept
  <2>5. /\ turn' \in [Tasks -> LoopJob \cup {None}]
        /\ lock' \in [Instances -> Tasks \cup {None}]
        /\ stopped' \in SUBSET Instances
    BY <2>1 DEF RolloutInv, RolloutTyped
  <2>6. ASSUME NEW u \in Tasks, turn'[u] # None
        PROVE  JobSound(turn'[u]) /\ (FrozenBy(turn'[u]) => local'[turn'[u].at] # None)
    <3>1. /\ turn'[u] = turn[u] /\ turn[u] \in LoopJob /\ JobSound(turn[u])
          /\ FrozenBy(turn[u]) => local[turn[u].at] # None
      BY <2>1, <2>6 DEF RolloutInv, RolloutTyped, JobsAreSound
    <3>2. turn[u].at \in Instances
      BY <3>1 DEF LoopJob
    <3> QED
      BY <2>4, <3>1, <3>2
  <2> QED
    BY <2>1, <2>4, <2>5, <2>6, LedgerTurns
<1>20. ASSUME NEW i \in Instances, Offline!Restart(i) PROVE RolloutInv'
  <2>1. disk = local /\ local \in [Instances -> LedgerRow \cup {None}]
    BY DEF RolloutInv, RolloutTyped, LedgersHold
  <2>2. local' = local /\ disk' = local /\ UNCHANGED <<control, stopped, use>>
    BY <1>20, <2>1 DEF Offline!Restart
  <2>3. skill' = Offline!NoSkills /\ exper' = Offline!NoExperiments
    BY <1>20 DEF Offline!Restart
  <2>4. /\ skill' \in [Candidates -> SkillRow] /\ \A c \in Candidates : Proven(skill'[c])
        /\ exper' \in [Candidates -> Trials]
    BY <2>3 DEF Offline!NoSkills, Offline!NoExperiments, SkillRow, Statuses, Trials, Proven
  <2>5. /\ lock' = [lock EXCEPT ![i] = None]
        /\ turn' = [t \in Tasks |-> IF turn[t] # None /\ turn[t].at = i THEN None ELSE turn[t]]
    BY <1>20 DEF Offline!Restart
  <2>6. RolloutTyped'
    BY <2>2, <2>4, <2>5 DEF RolloutInv, RolloutTyped
  <2>7. JobsAreSound'
    <3>1. ASSUME NEW u \in Tasks, turn'[u] # None
          PROVE  JobSound(turn'[u]) /\ (FrozenBy(turn'[u]) => local'[turn'[u].at] # None)
      BY <2>2, <2>5, <3>1 DEF RolloutInv, JobsAreSound
    <3> QED
      BY <3>1 DEF JobsAreSound, JobSound, FrozenBy
  <2>8. LedgersHold'
    BY <2>1, <2>2, <2>5 DEF RolloutInv, RolloutTyped, LedgersHold, Offline!Frozen
  <2> QED
    BY <2>2, <2>4, <2>6, <2>7, <2>8 DEF RolloutInv, Proven, Offline!FreezeHolds, Offline!UsedPassed
<1>21. ASSUME NEW t \in Tasks
       PROVE  /\ ~Offline!Share(t) /\ ~Offline!Confirm(t) /\ ~Offline!Unfreeze(t)
              /\ ~Offline!WriteControl(t) /\ ~Offline!Refresh(t) /\ ~Offline!Unreadable(t)
              /\ \A i \in Instances : ~Offline!ResumeShared(t, i)
  <2>1. turn[t] # None => turn[t].stage \in LoopStages
    BY DEF RolloutInv, RolloutTyped, LoopJob
  <2> QED
    BY <2>1 DEF LoopStages, Offline!At, Offline!Share, Offline!Confirm, Offline!Unfreeze,
         Offline!WriteControl, Offline!Refresh, Offline!Unreadable, Offline!ResumeShared
<1>22. CASE UNCHANGED Offline!vars
  <2>1. UNCHANGED <<skill, exper, control, local, disk, lock, turn, stopped, use>>
    BY <1>22 DEF Offline!vars
  <2> QED
    BY <2>1 DEF RolloutInv, RolloutTyped, JobsAreSound, LedgersHold, Proven, JobSound, FrozenBy,
         Offline!Frozen, Offline!FreezeHolds, Offline!UsedPassed
<1> QED
  BY <1>1, <1>2, <1>3, <1>4, <1>5, <1>6, <1>7, <1>8, <1>9, <1>10, <1>11, <1>12, <1>13, <1>14,
     <1>15, <1>17, <1>18, <1>19, <1>20, <1>21, <1>22 DEF Offline!Next

(* No request that comes after a rollback froze its instance uses a          *)
(* candidate there before the family is resumed, and none ever uses one      *)
(* that did not pass its replay, with any number of candidates, tasks and    *)
(* instances that keep their own ledger: jinshu/operations.py writes the     *)
(* file whenever the record in memory changes, jinshu/loop.py reads a row    *)
(* before the freeze and writes it after.                                   *)
THEOREM FrozenStaysUnused ==
  ASSUME NoneIsNoLoopRow PROVE Offline!Spec => []FreezeHolds
<1>1. Offline!Init => RolloutInv
  BY DEF Offline!Init, Offline!NoSkills, Offline!NoExperiments, RolloutInv, RolloutTyped, JobsAreSound,
         LedgersHold, SkillRow, Statuses, Trials, Proven, Offline!FreezeHolds, Offline!UsedPassed
<1>2. RolloutInv => FreezeHolds
  BY DEF RolloutInv, FreezeHolds
<1> QED
  BY <1>1, <1>2, RolloutSteps, PTL DEF Offline!Spec
-----------------------------------------------------------------------------
(* The orchestration of one question (Orchestrator).                        *)
Draft == [at : {"generate", "verify", "failed"}, draft : Nat, attempt : Nat]
Answer == [content : Nat, passed : BOOLEAN]
Question == [named : SUBSET Departments, words : SUBSET Departments, calls : SUBSET Departments,
             route : SUBSET Departments, hooked : BOOLEAN, depts : SUBSET Agents!Names]

NoneIsNoAnswer == None \notin Draft /\ None \notin Answer

Asking == {"idle", "hooks", "intent", "resolve", "resolved", "gather", "local", "fallback",
           "merge", "done", "error"}
CallStates == {"none", "sent", "answered", "failed"}

AgentsTyped ==
  /\ asking \in Asking
  /\ hooks \in BOOLEAN
  /\ agent \in [Agents!Workers -> Draft \cup {None}]
  /\ verdict \in [Agents!Workers -> SUBSET Nat]
  /\ says \in [Agents!Workers -> Answer \cup {None}]
  /\ call \in [Agents!Names -> CallStates]

\* What was said is sound, whoever said it and whenever it was merged.
SpeechSound ==
  /\ \A w \in Agents!Workers : says[w] # None => Agents!Sound(w, says[w])
  /\ \A d \in Agents!Names : call[d] = "answered" => d \in Departments /\ says[d] # None

\* The question goes on from one stage to the next as it was admitted, and a
\* call is made for each department it was routed to and no other.
RouteSound ==
  /\ asking \in {"hooks", "intent", "resolve", "resolved"} =>
       /\ question \in Question
       /\ Agents!Due(question) # {} => question.route = Agents!Due(question)
  /\ asking = "resolved" => asked = Agents!Resolved(question)
  /\ asking \in {"gather", "fallback", "merge"} =>
       /\ asked \subseteq Agents!Names
       /\ \A d \in Agents!Names : call[d] # "none" <=> d \in asked
  /\ asking \in {"fallback", "merge"} => Agents!Calls("sent") = {}

MergedSound ==
  merged # None =>
    /\ asking \in {"done", "error"}
    /\ \A d \in DOMAIN merged.parts : d \in Departments /\ Agents!Sound(d, merged.parts[d])
    /\ DOMAIN merged.parts \cup merged.degraded \cup merged.failed = asked
    /\ DOMAIN merged.parts \cap (merged.degraded \cup merged.failed) = {}
    /\ merged.degraded \cap merged.failed = {}

AgentsInv == AgentsTyped /\ SpeechSound /\ RouteSound /\ MergedSound

\* What was sound stays so when its verifier passes more.
LEMMA SoundStays ==
  ASSUME AgentsInv, merged' = merged, asking' = asking \/ asking' = "error", asked' = asked,
         \A v \in Agents!Workers : verdict[v] \subseteq verdict'[v]
  PROVE  MergedSound'
<1> SUFFICES ASSUME merged # None PROVE MergedSound'
  BY DEF MergedSound
<1>1. \A d \in DOMAIN merged.parts : d \in Departments /\ Agents!Sound(d, merged.parts[d])'
  BY DEF AgentsInv, MergedSound, Agents!Sound, Agents!Workers
<1> QED
  BY <1>1 DEF AgentsInv, MergedSound

\* A step of one worker: it starts, goes on with its job, or ends it saying
\* something sound, and no call is answered.
WorkerMoves(w, next) ==
  /\ agent' = [agent EXCEPT ![w] = next]
  /\ verdict' \in [Agents!Workers -> SUBSET Nat]
  /\ \A v \in Agents!Workers : verdict[v] \subseteq verdict'[v]
  /\ asking' = asking \/ asking' = "error"
  /\ UNCHANGED <<question, hooks, asked, merged>>

LEMMA WorkerGoes ==
  ASSUME NoneIsNoAnswer, AgentsInv, NEW w \in Agents!Workers, NEW next \in Draft \cup {None},
         WorkerMoves(w, next),
         \/ says' = says
         \/ \E answer \in Answer : says' = [says EXCEPT ![w] = answer] /\ Agents!Sound(w, answer)',
         \/ call' = call
         \/ \E d \in Agents!Names : call[d] = "sent" /\ call' = [call EXCEPT ![d] = "failed"]
  PROVE  AgentsInv'
<1> DEFINE spoken == /\ says' \in [Agents!Workers -> Answer \cup {None}]
                     /\ \A v \in Agents!Workers : says'[v] # None => Agents!Sound(v, says[v])'
                     /\ \A v \in Agents!Workers : says[v] # None => says'[v] # None
<1>1. spoken
  <2>1. CASE says' = says
    BY <2>1 DEF AgentsInv, AgentsTyped, SpeechSound, Agents!Sound, WorkerMoves
  <2>2. ASSUME NEW answer \in Answer, says' = [says EXCEPT ![w] = answer], Agents!Sound(w, answer)'
        PROVE  spoken
    <3>1. /\ says' \in [Agents!Workers -> Answer \cup {None}]
          /\ says'[w] = answer /\ answer # None
          /\ \A v \in Agents!Workers \ {w} : says'[v] = says[v]
      BY <2>2 DEF AgentsInv, AgentsTyped, NoneIsNoAnswer
    <3>2. \A v \in Agents!Workers \ {w} : says'[v] # None => Agents!Sound(v, says[v])'
      BY <3>1 DEF AgentsInv, SpeechSound, Agents!Sound, WorkerMoves
    <3>3. Agents!Sound(w, says[w])'
      BY <2>2, <3>1 DEF Agents!Sound
    <3> QED
      BY <3>1, <3>2, <3>3
  <2> QED
    BY <2>1, <2>2
<1>2. AgentsTyped'
  <2>1. call' \in [Agents!Names -> CallStates]
    BY DEF AgentsInv, AgentsTyped, CallStates
  <2>2. agent' \in [Agents!Workers -> Draft \cup {None}]
    BY DEF AgentsInv, AgentsTyped, WorkerMoves
  <2> QED
    BY <1>1, <2>1, <2>2 DEF AgentsInv, AgentsTyped, WorkerMoves, Asking
<1>3. \A d \in Agents!Names :
        /\ call'[d] # "none" <=> call[d] # "none"
        /\ call'[d] \in {"sent", "answered"} => call'[d] = call[d]
  BY DEF AgentsInv, AgentsTyped, CallStates
<1>4. SpeechSound'
  BY <1>1, <1>3 DEF AgentsInv, SpeechSound, Agents!Workers
<1>5. RouteSound'
  <2>1. Agents!Calls("sent")' \subseteq Agents!Calls("sent")
    BY <1>3 DEF Agents!Calls
  <2>2. CASE asking' = asking
    BY <1>3, <2>1, <2>2 DEF AgentsInv, RouteSound, WorkerMoves, Agents!Due, Agents!Resolved
  <2>3. CASE asking' = "error"
    BY <2>3 DEF RouteSound
  <2> QED
    BY <2>2, <2>3 DEF WorkerMoves
<1>6. MergedSound'
  BY SoundStays DEF WorkerMoves
<1> QED
  BY <1>2, <1>4, <1>5, <1>6 DEF AgentsInv

LEMMA ACallIsAnswered ==
  ASSUME NoneIsNoAnswer, AgentsInv, NEW d \in Departments, Agents!Return(d)
  PROVE  AgentsInv'
<1>1. /\ call' \in [Agents!Names -> CallStates]
      /\ call[d] = "sent" /\ call'[d] = "answered" /\ says[d] # None
      /\ \A e \in Agents!Names \ {d} : call'[e] = call[e]
  BY DEF AgentsInv, AgentsTyped, CallStates, Agents!Return, Agents!Names
<1>2. AgentsTyped'
  BY <1>1 DEF AgentsInv, AgentsTyped, Agents!Return, Agents!hub
<1>3. SpeechSound'
  BY <1>1 DEF AgentsInv, SpeechSound, Agents!Sound, Agents!Return, Agents!hub
<1>4. RouteSound'
  <2>1. asking \notin {"fallback", "merge"}
    BY <1>1 DEF AgentsInv, RouteSound, Agents!Calls, Agents!Names
  <2> QED
    BY <1>1, <2>1 DEF AgentsInv, RouteSound, Agents!Return, Agents!hub, Agents!Due, Agents!Resolved
<1>5. MergedSound'
  BY SoundStays DEF Agents!Return, Agents!hub
<1> QED
  BY <1>2, <1>3, <1>4, <1>5 DEF AgentsInv

LEMMA ACallIsGivenUp ==
  ASSUME NoneIsNoAnswer, AgentsInv, NEW d \in Agents!Names, Agents!GiveUp(d)
  PROVE  AgentsInv'
<1>1. /\ call' \in [Agents!Names -> CallStates]
      /\ call[d] = "sent" /\ call'[d] = "failed"
      /\ \A e \in Agents!Names \ {d} : call'[e] = call[e]
  BY DEF AgentsInv, AgentsTyped, CallStates, Agents!GiveUp
<1>2. AgentsTyped'
  BY <1>1 DEF AgentsInv, AgentsTyped, Agents!GiveUp, Agents!hub
<1>3. SpeechSound'
  BY <1>1 DEF AgentsInv, SpeechSound, Agents!Sound, Agents!GiveUp, Agents!hub
<1>4. RouteSound'
  <2>1. asking \notin {"fallback", "merge"}
    BY <1>1 DEF AgentsInv, RouteSound, Agents!Calls
  <2> QED
    BY <1>1, <2>1 DEF AgentsInv, RouteSound, Agents!GiveUp, Agents!hub, Agents!Due, Agents!Resolved
<1>5. MergedSound'
  BY SoundStays DEF Agents!GiveUp, Agents!hub
<1> QED
  BY <1>2, <1>3, <1>4, <1>5 DEF AgentsInv

\* What the hub does to the question leaves what the workers said.
LEMMA HubGoes ==
  ASSUME NoneIsNoAnswer, AgentsInv, AgentsTyped', RouteSound',
         UNCHANGED <<verdict, says, merged>>,
         \A d \in Agents!Names : call'[d] = "answered" => call[d] = "answered",
         merged # None => asking' \in {"done", "error"} /\ asked' = asked
  PROVE  AgentsInv'
<1>1. SpeechSound'
  BY DEF AgentsInv, SpeechSound, Agents!Sound
<1>2. MergedSound'
  BY DEF AgentsInv, MergedSound, Agents!Sound
<1> QED
  BY <1>1, <1>2 DEF AgentsInv

\* The question is routed.
LEMMA RoutingSteps ==
  ASSUME NoneIsNoAnswer, AgentsInv,
         \/ \E named, words, calls, found \in SUBSET Departments :
              Agents!Admit(named, words, calls, found)
         \/ \E said \in SUBSET Agents!Names : Agents!Infer(said)
         \/ Agents!ApproveHook \/ Agents!LoadHooks \/ Agents!Resolve
  PROVE  AgentsInv'
<1>1. ASSUME NEW named \in SUBSET Departments, NEW words \in SUBSET Departments,
             NEW calls \in SUBSET Departments, NEW found \in SUBSET Departments,
             Agents!Admit(named, words, calls, found)
      PROVE  AgentsInv'
  <2>1. /\ question' \in Question
        /\ Agents!Due(question') # {} => question'.route = Agents!Due(question')
    BY <1>1 DEF Agents!Admit, Agents!Routed, Question, Agents!Due
  <2>2. Agents!Due(question)' = Agents!Due(question')
    BY DEF Agents!Due
  <2>3. AgentsTyped'
    BY <1>1 DEF Agents!Admit, AgentsInv, AgentsTyped, Asking
  <2>4. RouteSound'
    BY <1>1, <2>1, <2>2 DEF Agents!Admit, RouteSound
  <2> QED
    BY <1>1, <2>3, <2>4, HubGoes DEF Agents!Admit, AgentsInv, MergedSound
<1>2. ASSUME NEW said \in SUBSET Agents!Names, Agents!Infer(said) PROVE AgentsInv'
  <2>1. question \in Question /\ Agents!Inferred(said) \in SUBSET Agents!Names
    BY <1>2 DEF Agents!Infer, AgentsInv, RouteSound, Agents!Inferred, Agents!Names
  <2>2. PICK next : next = [question EXCEPT !.depts = Agents!Inferred(said)]
    OBVIOUS
  <2>3. /\ next \in Question
        /\ next.named = question.named /\ next.words = question.words
        /\ next.route = question.route
    BY <2>1, <2>2 DEF Question
  <2>4. question' = next
    BY <1>2, <2>2 DEF Agents!Infer
  <2>5. AgentsTyped'
    BY <1>2 DEF Agents!Infer, AgentsInv, AgentsTyped, Asking
  <2>6. RouteSound'
    BY <1>2, <2>3, <2>4 DEF Agents!Infer, AgentsInv, RouteSound, Agents!Due
  <2> QED
    BY <1>2, <2>5, <2>6, HubGoes DEF Agents!Infer, AgentsInv, MergedSound
<1>3. CASE Agents!ApproveHook
  <2>1. AgentsTyped'
    BY <1>3 DEF Agents!ApproveHook, AgentsInv, AgentsTyped
  <2>2. RouteSound'
    BY <1>3 DEF Agents!ApproveHook, AgentsInv, RouteSound, Agents!Due, Agents!Calls
  <2> QED
    BY <1>3, <2>1, <2>2, HubGoes DEF Agents!ApproveHook, AgentsInv, MergedSound
<1>4. CASE Agents!LoadHooks
  <2>1. question \in Question /\ hooks \in BOOLEAN
    BY <1>4 DEF Agents!LoadHooks, AgentsInv, RouteSound, AgentsTyped
  <2>2. PICK next : next = [question EXCEPT !.hooked = hooks]
    OBVIOUS
  <2>3. /\ next \in Question
        /\ next.named = question.named /\ next.words = question.words
        /\ next.route = question.route
    BY <2>1, <2>2 DEF Question
  <2>4. question' = next
    BY <1>4, <2>2 DEF Agents!LoadHooks
  <2>5. AgentsTyped'
    BY <1>4 DEF Agents!LoadHooks, AgentsInv, AgentsTyped, Asking
  <2>6. RouteSound'
    BY <1>4, <2>3, <2>4 DEF Agents!LoadHooks, AgentsInv, RouteSound, Agents!Due
  <2> QED
    BY <1>4, <2>5, <2>6, HubGoes DEF Agents!LoadHooks, AgentsInv, MergedSound
<1>5. CASE Agents!Resolve
  <2>1. AgentsTyped'
    BY <1>5 DEF Agents!Resolve, AgentsInv, AgentsTyped, Asking
  <2>2. RouteSound'
    BY <1>5 DEF Agents!Resolve, AgentsInv, RouteSound, Agents!Due, Agents!Resolved
  <2> QED
    BY <1>5, <2>1, <2>2, HubGoes DEF Agents!Resolve, AgentsInv, MergedSound
<1> QED
  BY <1>1, <1>2, <1>3, <1>4, <1>5

\* The hub asks, or answers by itself, and gathers the answers.
LEMMA GatheringSteps ==
  ASSUME NoneIsNoAnswer, AgentsInv,
         \/ Agents!FanOut \/ Agents!AnswerLocally \/ Agents!Gather \/ Agents!FailFallback
         \/ Agents!Finish
  PROVE  AgentsInv'
<1>1. Hub \in Agents!Workers /\ Agents!Begun \in Draft
  BY DEF Agents!Workers, Agents!Begun, Draft
<1>2. CASE Agents!FanOut
  <2>1. /\ call' \in [Agents!Names -> CallStates]
        /\ \A d \in Agents!Names : (call'[d] # "none" <=> d \in asked) /\ call'[d] # "answered"
    BY <1>2 DEF Agents!FanOut, CallStates
  <2>2. asked \subseteq Agents!Names
    <3>1. question \in Question /\ asked = Agents!Resolved(question)
      BY <1>2 DEF Agents!FanOut, AgentsInv, RouteSound
    <3> QED
      BY <3>1 DEF Agents!Resolved, Question, Agents!Names
  <2>3. AgentsTyped'
    BY <1>2, <2>1 DEF Agents!FanOut, AgentsInv, AgentsTyped, Asking
  <2>4. RouteSound'
    BY <1>2, <2>1, <2>2 DEF Agents!FanOut, RouteSound
  <2> QED
    BY <1>2, <2>1, <2>3, <2>4, HubGoes DEF Agents!FanOut, AgentsInv, MergedSound
<1>3. CASE Agents!AnswerLocally
  <2>1. AgentsTyped'
    BY <1>1, <1>3 DEF Agents!AnswerLocally, AgentsInv, AgentsTyped, Asking
  <2>2. RouteSound'
    BY <1>3 DEF Agents!AnswerLocally, RouteSound
  <2> QED
    BY <1>3, <2>1, <2>2, HubGoes DEF Agents!AnswerLocally, AgentsInv, MergedSound
<1>4. CASE Agents!Gather
  <2>1. asking' \in {"local", "fallback", "merge"} /\ (agent' = agent \/ agent' = [agent EXCEPT ![Hub] = Agents!Begun])
    BY <1>4 DEF Agents!Gather
  <2>2. AgentsTyped'
    BY <1>1, <1>4, <2>1 DEF Agents!Gather, AgentsInv, AgentsTyped, Asking
  <2>3. RouteSound'
    BY <1>4, <2>1 DEF Agents!Gather, AgentsInv, RouteSound, Agents!Calls
  <2> QED
    BY <1>4, <2>2, <2>3, HubGoes DEF Agents!Gather, AgentsInv, MergedSound
<1>5. CASE Agents!FailFallback \/ Agents!Finish
  <2>1. AgentsTyped'
    BY <1>5 DEF Agents!FailFallback, Agents!Finish, AgentsInv, AgentsTyped, Asking
  <2>2. RouteSound'
    BY <1>5 DEF Agents!FailFallback, Agents!Finish, RouteSound
  <2> QED
    BY <1>5, <2>1, <2>2, HubGoes DEF Agents!FailFallback, Agents!Finish, AgentsInv, MergedSound
<1> QED
  BY <1>2, <1>3, <1>4, <1>5

LEMMA MergingSteps ==
  ASSUME NoneIsNoAnswer, AgentsInv, NEW generated \in BOOLEAN, Agents!Merge(generated)
  PROVE  AgentsInv'
<1>1. Agents!Calls("answered") \subseteq Departments /\ asked \subseteq Agents!Names
  BY DEF Agents!Merge, AgentsInv, SpeechSound, RouteSound, Agents!Calls
<1>2. \A d \in Agents!Calls("answered") : Agents!Sound(d, says[d])
  BY <1>1 DEF AgentsInv, SpeechSound, Agents!Calls, Agents!Workers
<1>3. asked = Agents!Calls("answered") \cup Agents!Calls("failed")
  BY <1>1 DEF Agents!Merge, AgentsInv, AgentsTyped, CallStates, RouteSound, Agents!Calls
<1>4. Agents!Calls("answered") \cap Agents!Calls("failed") = {}
  BY DEF Agents!Calls
<1>5. /\ merged'.parts = [d \in Agents!Calls("answered") |-> says[d]]
      /\ merged'.degraded \cup merged'.failed = Agents!Calls("failed")
      /\ merged'.degraded \cap merged'.failed = {}
      /\ asking' = "done"
      /\ UNCHANGED <<question, hooks, asked, agent, verdict, says, call>>
  BY DEF Agents!Merge, Agents!Degraded
<1>6. AgentsTyped' /\ RouteSound'
  BY <1>5 DEF AgentsInv, AgentsTyped, Asking, RouteSound
<1>7. SpeechSound'
  BY <1>5 DEF AgentsInv, SpeechSound, Agents!Sound
<1>8. MergedSound'
  <2>1. \A d \in DOMAIN merged'.parts : d \in Departments /\ Agents!Sound(d, merged.parts[d])'
    BY <1>1, <1>2, <1>5 DEF Agents!Sound
  <2> QED
    BY <1>3, <1>4, <1>5, <2>1 DEF MergedSound
<1> QED
  BY <1>6, <1>7, <1>8 DEF AgentsInv

\* A worker takes up its question, generates and verifies.
LEMMA WorkingSteps ==
  ASSUME NoneIsNoAnswer, AgentsInv, NEW w \in Agents!Workers,
         \/ w \in Departments /\ Agents!Receive(w)
         \/ Agents!Generate(w) \/ Agents!Pass(w) \/ Agents!FailVerification(w) \/ Agents!Fail(w)
  PROVE  AgentsInv'
<1>1. agent \in [Agents!Workers -> Draft \cup {None}]
  BY DEF AgentsInv, AgentsTyped
<1>2. \A stage : Agents!At(w, stage) => agent[w] \in Draft
  BY <1>1 DEF Agents!At
<1>3. \A stage \in {"generate", "verify", "failed"} : agent[w] # None =>
        \E next \in Draft : next = [agent[w] EXCEPT !.at = stage]
  BY <1>1 DEF Draft
<1>4. CASE w \in Departments /\ Agents!Receive(w)
  <2>1. Agents!Begun \in Draft
    BY DEF Agents!Begun, Draft
  <2>2. WorkerMoves(w, Agents!Begun)
    BY <1>4 DEF Agents!Receive, Agents!hub, WorkerMoves, AgentsInv, AgentsTyped
  <2> QED
    BY <1>4, <2>1, <2>2, WorkerGoes DEF Agents!Receive, Agents!hub
<1>5. CASE Agents!Generate(w)
  <2>1. PICK next \in Draft : next = [agent[w] EXCEPT !.at = "verify"]
    BY <1>3, <1>5 DEF Agents!Generate, Agents!At
  <2>2. WorkerMoves(w, next)
    BY <1>5, <2>1 DEF Agents!Generate, Agents!hub, WorkerMoves, AgentsInv, AgentsTyped
  <2> QED
    BY <1>5, <2>1, <2>2, WorkerGoes DEF Agents!Generate, Agents!hub
<1>6. CASE Agents!Pass(w)
  <2>1. PICK answer : answer = [content |-> agent[w].draft, passed |-> TRUE]
    OBVIOUS
  <2>2. answer \in Answer /\ answer.passed = TRUE /\ answer.content = agent[w].draft /\ agent[w].draft \in Nat
    BY <1>2, <1>6, <2>1 DEF Agents!Pass, Draft, Answer
  <2>3. verdict' = [verdict EXCEPT ![w] = @ \cup {agent[w].draft}]
    BY <1>6 DEF Agents!Pass
  <2>4. WorkerMoves(w, None)
    BY <1>6, <2>2, <2>3 DEF Agents!Pass, Agents!Answered, Agents!hub, WorkerMoves, AgentsInv, AgentsTyped
  <2>5. says' = [says EXCEPT ![w] = answer] /\ call' = call
    BY <1>6, <2>1 DEF Agents!Pass, Agents!Answered
  <2>6. Agents!Sound(w, answer)'
    BY <2>2, <2>3 DEF Agents!Sound, AgentsInv, AgentsTyped
  <2> QED
    BY <2>2, <2>4, <2>5, <2>6, WorkerGoes
<1>7. CASE Agents!FailVerification(w)
  <2>1. CASE agent[w].attempt = MAX_VERIFY_RETRY
    <3>1. PICK answer : answer = [content |-> Agents!Refusal, passed |-> FALSE]
      OBVIOUS
    <3>2. answer \in Answer /\ ~answer.passed /\ answer.content = Agents!Refusal
      BY <3>1 DEF Answer, Agents!Refusal
    <3>3. WorkerMoves(w, None)
      BY <1>7, <2>1 DEF Agents!FailVerification, Agents!Answered, Agents!hub, WorkerMoves, AgentsInv, AgentsTyped
    <3>4. says' = [says EXCEPT ![w] = answer] /\ call' = call
      BY <1>7, <2>1, <3>1 DEF Agents!FailVerification, Agents!Answered
    <3>5. Agents!Sound(w, answer)'
      BY <3>2 DEF Agents!Sound, Agents!Refusal
    <3> QED
      BY <3>2, <3>3, <3>4, <3>5, WorkerGoes
  <2>2. CASE agent[w].attempt # MAX_VERIFY_RETRY
    <3>1. PICK next : next = [at |-> "generate", draft |-> agent[w].draft + 1,
                              attempt |-> agent[w].attempt + 1]
      OBVIOUS
    <3>2. next \in Draft
      BY <1>2, <1>7, <3>1 DEF Agents!FailVerification, Draft
    <3>3. WorkerMoves(w, next)
      BY <1>7, <2>2, <3>1 DEF Agents!FailVerification, Agents!hub, WorkerMoves, AgentsInv, AgentsTyped
    <3> QED
      BY <1>7, <2>2, <3>2, <3>3, WorkerGoes DEF Agents!FailVerification
  <2> QED
    BY <2>1, <2>2
<1>8. CASE Agents!Fail(w)
  <2>1. PICK next \in Draft : next = [agent[w] EXCEPT !.at = "failed"]
    BY <1>3, <1>8 DEF Agents!Fail
  <2>2. WorkerMoves(w, next)
    BY <1>8, <2>1 DEF Agents!Fail, WorkerMoves, AgentsInv, AgentsTyped
  <2>3. \/ call' = call
        \/ \E d \in Agents!Names : call[d] = "sent" /\ call' = [call EXCEPT ![d] = "failed"]
    <3>1. CASE w = Hub
      BY <1>8, <3>1 DEF Agents!Fail
    <3>2. CASE w # Hub
      <4>1. w \in Agents!Names
        BY <3>2 DEF Agents!Workers, Agents!Names
      <4>2. CASE call[w] = "sent"
        BY <1>8, <3>2, <4>1, <4>2 DEF Agents!Fail
      <4>3. CASE call[w] # "sent"
        BY <1>8, <3>2, <4>1, <4>3 DEF Agents!Fail, AgentsInv, AgentsTyped
      <4> QED
        BY <4>2, <4>3
    <3> QED
      BY <3>1, <3>2
  <2> QED
    BY <1>8, <2>1, <2>2, <2>3, WorkerGoes DEF Agents!Fail
<1> QED
  BY <1>4, <1>5, <1>6, <1>7, <1>8

LEMMA AgentsSteps ==
  ASSUME NoneIsNoAnswer PROVE AgentsInv /\ [Agents!Next]_Agents!vars => AgentsInv'
<1> SUFFICES ASSUME AgentsInv, [Agents!Next]_Agents!vars PROVE AgentsInv'
  OBVIOUS
<1>1. CASE Agents!Next
  <2>1. CASE \E generated \in BOOLEAN : Agents!Merge(generated)
    BY <2>1, MergingSteps
  <2>2. ASSUME NEW d \in Departments, Agents!Receive(d) \/ Agents!Return(d) PROVE AgentsInv'
    BY <2>2, WorkingSteps, ACallIsAnswered DEF Agents!Workers
  <2>3. CASE \E d \in Agents!Names : Agents!GiveUp(d)
    BY <2>3, ACallIsGivenUp
  <2>4. CASE \E w \in Agents!Workers :
               Agents!Generate(w) \/ Agents!Pass(w) \/ Agents!FailVerification(w) \/ Agents!Fail(w)
    BY <2>4, WorkingSteps
  <2>5. CASE \/ Agents!FanOut \/ Agents!AnswerLocally \/ Agents!Gather \/ Agents!FailFallback
             \/ Agents!Finish
    BY <2>5, GatheringSteps
  <2>6. CASE \/ \E named, words, calls, found \in SUBSET Departments :
                  Agents!Admit(named, words, calls, found)
             \/ \E said \in SUBSET Agents!Names : Agents!Infer(said)
             \/ Agents!ApproveHook \/ Agents!LoadHooks \/ Agents!Resolve
    BY <2>6, RoutingSteps
  <2> QED
    BY <1>1, <2>1, <2>2, <2>3, <2>4, <2>5, <2>6 DEF Agents!Next
<1>2. CASE UNCHANGED Agents!vars
  BY <1>2 DEF Agents!vars, Agents!hub, AgentsInv, AgentsTyped, SpeechSound, RouteSound, MergedSound,
              Agents!Sound, Agents!Due, Agents!Resolved, Agents!Calls
<1> QED
  BY <1>1, <1>2

(* Whatever agents fail, answer late or are given up on, for any number of  *)
(* departments: what is answered was passed by a verifier or is the refusal, *)
(* the departments due are asked and no other than a hook calls, and the     *)
(* merged answer accounts for each that was asked, once (orchestrator.py,     *)
(* dept_agent_client.py).                                                    *)
THEOREM AskedAreAccounted ==
  ASSUME NoneIsNoAnswer PROVE Agents!Spec => []AnswersAreVerified
<1>1. Agents!Init => AgentsInv
  BY DEF Agents!Init, AgentsInv, AgentsTyped, Asking, CallStates, SpeechSound, RouteSound, MergedSound
<1>2. AgentsInv => AnswersAreVerified
  <2> SUFFICES ASSUME AgentsInv PROVE AnswersAreVerified
    OBVIOUS
  <2>1. \A w \in Agents!Workers : says[w] # None => Agents!Sound(w, says[w])
    BY DEF AgentsInv, SpeechSound
  <2>2. ASSUME asking = "resolved", Agents!Due(question) # {}
        PROVE  /\ Agents!Due(question) \subseteq asked
               /\ asked \subseteq Agents!Due(question) \cup question.calls
               /\ ~question.hooked => asked = Agents!Due(question)
    BY <2>2 DEF AgentsInv, RouteSound, Agents!Resolved
  <2> QED
    BY <2>1, <2>2 DEF AnswersAreVerified, Agents!AnswersAreVerified, AgentsInv, MergedSound
<1> QED
  BY <1>1, <1>2, AgentsSteps, PTL DEF Agents!Spec
-----------------------------------------------------------------------------
(* The loop that learns strategies (EngineLoop).                            *)
StrategyRow == [status : {"pending", "active", "stale", "deprecated"}, version : Nat,
                replaces : Strategies \cup {None}, sure : BOOLEAN, by : Strategies \cup {None}]
Snapshot == [Strategies -> StrategyRow \cup {None}]
Listed == {"maintain", "deploy", "replace", "deprecate"}
Adapted == Listed \cup {"watch", "take", "note", "consume"}
Named == {RuleOf[f] : f \in Feedbacks}
CycleJob ==
  [at : {"adapt", "register", "experiment", "mined", "suggest"} \cup Adapted,
   seen : SUBSET Feedbacks, left : SUBSET (Named \cup Strategies),
   doc : Strategies \cup {None}, row : Snapshot \cup {None} \cup StrategyRow]
HeldRow == [doc : Strategies, row : StrategyRow]

NoneIsNoStrategy ==
  None \notin Strategies /\ None \notin StrategyRow /\ None \notin CycleJob /\ None \notin HeldRow

Launched(s) == strategy[s] # None /\ strategy[s].status # "pending"
Fit(row) == row.by # None => Launched(row.by)
Texts == {r.of : r \in rules}
Known(f) == Loop!Learned(f, Texts)
Told(f) == f \in handled /\ (f \in Telling => Known(f))

\* What a cycle holds may be written back at any time: its rows name as a
\* successor only what is in force, and but for a new one none is pending.
Writes(job) ==
  /\ job.at \in {"register", "experiment", "take"} =>
       job.doc # None /\ job.row \in StrategyRow /\ Fit(job.row)
  /\ job.at = "take" => job.row.status # "pending"
  /\ job.at \in Listed =>
       /\ job.row \in Snapshot /\ job.left \subseteq Strategies
       /\ \A s \in Strategies : job.row[s] # None => Fit(job.row[s]) /\ strategy[s] # None
       /\ \A s \in job.left : job.row[s] # None
  /\ job.at = "replace" => job.doc # None /\ job.row[job.doc] # None /\ Launched(job.doc)
  /\ job.at = "deprecate" =>
       job.doc # None /\ job.row[job.doc] # None /\ job.row[job.doc].status # "pending"
  /\ job.at \in {"watch", "take", "note"} =>
       job.left \subseteq Strategies /\ \A s \in job.left : strategy[s] # None
  /\ job.at # "register" /\ job.doc # None => strategy[job.doc] # None

Adapts(job) ==
  /\ job.at = "suggest" =>
       \A f \in job.seen \cap Telling : Loop!Learned(f, Texts \cup job.left)
  /\ job.at \in Adapted => \A f \in job.seen : Told(f)

\* What is about to be registered is new, and no other cycle's.
Reserved ==
  \A t \in Tasks : cycle[t] # None /\ cycle[t].at = "register" =>
    /\ strategy[cycle[t].doc] = None
    /\ \A u \in Tasks \ {t} : cycle[u] # None /\ cycle[u].at = "register" =>
         cycle[u].doc # cycle[t].doc

LoopTyped ==
  /\ phase \in {"in", "on", "out"}
  /\ strategy \in Snapshot
  /\ trial \in [Strategies -> {"none", "pending_review", "running", "rolled_back"}]
  /\ feedback \in [Feedbacks -> {"none", "pending", "consumed"}]
  /\ cycle \in [Tasks -> CycleJob \cup {None}]
  /\ holder \in [Approvals -> HeldRow \cup {None}]

RowsFit ==
  /\ \A s \in Strategies : strategy[s] # None => Fit(strategy[s])
  /\ \A s \in Strategies : trial[s] = "running" => strategy[s] # None
  /\ \A r \in Approvals : holder[r] # None =>
       /\ strategy[holder[r].doc] # None
       /\ Fit(holder[r].row) /\ holder[r].row.status # "pending"

LoopInv ==
  /\ LoopTyped
  /\ RowsFit
  /\ \A t \in Tasks : cycle[t] # None => Writes(cycle[t]) /\ Adapts(cycle[t])
  /\ Reserved
  /\ \A f \in Feedbacks : feedback[f] = "consumed" => Told(f)

\* Strategies stay and do not become pending again; what was adapted to stays so.
Onward ==
  /\ \A s \in Strategies : strategy[s] # None => strategy'[s] # None
  /\ \A s \in Strategies : Launched(s) => Launched(s)'
  /\ handled \subseteq handled'
  /\ Texts \subseteq Texts'

\* With more texts there a rule stays learned.
LEMMA LearnedGrows ==
  \A f, S, T : S \subseteq T /\ Loop!Learned(f, S) => Loop!Learned(f, T)
BY DEF Loop!Learned

LEMMA ToldStays ==
  ASSUME handled \subseteq handled', Texts \subseteq Texts', NEW f \in Feedbacks, Told(f)
  PROVE  Told(f)'
<1>1. Known(f) => Known(f)'
  BY LearnedGrows DEF Known
<1> QED
  BY <1>1 DEF Told

LEMMA FitStays ==
  ASSUME NoneIsNoStrategy, Onward, NEW row \in StrategyRow, Fit(row) PROVE Fit(row)'
BY DEF Onward, Fit, StrategyRow

LEMMA JobStaysSound ==
  ASSUME NoneIsNoStrategy, Onward, NEW job \in CycleJob, Writes(job), Adapts(job)
  PROVE  Writes(job)' /\ Adapts(job)'
<1>1. job.doc \in Strategies \cup {None} /\ job.seen \in SUBSET Feedbacks
  BY DEF CycleJob
<1>2. job.at \in Listed => \A s \in Strategies : job.row[s] # None => Fit(job.row[s])'
  <2> SUFFICES ASSUME job.at \in Listed, NEW s \in Strategies, job.row[s] # None
               PROVE  Fit(job.row[s])'
    OBVIOUS
  <2>1. job.row[s] \in StrategyRow /\ Fit(job.row[s])
    BY DEF Writes, Snapshot
  <2> QED
    BY <2>1, FitStays
<1>3. job.at \in {"register", "experiment", "take"} => Fit(job.row)'
  BY FitStays DEF Writes
<1>4. Writes(job)'
  BY <1>1, <1>2, <1>3 DEF Writes, Onward
<1>5. Adapts(job)'
  <2>1. \A f \in job.seen \cap Telling : Loop!Learned(f, Texts \cup job.left) =>
          Loop!Learned(f, Texts \cup job.left)'
    BY LearnedGrows DEF Onward
  <2>2. \A f \in job.seen : Told(f) => Told(f)'
    BY <1>1, ToldStays DEF Onward
  <2> QED
    BY <2>1, <2>2 DEF Adapts
<1> QED
  BY <1>4, <1>5

\* A turn of one cycle: it goes on with what is sound, or ends.  What it
\* registers was reserved for it, and what it reserves is new.
Carries(t, next) ==
  /\ cycle' = [cycle EXCEPT ![t] = next]
  /\ next # None => Writes(next)' /\ Adapts(next)'
  /\ next # None /\ next.at = "register" =>
       /\ strategy'[next.doc] = None
       /\ \A u \in Tasks \ {t} : cycle[u] # None => cycle[u].doc # next.doc
  /\ \A s \in Strategies : strategy[s] = None /\ strategy'[s] # None =>
       cycle[t] # None /\ cycle[t].at = "register" /\ cycle[t].doc = s
  /\ UNCHANGED <<phase, holder>>

LEMMA CycleGoes ==
  ASSUME NoneIsNoStrategy, LoopInv, Onward, NEW t \in Tasks, NEW next \in CycleJob \cup {None},
         Carries(t, next),
         strategy' \in Snapshot, \A s \in Strategies : strategy'[s] # None => Fit(strategy[s])',
         trial' \in [Strategies -> {"none", "pending_review", "running", "rolled_back"}],
         \A s \in Strategies : trial'[s] = "running" => strategy'[s] # None,
         feedback' \in [Feedbacks -> {"none", "pending", "consumed"}],
         \A f \in Feedbacks : feedback'[f] = "consumed" => Told(f)'
  PROVE  LoopInv'
<1>1. /\ cycle \in [Tasks -> CycleJob \cup {None}]
      /\ cycle' \in [Tasks -> CycleJob \cup {None}]
      /\ cycle'[t] = next
      /\ \A u \in Tasks \ {t} : cycle'[u] = cycle[u]
  BY DEF LoopInv, LoopTyped, Carries
<1>2. LoopTyped'
  BY <1>1 DEF LoopInv, LoopTyped, Carries
<1>3. RowsFit'
  <2> SUFFICES ASSUME NEW r \in Approvals, holder[r] # None
               PROVE  /\ strategy'[holder[r].doc] # None
                      /\ Fit(holder[r].row)' /\ holder[r].row.status # "pending"
    <3>1. holder' = holder
      BY DEF Carries
    <3> QED
      BY <3>1 DEF RowsFit
  <2>1. holder[r].doc \in Strategies /\ holder[r].row \in StrategyRow
    BY DEF LoopInv, LoopTyped, HeldRow
  <2>2. strategy[holder[r].doc] # None /\ Fit(holder[r].row) /\ holder[r].row.status # "pending"
    BY DEF LoopInv, RowsFit
  <2>3. PICK row \in StrategyRow : row = holder[r].row
    BY <2>1
  <2>4. Fit(row)'
    BY <2>2, <2>3, FitStays
  <2>5. holder' = holder
    BY DEF Carries
  <2> QED
    BY <2>1, <2>2, <2>3, <2>4, <2>5 DEF Onward
<1>4. \A u \in Tasks : cycle'[u] # None => Writes(cycle[u])' /\ Adapts(cycle[u])'
  <2> SUFFICES ASSUME NEW u \in Tasks, cycle'[u] # None
               PROVE  Writes(cycle[u])' /\ Adapts(cycle[u])'
    OBVIOUS
  <2>1. PICK job \in CycleJob : job = cycle'[u]
    BY <1>1
  <2>2. Writes(job)' /\ Adapts(job)'
    <3>1. CASE u = t
      BY <1>1, <2>1, <3>1 DEF Carries
    <3>2. CASE u # t
      <4>1. job = cycle[u] /\ cycle[u] # None
        BY <1>1, <2>1, <3>2
      <4>2. Writes(job) /\ Adapts(job)
        BY <4>1 DEF LoopInv
      <4> QED
        BY <4>2, JobStaysSound
    <3> QED
      BY <3>1, <3>2
  <2> QED
    BY <2>1, <2>2
<1>5. Reserved'
  <2>1. ASSUME NEW u \in Tasks, cycle'[u] # None, cycle'[u].at = "register"
        PROVE  strategy'[cycle'[u].doc] = None
    <3>1. CASE u = t
      BY <1>1, <2>1, <3>1 DEF Carries
    <3>2. CASE u # t
      <4>1. cycle'[u] = cycle[u] /\ strategy[cycle[u].doc] = None
        BY <1>1, <2>1, <3>2 DEF LoopInv, Reserved
      <4>2. cycle[u].doc \in Strategies
        BY <1>1, <2>1, <4>1 DEF CycleJob, LoopInv, Writes
      <4>3. cycle[t] # None /\ cycle[t].at = "register" => cycle[t].doc # cycle[u].doc
        BY <2>1, <3>2, <4>1 DEF LoopInv, Reserved
      <4> QED
        BY <4>1, <4>2, <4>3 DEF Carries
    <3> QED
      BY <3>1, <3>2
  <2>2. ASSUME NEW u \in Tasks, NEW v \in Tasks \ {u}, cycle'[u] # None, cycle'[u].at = "register",
               cycle'[v] # None, cycle'[v].at = "register"
        PROVE  cycle'[v].doc # cycle'[u].doc
    <3>1. CASE u = t
      BY <1>1, <2>2, <3>1 DEF Carries
    <3>2. CASE v = t
      BY <1>1, <2>2, <3>2 DEF Carries
    <3>3. CASE u # t /\ v # t
      BY <1>1, <2>2, <3>3 DEF LoopInv, Reserved
    <3> QED
      BY <3>1, <3>2, <3>3
  <2> QED
    BY <2>1, <2>2 DEF Reserved
<1> QED
  BY <1>2, <1>3, <1>4, <1>5 DEF LoopInv

\* A turn that leaves the strategies alone.
LEMMA CycleTurns ==
  ASSUME NoneIsNoStrategy, LoopInv, NEW t \in Tasks, NEW next \in CycleJob \cup {None},
         cycle' = [cycle EXCEPT ![t] = next], UNCHANGED <<phase, strategy, holder>>,
         handled \subseteq handled', Texts \subseteq Texts',
         next # None => Writes(next)' /\ Adapts(next)',
         next # None /\ next.at = "register" =>
           /\ strategy[next.doc] = None
           /\ \A u \in Tasks \ {t} : cycle[u] # None => cycle[u].doc # next.doc,
         trial' \in [Strategies -> {"none", "pending_review", "running", "rolled_back"}],
         \A s \in Strategies : trial'[s] = "running" => strategy[s] # None,
         feedback' \in [Feedbacks -> {"none", "pending", "consumed"}],
         \A f \in Feedbacks : feedback'[f] = "consumed" => Told(f)'
  PROVE  LoopInv'
<1>1. Onward
  BY DEF Onward, Launched
<1>2. Carries(t, next)
  BY DEF Carries
<1>3. strategy' \in Snapshot /\ \A s \in Strategies : strategy'[s] # None => Fit(strategy[s])'
  BY DEF LoopInv, LoopTyped, RowsFit, Fit, Launched
<1> QED
  BY <1>1, <1>2, <1>3, CycleGoes

\* A row that may be written keeps the strategies sound.
LEMMA RowIsPut ==
  ASSUME NoneIsNoStrategy, LoopInv, NEW s \in Strategies, NEW row \in StrategyRow, Fit(row),
         strategy[s] # None => row.status # "pending",
         strategy' = [strategy EXCEPT ![s] = row], UNCHANGED <<handled, rules>>
  PROVE  /\ Onward
         /\ strategy' \in Snapshot
         /\ strategy'[s] # None
         /\ \A x \in Strategies \ {s} : strategy'[x] = strategy[x]
         /\ \A x \in Strategies : strategy'[x] # None => Fit(strategy[x])'
         /\ \A x \in Strategies : trial[x] = "running" => strategy'[x] # None
<1>1. /\ strategy' \in Snapshot
      /\ strategy'[s] = row /\ row # None
      /\ \A x \in Strategies \ {s} : strategy'[x] = strategy[x]
  BY DEF LoopInv, LoopTyped, Snapshot, NoneIsNoStrategy
<1>2. Onward
  BY <1>1 DEF Onward, Launched, Texts
<1>3. Fit(row)'
  BY <1>2, FitStays
<1>4. \A x \in Strategies : strategy'[x] # None => Fit(strategy[x])'
  <2> SUFFICES ASSUME NEW x \in Strategies, strategy'[x] # None PROVE Fit(strategy[x])'
    OBVIOUS
  <2>1. CASE x = s
    BY <1>1, <1>3, <2>1 DEF Fit
  <2>2. CASE x # s
    <3>1. strategy'[x] = strategy[x] /\ strategy[x] \in StrategyRow /\ Fit(strategy[x])
      BY <1>1, <2>2 DEF LoopInv, LoopTyped, Snapshot, RowsFit
    <3>2. PICK old \in StrategyRow : old = strategy[x] /\ Fit(old)
      BY <3>1
    <3>3. Fit(old)'
      BY <1>2, <3>2, FitStays
    <3> QED
      BY <3>1, <3>2, <3>3 DEF Fit
  <2> QED
    BY <2>1, <2>2
<1> QED
  BY <1>1, <1>2, <1>4 DEF LoopInv, RowsFit

\* A turn that writes a row back.
LEMMA CyclePuts ==
  ASSUME NoneIsNoStrategy, LoopInv, NEW t \in Tasks, NEW next \in CycleJob, next.at # "register",
         NEW s \in Strategies, NEW row \in StrategyRow, Fit(row),
         \/ strategy[s] # None /\ row.status # "pending"
         \/ cycle[t] # None /\ cycle[t].at = "register" /\ cycle[t].doc = s,
         strategy' = [strategy EXCEPT ![s] = row], cycle' = [cycle EXCEPT ![t] = next],
         UNCHANGED <<phase, trial, worse, feedback, rules, handled, holder>>,
         Writes(next)', Adapts(next)'
  PROVE  LoopInv'
<1>1. strategy[s] # None => row.status # "pending"
  BY DEF LoopInv, Reserved
<1>2. /\ Onward
      /\ strategy' \in Snapshot
      /\ strategy'[s] # None
      /\ \A x \in Strategies \ {s} : strategy'[x] = strategy[x]
      /\ \A x \in Strategies : strategy'[x] # None => Fit(strategy[x])'
      /\ \A x \in Strategies : trial[x] = "running" => strategy'[x] # None
  BY <1>1, RowIsPut
<1>3. Carries(t, next)
  BY <1>2 DEF Carries
<1>4. \A f \in Feedbacks : feedback'[f] = "consumed" => Told(f)'
  BY DEF LoopInv, Told, Known, Texts
<1>5. /\ trial' \in [Strategies -> {"none", "pending_review", "running", "rolled_back"}]
      /\ \A x \in Strategies : trial'[x] = "running" => strategy'[x] # None
      /\ feedback' \in [Feedbacks -> {"none", "pending", "consumed"}]
  BY <1>2 DEF LoopInv, LoopTyped
<1> QED
  BY <1>2, <1>3, <1>4, <1>5, CycleGoes

\* A turn in which the cycle only goes on, or ends.
LEMMA CycleRests ==
  ASSUME NoneIsNoStrategy, LoopInv, NEW t \in Tasks, NEW next \in CycleJob \cup {None},
         cycle' = [cycle EXCEPT ![t] = next], UNCHANGED <<Loop!given, strategy, holder>>,
         next # None => Writes(next) /\ Adapts(next) /\ next.at # "register",
         trial' \in [Strategies -> {"none", "pending_review", "running", "rolled_back"}],
         \A s \in Strategies : trial'[s] = "running" => strategy[s] # None
  PROVE  LoopInv'
<1>1. UNCHANGED <<phase, feedback, rules, handled>>
  BY DEF Loop!given
<1>2. Onward
  BY <1>1 DEF Onward, Launched, Texts
<1>3. next # None => Writes(next)' /\ Adapts(next)'
  BY <1>2, JobStaysSound
<1>4. /\ feedback' \in [Feedbacks -> {"none", "pending", "consumed"}]
      /\ \A f \in Feedbacks : feedback'[f] = "consumed" => Told(f)'
  BY <1>1 DEF LoopInv, LoopTyped, Told, Known, Texts
<1>5. handled \subseteq handled' /\ Texts \subseteq Texts'
  BY <1>1 DEF Texts
<1> QED
  BY <1>1, <1>3, <1>4, <1>5, CycleTurns

\* What a cycle under way holds.
LEMMA JobOf ==
  ASSUME NoneIsNoStrategy, LoopInv, NEW t \in Tasks, cycle[t] # None
  PROVE  cycle[t] \in CycleJob /\ Writes(cycle[t]) /\ Adapts(cycle[t])
BY DEF LoopInv, LoopTyped

\* The trials as they are.
LEMMA TrialsHold ==
  ASSUME LoopInv
  PROVE  /\ trial \in [Strategies -> {"none", "pending_review", "running", "rolled_back"}]
         /\ \A s \in Strategies : trial[s] = "running" => strategy[s] # None
BY DEF LoopInv, LoopTyped, RowsFit

LEMMA MiningTurns ==
  ASSUME NoneIsNoStrategy, LoopInv, NEW t \in Tasks,
         \/ Loop!Observe(t) \/ Loop!StartExperiment(t) \/ Loop!Mine(t) \/ Loop!End(t)
  PROVE  LoopInv'
<1>1. CASE Loop!Observe(t)
  <2>1. PICK next : next = [at |-> "adapt", seen |-> {f \in Feedbacks : feedback[f] = "pending"},
                            left |-> {}, doc |-> None, row |-> None]
    OBVIOUS
  <2>2. next \in CycleJob
    BY <2>1 DEF CycleJob
  <2>3. Writes(next) /\ Adapts(next) /\ next.at # "register"
    BY <2>1 DEF Writes, Adapts, Listed, Adapted
  <2> QED
    BY <1>1, <2>1, <2>2, <2>3, CycleRests, TrialsHold DEF Loop!Observe, Loop!Turn
<1>2. CASE Loop!End(t)
  BY <1>2, CycleRests, TrialsHold DEF Loop!End, Loop!Turn
<1>3. CASE Loop!StartExperiment(t)
  <2>1. PICK job \in CycleJob : job = cycle[t] /\ Writes(job) /\ Adapts(job) /\ job.at = "experiment"
    BY <1>3, JobOf DEF Loop!StartExperiment, Loop!At
  <2>3. PICK next : next = [job EXCEPT !.at = "mined", !.doc = None, !.row = None]
    OBVIOUS
  <2>5. next \in CycleJob /\ next.at = "mined" /\ next.doc = None
    BY <2>1, <2>3 DEF CycleJob
  <2>6. Writes(next) /\ Adapts(next)
    BY <2>5 DEF Writes, Adapts, Listed, Adapted
  <2>7. job.doc \in Strategies /\ strategy[job.doc] # None
    BY <2>1 DEF Writes, CycleJob
  <2>8. /\ trial' \in [Strategies -> {"none", "pending_review", "running", "rolled_back"}]
        /\ \A s \in Strategies : trial'[s] = "running" => strategy[s] # None
    BY <1>3, <2>1, <2>7, TrialsHold DEF Loop!StartExperiment
  <2> QED
    BY <1>3, <2>1, <2>3, <2>5, <2>6, <2>8, CycleRests DEF Loop!StartExperiment, Loop!Go, Loop!Turn
<1>4. CASE Loop!Mine(t)
  <2>1. PICK job \in CycleJob : job = cycle[t]
    BY <1>4, JobOf DEF Loop!Mine
  <2>2. PICK some \in Loop!Suggestions({RuleOf[f] : f \in job.seen \cap Telling}) :
          cycle' = [cycle EXCEPT ![t] =
            [job EXCEPT !.at = "suggest", !.doc = None, !.row = None, !.left = some]]
    BY <1>4, <2>1 DEF Loop!Mine, Loop!Turn
  <2>3. PICK next : next = [job EXCEPT !.at = "suggest", !.doc = None, !.row = None, !.left = some]
    OBVIOUS
  <2>4. /\ some \subseteq {RuleOf[f] : f \in job.seen \cap Telling}
        /\ \A f \in job.seen \cap Telling : Loop!Learned(f, some)
    BY DEF Loop!Suggestions, Loop!Learned
  <2>5. next \in CycleJob /\ next.at = "suggest" /\ next.doc = None /\ next.left = some
        /\ next.seen = job.seen
    <3>1. job.seen \subseteq Feedbacks
      BY DEF CycleJob
    <3>2. some \in SUBSET (Named \cup Strategies)
      BY <2>4, <3>1 DEF Named
    <3> QED
      BY <2>1, <2>3, <3>2 DEF CycleJob
  <2>6. Writes(next)
    BY <2>5 DEF Writes, Listed
  <2>7. Adapts(next)
    BY <2>4, <2>5, LearnedGrows DEF Adapts, Listed, Adapted
  <2> QED
    BY <1>4, <2>2, <2>3, <2>5, <2>6, <2>7, CycleRests, TrialsHold DEF Loop!Mine
<1> QED
  BY <1>1, <1>2, <1>3, <1>4

\* A candidate is drafted and registered.
LEMMA CandidateTurns ==
  ASSUME NoneIsNoStrategy, LoopInv, NEW t \in Tasks
  PROVE  /\ \A s \in Strategies, passed, sure \in BOOLEAN, score \in Loop!Scores :
              Loop!Draft(t, s, passed, score, sure) => LoopInv'
         /\ Loop!Register(t) => LoopInv'
<1>1. ASSUME NEW s \in Strategies, NEW passed \in BOOLEAN, NEW sure \in BOOLEAN,
             NEW score \in Loop!Scores, Loop!Draft(t, s, passed, score, sure)
      PROVE  LoopInv'
  <2>1. PICK job \in CycleJob : job = cycle[t] /\ job.at = "adapt"
    BY <1>1, JobOf DEF Loop!Draft, Loop!At
  <2>2. PICK old \in Strategies \cup {None} :
          /\ old # None => strategy[old] # None
          /\ cycle' = [cycle EXCEPT ![t] = [job EXCEPT !.at = "register", !.doc = s,
                         !.row = Loop!Candidate(old, Loop!Released(passed, score), sure)]]
    <3>1. Loop!Latest \subseteq Loop!Mined \cup {None}
      BY DEF Loop!Latest
    <3>2. \A old \in Loop!Mined : old \in Strategies /\ strategy[old] # None
      BY DEF Loop!Mined
    <3>3. PICK old \in Loop!Latest :
            Loop!Turn(t, [cycle[t] EXCEPT !.at = "register", !.doc = s,
                            !.row = Loop!Candidate(old, Loop!Released(passed, score), sure)])
      BY <1>1, Zenon DEF Loop!Draft
    <3>4. cycle' = [cycle EXCEPT ![t] = [job EXCEPT !.at = "register", !.doc = s,
                      !.row = Loop!Candidate(old, Loop!Released(passed, score), sure)]]
      BY <2>1, <3>3, Zenon DEF Loop!Turn
    <3> QED
      BY <3>1, <3>2, <3>4, Zenon
  <2>3. PICK row : row = Loop!Candidate(old, Loop!Released(passed, score), sure)
    OBVIOUS
  <2>4. row \in StrategyRow /\ row.by = None
    <3>1. old # None => strategy[old].version \in Nat
      BY <2>2 DEF LoopInv, LoopTyped, Snapshot, StrategyRow
    <3> QED
      BY <2>3, <3>1 DEF StrategyRow, Loop!Candidate, Loop!Released
  <2>5. PICK next : next = [job EXCEPT !.at = "register", !.doc = s, !.row = row]
    OBVIOUS
  <2>6. next \in CycleJob /\ next.at = "register" /\ next.doc = s /\ next.row = row
    BY <2>1, <2>4, <2>5 DEF CycleJob
  <2>7. Writes(next) /\ Adapts(next)
    BY <2>4, <2>6 DEF Writes, Adapts, Listed, Adapted, Fit, NoneIsNoStrategy
  <2>8. /\ UNCHANGED <<phase, strategy, trial, feedback, rules, handled, holder>>
        /\ strategy[s] = None
        /\ \A u \in Tasks : cycle[u] # None => cycle[u].doc # s
    BY <1>1 DEF Loop!Draft, Loop!given, Loop!Mined
  <2>9. Writes(next)' /\ Adapts(next)'
    <3>1. Onward
      BY <2>8 DEF Onward, Launched, Texts
    <3> QED
      BY <2>6, <2>7, <3>1, JobStaysSound
  <2>10. /\ handled \subseteq handled' /\ Texts \subseteq Texts'
         /\ trial' \in [Strategies -> {"none", "pending_review", "running", "rolled_back"}]
         /\ \A x \in Strategies : trial'[x] = "running" => strategy[x] # None
         /\ feedback' \in [Feedbacks -> {"none", "pending", "consumed"}]
         /\ \A f \in Feedbacks : feedback'[f] = "consumed" => Told(f)'
    BY <2>8, TrialsHold DEF LoopInv, LoopTyped, Told, Known, Texts
  <2>11. cycle' = [cycle EXCEPT ![t] = next]
    BY <2>2, <2>3, <2>5
  <2> QED
    BY <2>6, <2>8, <2>9, <2>10, <2>11, CycleTurns
<1>2. CASE Loop!Register(t)
  <2>1. PICK job \in CycleJob :
          job = cycle[t] /\ job # None /\ job.at = "register" /\ Writes(job) /\ Adapts(job)
    BY <1>2, JobOf DEF Loop!Register, Loop!At
  <2>2. job.doc \in Strategies /\ job.row \in StrategyRow /\ Fit(job.row)
    BY <2>1 DEF Writes, CycleJob
  <2>3. PICK next : next = [job EXCEPT !.at = "experiment"]
    OBVIOUS
  <2>4. next \in CycleJob /\ next.at = "experiment" /\ next.doc = job.doc /\ next.row = job.row
    BY <2>1, <2>3 DEF CycleJob
  <2>5. PICK row \in StrategyRow : row = job.row
    BY <2>2
  <2>6. PICK s \in Strategies : s = job.doc
    BY <2>2
  <2>7. /\ strategy' = [strategy EXCEPT ![s] = row]
        /\ cycle' = [cycle EXCEPT ![t] = next]
        /\ UNCHANGED <<phase, trial, worse, feedback, rules, handled, holder>>
    BY <1>2, <2>1, <2>3, <2>5, <2>6 DEF Loop!Register, Loop!Put, Loop!Turn, Loop!given
  <2>8. strategy[s] # None => row.status # "pending"
    BY <2>1, <2>6 DEF LoopInv, Reserved
  <2>9. Onward /\ strategy'[s] # None
    BY <2>2, <2>5, <2>7, <2>8, RowIsPut
  <2>10. Fit(row)'
    BY <2>2, <2>5, <2>9, FitStays
  <2>11. Writes(next)' /\ Adapts(next)'
    BY <2>4, <2>5, <2>6, <2>9, <2>10 DEF Writes, Adapts, Listed, Adapted, NoneIsNoStrategy
  <2> QED
    BY <2>1, <2>2, <2>4, <2>5, <2>6, <2>7, <2>11, CyclePuts
<1> QED
  BY <1>1, <1>2

\* The rules are suggested, and the feedback that names them was adapted to.
LEMMA SuggestingTurns ==
  ASSUME NoneIsNoStrategy, LoopInv, NEW t \in Tasks
  PROVE  /\ \A f \in Feedbacks : Loop!Suggest(t, f) => LoopInv'
         /\ Loop!ListActive(t) => LoopInv'
<1>1. ASSUME NEW f \in Feedbacks, Loop!Suggest(t, f) PROVE LoopInv'
  <2>1. PICK job \in CycleJob :
          job = cycle[t] /\ job.at = "suggest" /\ Writes(job) /\ Adapts(job)
    BY <1>1, JobOf DEF Loop!Suggest, Loop!At
  <2>2. PICK next : next = [job EXCEPT !.left = job.left \ {RuleOf[f]}]
    OBVIOUS
  <2>3. /\ next \in CycleJob /\ next.at = "suggest" /\ next.doc = job.doc
        /\ next.seen = job.seen /\ next.left = job.left \ {RuleOf[f]}
    BY <2>1, <2>2 DEF CycleJob
  <2>4. /\ UNCHANGED <<phase, strategy, trial, feedback, handled, holder>>
        /\ cycle' = [cycle EXCEPT ![t] = next]
    BY <1>1, <2>1, <2>2 DEF Loop!Suggest, Loop!Turn
  <2>5. Texts' = Texts \cup {RuleOf[f]}
    <3>1. PICK status : rules' = rules \cup {Loop!Rule(f, status)}
      BY <1>1, Zenon DEF Loop!Suggest
    <3>2. PICK new : new = Loop!Rule(f, status)
      OBVIOUS
    <3>3. new.of = RuleOf[f] /\ rules' = rules \cup {new}
      BY <3>1, <3>2 DEF Loop!Rule
    <3> QED
      BY <3>3 DEF Texts
  <2>6. Writes(next)'
    BY <2>1, <2>3, <2>4 DEF Writes, Listed
  <2>7. Adapts(next)'
    <3>1. Texts \cup job.left \subseteq Texts' \cup next.left
      BY <2>3, <2>5
    <3>2. \A g \in job.seen \cap Telling : Loop!Learned(g, Texts \cup job.left)
      BY <2>1 DEF Adapts
    <3>3. \A g \in next.seen \cap Telling : Loop!Learned(g, Texts \cup next.left)'
      BY <2>3, <3>1, <3>2, LearnedGrows
    <3> QED
      BY <2>3, <3>3 DEF Adapts, Adapted, Listed
  <2>8. /\ feedback' \in [Feedbacks -> {"none", "pending", "consumed"}]
        /\ \A g \in Feedbacks : feedback'[g] = "consumed" => Told(g)'
    BY <2>4, <2>5, ToldStays DEF LoopInv, LoopTyped
  <2> QED
    BY <2>3, <2>4, <2>5, <2>6, <2>7, <2>8, CycleTurns, TrialsHold
<1>2. CASE Loop!ListActive(t)
  <2>1. PICK job \in CycleJob :
          job = cycle[t] /\ job.at = "suggest" /\ job.left = {} /\ Writes(job) /\ Adapts(job)
    BY <1>2, JobOf DEF Loop!ListActive, Loop!At
  <2>2. PICK next : next = [job EXCEPT !.at = "maintain", !.left = Loop!With("active"), !.row = strategy]
    OBVIOUS
  <2>3. strategy \in Snapshot /\ \A s \in Strategies : strategy[s] # None => Fit(strategy[s])
    BY DEF LoopInv, LoopTyped, RowsFit
  <2>4. Loop!With("active") \subseteq Strategies /\ \A s \in Loop!With("active") : strategy[s] # None
    BY DEF Loop!With, Loop!Mined
  <2>5. /\ next \in CycleJob /\ next.at = "maintain" /\ next.doc = job.doc
        /\ next.seen = job.seen /\ next.left = Loop!With("active") /\ next.row = strategy
    BY <2>1, <2>2, <2>3, <2>4 DEF CycleJob, Adapted, Listed
  <2>6. /\ UNCHANGED <<phase, strategy, trial, feedback, rules, holder>>
        /\ handled' = handled \cup job.seen
        /\ cycle' = [cycle EXCEPT ![t] = next]
    BY <1>2, <2>1, <2>2 DEF Loop!ListActive, Loop!Turn
  <2>7. Onward
    BY <2>6 DEF Onward, Launched, Texts
  <2>8. Writes(next)
    BY <2>1, <2>3, <2>4, <2>5 DEF Writes, Listed
  <2>9. Writes(next)'
    BY <2>6, <2>8 DEF Writes, Fit, Launched
  <2>10. Adapts(next)'
    <3>1. \A f \in job.seen \cap Telling : Loop!Learned(f, Texts')
      BY <2>1, <2>6 DEF Adapts, Texts
    <3> QED
      BY <2>5, <2>6, <3>1 DEF Adapts, Told, Known, Adapted, Listed
  <2>11. /\ handled \subseteq handled' /\ Texts \subseteq Texts'
         /\ feedback' \in [Feedbacks -> {"none", "pending", "consumed"}]
         /\ \A g \in Feedbacks : feedback'[g] = "consumed" => Told(g)'
    BY <2>6 DEF LoopInv, LoopTyped, Told, Known, Texts
  <2> QED
    BY <2>5, <2>6, <2>9, <2>10, <2>11, CycleTurns, TrialsHold
<1> QED
  BY <1>1, <1>2

\* Rows a cycle read are written back with another status.
LEMMA ListedRow ==
  ASSUME NEW job \in CycleJob, Writes(job), job.at \in Listed, NEW s \in Strategies,
         job.row[s] # None, NEW status \in {"active", "stale"}
  PROVE  /\ strategy[s] # None
         /\ \E row \in StrategyRow : /\ row = [job.row[s] EXCEPT !.status = status]
                                     /\ row.status = status /\ Fit(row)
<1>1. job.row[s] \in StrategyRow /\ Fit(job.row[s]) /\ strategy[s] # None
  BY DEF Writes, Snapshot
<1>2. PICK row : row = [job.row[s] EXCEPT !.status = status]
  OBVIOUS
<1>3. row \in StrategyRow /\ row.status = status /\ row.by = job.row[s].by
  BY <1>1, <1>2 DEF StrategyRow
<1> QED
  BY <1>1, <1>2, <1>3 DEF Fit

LEMMA ListedTurns ==
  ASSUME NoneIsNoStrategy, LoopInv, NEW t \in Tasks, NEW s \in Strategies
  PROVE  /\ Loop!Retire(t, s) => LoopInv'
         /\ Loop!Activate(t, s) => LoopInv'
<1>1. CASE Loop!Retire(t, s)
  <2>1. PICK job \in CycleJob :
          job = cycle[t] /\ job.at = "maintain" /\ Writes(job) /\ Adapts(job) /\ s \in job.left
    BY <1>1, JobOf DEF Loop!Retire, Loop!At
  <2>2. job.row[s] # None /\ job.at \in Listed
    BY <2>1 DEF Writes, Listed
  <2>3. PICK row \in StrategyRow : /\ row = [job.row[s] EXCEPT !.status = "stale"]
                                   /\ row.status = "stale" /\ Fit(row) /\ strategy[s] # None
    BY <2>1, <2>2, ListedRow
  <2>4. PICK next : next = [job EXCEPT !.left = job.left \ {s}]
    OBVIOUS
  <2>5. /\ next \in CycleJob /\ next.at = "maintain" /\ next.doc = job.doc
        /\ next.seen = job.seen /\ next.left = job.left \ {s} /\ next.row = job.row
    BY <2>1, <2>4 DEF CycleJob
  <2>6. Writes(next) /\ Adapts(next)
    BY <2>1, <2>5 DEF Writes, Adapts, Listed, Adapted
  <2>7. /\ UNCHANGED <<phase, trial, worse, feedback, rules, handled, holder>>
        /\ strategy' = [strategy EXCEPT ![s] = row]
        /\ cycle' = [cycle EXCEPT ![t] = next]
    BY <1>1, <2>1, <2>3, <2>4 DEF Loop!Retire, Loop!Put, Loop!Turn, Loop!given
  <2>8. Onward
    BY <2>3, <2>7, RowIsPut
  <2>9. Writes(next)' /\ Adapts(next)'
    BY <2>5, <2>6, <2>8, JobStaysSound
  <2> QED
    BY <2>3, <2>5, <2>7, <2>9, CyclePuts
<1>2. CASE Loop!Activate(t, s)
  <2>1. PICK job \in CycleJob :
          job = cycle[t] /\ job.at = "deploy" /\ Writes(job) /\ Adapts(job) /\ s \in job.left
    BY <1>2, JobOf DEF Loop!Activate, Loop!At
  <2>2. job.row[s] # None /\ job.at \in Listed
    BY <2>1 DEF Writes, Listed
  <2>3. PICK row \in StrategyRow : /\ row = [job.row[s] EXCEPT !.status = "active"]
                                   /\ row.status = "active" /\ Fit(row) /\ strategy[s] # None
    BY <2>1, <2>2, ListedRow
  <2>4. PICK next : next = [job EXCEPT !.left = job.left \ {s}, !.doc = s,
                              !.at = IF job.row[s].replaces = None THEN "deploy" ELSE "replace"]
    OBVIOUS
  <2>5. /\ next \in CycleJob /\ next.at \in {"deploy", "replace"} /\ next.doc = s
        /\ next.seen = job.seen /\ next.left = job.left \ {s} /\ next.row = job.row
    BY <2>1, <2>4 DEF CycleJob, Adapted, Listed
  <2>6. /\ UNCHANGED <<phase, trial, worse, feedback, rules, handled, holder>>
        /\ strategy' = [strategy EXCEPT ![s] = row]
        /\ cycle' = [cycle EXCEPT ![t] = next]
    BY <1>2, <2>1, <2>3, <2>4 DEF Loop!Activate, Loop!Put, Loop!Turn, Loop!given
  <2>7. Onward /\ strategy'[s] # None
    BY <2>3, <2>6, RowIsPut
  <2>8. Launched(s)'
    BY <2>3, <2>6, <2>7 DEF Launched, LoopInv, LoopTyped, Snapshot
  <2>9. Writes(job)' /\ Adapts(job)'
    BY <2>1, <2>7, JobStaysSound
  <2>10. Writes(next)' /\ Adapts(next)'
    BY <2>1, <2>2, <2>5, <2>7, <2>8, <2>9 DEF Writes, Adapts, Listed, Adapted, NoneIsNoStrategy
  <2> QED
    BY <2>3, <2>5, <2>6, <2>10, CyclePuts
<1> QED
  BY <1>1, <1>2

\* A pending strategy was put in force; what it replaces is read and deprecated.
LEMMA ReplacingTurns ==
  ASSUME NoneIsNoStrategy, LoopInv, NEW t \in Tasks
  PROVE  /\ Loop!ReadReplaced(t) => LoopInv'
         /\ Loop!Deprecate(t) => LoopInv'
         /\ Loop!TakeBack(t) => LoopInv'
<1>1. CASE Loop!ReadReplaced(t)
  <2>1. PICK job \in CycleJob :
          job = cycle[t] /\ job.at = "replace" /\ Writes(job) /\ Adapts(job)
    BY <1>1, JobOf DEF Loop!ReadReplaced, Loop!At
  <2>2. PICK s \in Strategies : s = job.doc /\ job.row[s] # None /\ Launched(s)
    BY <2>1 DEF Writes, CycleJob
  <2>3. job.row \in Snapshot
    BY <2>1 DEF Writes, Listed
  <2>4. PICK old \in Strategies \cup {None} : old = job.row[s].replaces
    BY <2>2, <2>3 DEF Snapshot, StrategyRow
  <2>5. UNCHANGED <<Loop!given, strategy, trial, holder>>
    BY <1>1 DEF Loop!ReadReplaced
  <2>6. CASE old \in Loop!With("active")
    <3>1. old \in Strategies /\ strategy[old] # None
      BY <2>6 DEF Loop!With, Loop!Mined
    <3>2. PICK row : row = [strategy[old] EXCEPT !.status = "deprecated", !.by = s]
      OBVIOUS
    <3>3. row \in StrategyRow /\ row.status = "deprecated" /\ row.by = s
      BY <3>1, <3>2 DEF LoopInv, LoopTyped, Snapshot, StrategyRow
    <3>4. Fit(row)
      BY <2>2, <3>3 DEF Fit
    <3>5. PICK rows : rows = [job.row EXCEPT ![old] = row]
      OBVIOUS
    <3>6. /\ rows \in Snapshot /\ rows[old] = row
          /\ \A x \in Strategies \ {old} : rows[x] = job.row[x]
      BY <2>3, <3>1, <3>3, <3>5 DEF Snapshot
    <3>7. PICK next : next = [job EXCEPT !.at = "deprecate", !.row = rows, !.doc = old]
      OBVIOUS
    <3>8. /\ next \in CycleJob /\ next.at = "deprecate" /\ next.doc = old
          /\ next.seen = job.seen /\ next.left = job.left /\ next.row = rows
      BY <2>1, <3>1, <3>6, <3>7 DEF CycleJob, Adapted, Listed
    <3>9. \A x \in Strategies : rows[x] # None => Fit(rows[x]) /\ strategy[x] # None
      BY <2>1, <3>1, <3>4, <3>6 DEF Writes, Listed
    <3>10. Writes(next)
      <4>1. job.left \subseteq Strategies /\ \A x \in job.left : rows[x] # None
        BY <2>1, <3>3, <3>6 DEF Writes, Listed, NoneIsNoStrategy
      <4> QED
        BY <3>1, <3>3, <3>6, <3>8, <3>9, <4>1 DEF Writes, Listed, NoneIsNoStrategy
    <3>11. Adapts(next)
      BY <2>1, <3>8 DEF Adapts, Adapted, Listed
    <3>12. cycle' = [cycle EXCEPT ![t] = [job EXCEPT !.at = "deprecate", !.row[old] = row, !.doc = old]]
      BY <1>1, <2>1, <2>2, <2>4, <2>6, <3>2, Zenon DEF Loop!ReadReplaced, Loop!Turn
    <3>13. next = [job EXCEPT !.at = "deprecate", !.row[old] = row, !.doc = old]
      BY <2>1, <3>5, <3>7 DEF CycleJob
    <3> QED
      BY <2>5, <3>8, <3>10, <3>11, <3>12, <3>13, CycleRests, TrialsHold
  <2>7. CASE old \notin Loop!With("active")
    <3>1. PICK next : next = [job EXCEPT !.at = "deploy", !.doc = None]
      OBVIOUS
    <3>2. /\ next \in CycleJob /\ next.at = "deploy" /\ next.doc = None
          /\ next.seen = job.seen /\ next.left = job.left /\ next.row = job.row
      BY <2>1, <3>1 DEF CycleJob, Adapted, Listed
    <3>3. Writes(next) /\ Adapts(next)
      BY <2>1, <3>2 DEF Writes, Adapts, Listed, Adapted
    <3>4. cycle' = [cycle EXCEPT ![t] = next]
      BY <1>1, <2>1, <2>2, <2>4, <2>7, <3>1, Zenon DEF Loop!ReadReplaced, Loop!Turn
    <3> QED
      BY <2>5, <3>2, <3>3, <3>4, CycleRests, TrialsHold
  <2> QED
    BY <2>6, <2>7
<1>2. CASE Loop!Deprecate(t)
  <2>1. PICK job \in CycleJob :
          job = cycle[t] /\ job.at = "deprecate" /\ Writes(job) /\ Adapts(job)
    BY <1>2, JobOf DEF Loop!Deprecate, Loop!At
  <2>2. PICK s \in Strategies : s = job.doc
    BY <2>1 DEF Writes, CycleJob
  <2>3. PICK row \in StrategyRow : row = job.row[s] /\ Fit(row) /\ row.status # "pending" /\ strategy[s] # None
    BY <2>1, <2>2 DEF Writes, Listed, Snapshot
  <2>4. PICK next : next = [job EXCEPT !.at = "deploy", !.doc = None]
    OBVIOUS
  <2>5. /\ next \in CycleJob /\ next.at = "deploy" /\ next.doc = None
        /\ next.seen = job.seen /\ next.left = job.left /\ next.row = job.row
    BY <2>1, <2>4 DEF CycleJob, Adapted, Listed
  <2>6. Writes(next) /\ Adapts(next)
    BY <2>1, <2>5 DEF Writes, Adapts, Listed, Adapted
  <2>7. /\ UNCHANGED <<phase, trial, worse, feedback, rules, handled, holder>>
        /\ strategy' = [strategy EXCEPT ![s] = row]
        /\ cycle' = [cycle EXCEPT ![t] = next]
    BY <1>2, <2>1, <2>2, <2>3, <2>4 DEF Loop!Deprecate, Loop!Put, Loop!Turn, Loop!given
  <2>8. Onward
    BY <2>3, <2>7, RowIsPut
  <2>9. Writes(next)' /\ Adapts(next)'
    BY <2>5, <2>6, <2>8, JobStaysSound
  <2> QED
    BY <2>3, <2>5, <2>7, <2>9, CyclePuts
<1>3. CASE Loop!TakeBack(t)
  <2>1. PICK job \in CycleJob :
          job = cycle[t] /\ job.at = "take" /\ Writes(job) /\ Adapts(job)
    BY <1>3, JobOf DEF Loop!TakeBack, Loop!At
  <2>2. PICK s \in Strategies : s = job.doc /\ strategy[s] # None
    BY <2>1 DEF Writes, CycleJob
  <2>3. PICK row \in StrategyRow : row = job.row /\ Fit(row) /\ row.status # "pending"
    BY <2>1 DEF Writes
  <2>4. PICK next : next = [job EXCEPT !.at = "note", !.row = None]
    OBVIOUS
  <2>5. /\ next \in CycleJob /\ next.at = "note" /\ next.doc = job.doc /\ next.seen = job.seen
        /\ next.left = job.left
    BY <2>1, <2>4 DEF CycleJob, Adapted, Listed
  <2>6. Writes(next) /\ Adapts(next)
    BY <2>1, <2>5 DEF Writes, Adapts, Listed, Adapted
  <2>7. /\ UNCHANGED <<phase, trial, worse, feedback, rules, handled, holder>>
        /\ strategy' = [strategy EXCEPT ![s] = row]
        /\ cycle' = [cycle EXCEPT ![t] = next]
    BY <1>3, <2>1, <2>2, <2>3, <2>4 DEF Loop!TakeBack, Loop!Put, Loop!Turn, Loop!given
  <2>8. Onward
    BY <2>2, <2>3, <2>7, RowIsPut
  <2>9. Writes(next)' /\ Adapts(next)'
    BY <2>5, <2>6, <2>8, JobStaysSound
  <2> QED
    BY <2>2, <2>3, <2>5, <2>7, <2>9, CyclePuts
<1> QED
  BY <1>1, <1>2, <1>3

\* The cycle turns to the next list it made, or to the feedback it observed.
LEMMA ListingTurns ==
  ASSUME NoneIsNoStrategy, LoopInv, NEW t \in Tasks
  PROVE  /\ Loop!Deploy(t) => LoopInv'
         /\ Loop!ListRunning(t) => LoopInv'
         /\ Loop!Deployed(t) => LoopInv'
<1>1. CASE Loop!Deploy(t)
  <2>1. PICK job \in CycleJob :
          job = cycle[t] /\ job.at = "maintain" /\ Writes(job) /\ Adapts(job)
    BY <1>1, JobOf DEF Loop!Deploy, Loop!At
  <2>2. UNCHANGED <<Loop!given, strategy, trial, holder>>
    BY <1>1 DEF Loop!Deploy
  <2>3. CASE phase = "in"
    <3>1. PICK next : next = [job EXCEPT !.at = "consume", !.doc = None, !.row = None]
      OBVIOUS
    <3>2. next \in CycleJob /\ next.at = "consume" /\ next.doc = None /\ next.seen = job.seen
      BY <2>1, <3>1 DEF CycleJob, Adapted, Listed
    <3>3. Writes(next) /\ Adapts(next)
      BY <2>1, <3>2 DEF Writes, Adapts, Listed, Adapted
    <3>4. cycle' = [cycle EXCEPT ![t] = next]
      BY <1>1, <2>1, <2>3, <3>1 DEF Loop!Deploy, Loop!Go, Loop!Turn
    <3> QED
      BY <2>2, <3>2, <3>3, <3>4, CycleRests, TrialsHold
  <2>4. CASE phase # "in"
    <3>1. PICK left : left = {s \in Loop!With("pending") : phase = "out" \/ strategy[s].sure}
      OBVIOUS
    <3>2. left \subseteq Strategies /\ \A s \in left : strategy[s] # None
      BY <3>1 DEF Loop!With, Loop!Mined
    <3>3. strategy \in Snapshot /\ \A s \in Strategies : strategy[s] # None => Fit(strategy[s])
      BY DEF LoopInv, LoopTyped, RowsFit
    <3>4. PICK next : next = [job EXCEPT !.at = "deploy", !.row = strategy, !.left = left]
      OBVIOUS
    <3>5. /\ next \in CycleJob /\ next.at = "deploy" /\ next.doc = job.doc
          /\ next.seen = job.seen /\ next.left = left /\ next.row = strategy
      BY <2>1, <3>2, <3>3, <3>4 DEF CycleJob, Adapted, Listed
    <3>6. Writes(next) /\ Adapts(next)
      BY <2>1, <3>2, <3>3, <3>5 DEF Writes, Adapts, Listed, Adapted
    <3>7. cycle' = [cycle EXCEPT ![t] = next]
      BY <1>1, <2>1, <2>4, <3>1, <3>4, Zenon DEF Loop!Deploy, Loop!Turn
    <3> QED
      BY <2>2, <3>5, <3>6, <3>7, CycleRests, TrialsHold
  <2> QED
    BY <2>3, <2>4
<1>2. CASE Loop!ListRunning(t)
  <2>1. PICK job \in CycleJob :
          job = cycle[t] /\ job.at = "deploy" /\ Writes(job) /\ Adapts(job)
    BY <1>2, JobOf DEF Loop!ListRunning, Loop!At
  <2>2. PICK left : left = {s \in Strategies : trial[s] = "running"}
    OBVIOUS
  <2>3. left \subseteq Strategies /\ \A s \in left : strategy[s] # None
    BY <2>2, TrialsHold
  <2>4. PICK next : next = [job EXCEPT !.at = "watch", !.doc = None, !.row = None, !.left = left]
    OBVIOUS
  <2>5. /\ next \in CycleJob /\ next.at = "watch" /\ next.doc = None
        /\ next.seen = job.seen /\ next.left = left
    BY <2>1, <2>3, <2>4 DEF CycleJob, Adapted, Listed
  <2>6. Writes(next) /\ Adapts(next)
    BY <2>1, <2>3, <2>5 DEF Writes, Adapts, Listed, Adapted
  <2>7. UNCHANGED <<Loop!given, strategy, trial, holder>> /\ cycle' = [cycle EXCEPT ![t] = next]
    BY <1>2, <2>1, <2>2, <2>4 DEF Loop!ListRunning, Loop!Turn
  <2> QED
    BY <2>5, <2>6, <2>7, CycleRests, TrialsHold
<1>3. CASE Loop!Deployed(t)
  <2>1. PICK job \in CycleJob :
          job = cycle[t] /\ job.at = "watch" /\ Writes(job) /\ Adapts(job)
    BY <1>3, JobOf DEF Loop!Deployed, Loop!At
  <2>2. PICK next : next = [job EXCEPT !.at = "consume", !.doc = None, !.row = None]
    OBVIOUS
  <2>3. next \in CycleJob /\ next.at = "consume" /\ next.doc = None /\ next.seen = job.seen
    BY <2>1, <2>2 DEF CycleJob, Adapted, Listed
  <2>4. Writes(next) /\ Adapts(next)
    BY <2>1, <2>3 DEF Writes, Adapts, Listed, Adapted
  <2>5. UNCHANGED <<Loop!given, strategy, trial, holder>> /\ cycle' = [cycle EXCEPT ![t] = next]
    BY <1>3, <2>1, <2>2 DEF Loop!Deployed, Loop!Go, Loop!Turn
  <2> QED
    BY <2>3, <2>4, <2>5, CycleRests, TrialsHold
<1> QED
  BY <1>1, <1>2, <1>3

\* The running experiments are judged.
LEMMA JudgingTurns ==
  ASSUME NoneIsNoStrategy, LoopInv, NEW t \in Tasks
  PROVE  /\ \A s \in Strategies : Loop!Judge(t, s) => LoopInv'
         /\ Loop!NoteRollback(t) => LoopInv'
<1>1. ASSUME NEW s \in Strategies, Loop!Judge(t, s) PROVE LoopInv'
  <2>1. PICK job \in CycleJob :
          job = cycle[t] /\ job.at = "watch" /\ s \in job.left /\ Writes(job) /\ Adapts(job)
    BY <1>1, JobOf DEF Loop!Judge, Loop!At
  <2>2. strategy[s] # None /\ strategy[s] \in StrategyRow /\ Fit(strategy[s])
    BY <2>1 DEF Writes, LoopInv, LoopTyped, RowsFit, Snapshot
  <2>3. CASE s \in worse
    <3>1. PICK row : row = [strategy[s] EXCEPT !.status = "deprecated"]
      OBVIOUS
    <3>2. row \in StrategyRow /\ row.status = "deprecated" /\ row.by = strategy[s].by
      BY <2>2, <3>1 DEF StrategyRow
    <3>3. PICK next : next = [job EXCEPT !.at = "take", !.left = job.left \ {s}, !.doc = s, !.row = row]
      OBVIOUS
    <3>4. /\ next \in CycleJob /\ next.at = "take" /\ next.doc = s
          /\ next.seen = job.seen /\ next.left = job.left \ {s} /\ next.row = row
      BY <2>1, <3>2, <3>3 DEF CycleJob, Adapted, Listed
    <3>5. Fit(row)
      BY <2>2, <3>2 DEF Fit
    <3>6. Writes(next) /\ Adapts(next)
      BY <2>1, <2>2, <3>2, <3>4, <3>5 DEF Writes, Adapts, Listed, Adapted, NoneIsNoStrategy
    <3>7. /\ UNCHANGED <<Loop!given, strategy, trial, holder>>
          /\ cycle' = [cycle EXCEPT ![t] = next]
      BY <1>1, <2>1, <2>3, <3>1, <3>3 DEF Loop!Judge, Loop!Turn
    <3> QED
      BY <3>4, <3>6, <3>7, CycleRests, TrialsHold
  <2>4. CASE s \notin worse
    <3>1. PICK next : next = [job EXCEPT !.left = job.left \ {s}]
      OBVIOUS
    <3>2. /\ next \in CycleJob /\ next.at = "watch" /\ next.doc = job.doc
          /\ next.seen = job.seen /\ next.left = job.left \ {s}
      BY <2>1, <3>1 DEF CycleJob
    <3>3. Writes(next) /\ Adapts(next)
      BY <2>1, <3>2 DEF Writes, Adapts, Listed, Adapted
    <3>4. /\ UNCHANGED <<Loop!given, strategy, holder>>
          /\ cycle' = [cycle EXCEPT ![t] = next]
          /\ trial' = [trial EXCEPT ![s] = "running"]
      BY <1>1, <2>1, <2>4, <3>1 DEF Loop!Judge, Loop!Turn
    <3>5. /\ trial' \in [Strategies -> {"none", "pending_review", "running", "rolled_back"}]
          /\ \A x \in Strategies : trial'[x] = "running" => strategy[x] # None
      BY <2>2, <3>4, TrialsHold
    <3> QED
      BY <3>2, <3>3, <3>4, <3>5, CycleRests
  <2> QED
    BY <2>3, <2>4
<1>2. CASE Loop!NoteRollback(t)
  <2>1. PICK job \in CycleJob :
          job = cycle[t] /\ job.at = "note" /\ Writes(job) /\ Adapts(job)
    BY <1>2, JobOf DEF Loop!NoteRollback, Loop!At
  <2>2. PICK next : next = [job EXCEPT !.at = "watch", !.doc = None, !.row = None]
    OBVIOUS
  <2>3. /\ next \in CycleJob /\ next.at = "watch" /\ next.doc = None
        /\ next.seen = job.seen /\ next.left = job.left
    BY <2>1, <2>2 DEF CycleJob, Adapted, Listed
  <2>4. Adapts(next)
    BY <2>1, <2>3 DEF Adapts, Adapted, Listed
  <2>5. job.left \subseteq Strategies /\ \A s \in job.left : strategy[s] # None
    BY <2>1 DEF Writes
  <2>6. Writes(next)
    BY <2>3, <2>5 DEF Writes, Listed
  <2>7. /\ UNCHANGED <<Loop!given, strategy, holder>>
        /\ cycle' = [cycle EXCEPT ![t] = next]
        /\ trial' = [trial EXCEPT ![job.doc] = "rolled_back"]
    BY <1>2, <2>1, <2>2 DEF Loop!NoteRollback, Loop!Go, Loop!Turn
  <2>8. /\ trial' \in [Strategies -> {"none", "pending_review", "running", "rolled_back"}]
        /\ \A x \in Strategies : trial'[x] = "running" => strategy[x] # None
    BY <2>7, TrialsHold
  <2> QED
    BY <2>3, <2>4, <2>6, <2>7, <2>8, CycleRests
<1> QED
  BY <1>1, <1>2

\* A rule is put in force, and the feedback that was observed is consumed.
LEMMA ConsumingTurns ==
  ASSUME NoneIsNoStrategy, LoopInv, NEW t \in Tasks, NEW f \in Feedbacks
  PROVE  /\ Loop!DeployRule(t, f) => LoopInv'
         /\ Loop!Consume(t, f) => LoopInv'
<1>1. CASE Loop!Consume(t, f)
  <2>1. PICK job \in CycleJob :
          job = cycle[t] /\ job.at = "consume" /\ f \in job.seen /\ Writes(job) /\ Adapts(job)
    BY <1>1, JobOf DEF Loop!Consume, Loop!At
  <2>2. PICK next : next = [job EXCEPT !.seen = job.seen \ {f}]
    OBVIOUS
  <2>3. /\ next \in CycleJob /\ next.at = "consume" /\ next.doc = job.doc
        /\ next.seen = job.seen \ {f}
    BY <2>1, <2>2 DEF CycleJob
  <2>4. Writes(next) /\ Adapts(next) /\ Told(f)
    BY <2>1, <2>3 DEF Writes, Adapts, Listed, Adapted
  <2>5. /\ UNCHANGED <<phase, strategy, trial, rules, handled, holder>>
        /\ cycle' = [cycle EXCEPT ![t] = next]
        /\ feedback' = [feedback EXCEPT ![f] = "consumed"]
    BY <1>1, <2>1, <2>2 DEF Loop!Consume, Loop!Turn
  <2>6. /\ feedback' \in [Feedbacks -> {"none", "pending", "consumed"}]
        /\ \A g \in Feedbacks : feedback'[g] = "consumed" => Told(g)'
    BY <2>4, <2>5 DEF LoopInv, LoopTyped, Told, Known, Texts
  <2>7. Onward
    BY <2>5 DEF Onward, Launched, Texts
  <2>8. Writes(next)' /\ Adapts(next)'
    BY <2>3, <2>4, <2>7, JobStaysSound
  <2>9. handled \subseteq handled' /\ Texts \subseteq Texts'
    BY <2>7 DEF Onward
  <2> QED
    BY <2>3, <2>5, <2>6, <2>8, <2>9, CycleTurns, TrialsHold
<1>2. CASE Loop!DeployRule(t, f)
  <2>1. PICK job \in CycleJob :
          job = cycle[t] /\ job.at = "deploy" /\ Writes(job) /\ Adapts(job)
    BY <1>2, JobOf DEF Loop!DeployRule, Loop!At
  <2>2. /\ UNCHANGED <<phase, strategy, trial, feedback, handled, holder>>
        /\ cycle' = [cycle EXCEPT ![t] = job]
    BY <1>2, <2>1 DEF Loop!DeployRule, LoopInv, LoopTyped
  <2>3. Texts \subseteq Texts'
    <3>1. PICK old, new :
            old.of = RuleOf[f] /\ new.of = RuleOf[f] /\ rules' = (rules \ {old}) \cup {new}
      BY <1>2 DEF Loop!DeployRule, Loop!Rule
    <3> QED
      BY <3>1 DEF Texts
  <2>4. Onward
    BY <2>2, <2>3 DEF Onward, Launched
  <2>5. Writes(job)' /\ Adapts(job)'
    BY <2>1, <2>4, JobStaysSound
  <2>6. /\ feedback' \in [Feedbacks -> {"none", "pending", "consumed"}]
        /\ \A g \in Feedbacks : feedback'[g] = "consumed" => Told(g)'
    BY <2>2, <2>3, ToldStays DEF LoopInv, LoopTyped
  <2> QED
    BY <2>1, <2>2, <2>3, <2>5, <2>6, CycleTurns, TrialsHold
<1> QED
  BY <1>1, <1>2

\* What is not a turn of a cycle: feedback and executions come in, an approval or
\* a question reads a row and writes it back, the workers restart.
LEMMA BesideCycles ==
  ASSUME NoneIsNoStrategy, LoopInv, Onward, LoopTyped', RowsFit',
         \A s \in Strategies : strategy[s] = None => strategy'[s] = None,
         \A f \in Feedbacks : feedback'[f] = "consumed" => feedback[f] = "consumed",
         \/ cycle' = cycle
         \/ cycle' = [t \in Tasks |-> None]
  PROVE  LoopInv'
<1>1. \A f \in Feedbacks : feedback'[f] = "consumed" => Told(f)'
  BY ToldStays DEF LoopInv, Onward
<1>2. CASE cycle' = [t \in Tasks |-> None]
  BY <1>1, <1>2 DEF LoopInv, Reserved
<1>3. CASE cycle' = cycle
  <2>1. ASSUME NEW t \in Tasks, cycle'[t] # None PROVE Writes(cycle[t])' /\ Adapts(cycle[t])'
    <3>1. PICK job \in CycleJob : job = cycle[t] /\ Writes(job) /\ Adapts(job)
      BY <1>3, <2>1, JobOf
    <3>2. Writes(job)' /\ Adapts(job)'
      BY <3>1, JobStaysSound
    <3> QED
      BY <1>3, <3>1, <3>2
  <2>2. Reserved'
    <3>1. \A t \in Tasks : cycle[t] # None /\ cycle[t].at = "register" => cycle[t].doc \in Strategies
      BY JobOf DEF Writes, CycleJob
    <3> QED
      BY <1>3, <3>1 DEF LoopInv, Reserved
  <2> QED
    BY <1>1, <2>1, <2>2 DEF LoopInv
<1> QED
  BY <1>2, <1>3

LEMMA OutsideSteps ==
  ASSUME NoneIsNoStrategy, LoopInv
  PROVE  /\ \A f \in Feedbacks : Loop!Collect(f) => LoopInv'
         /\ \A s \in Strategies : Loop!Measure(s) => LoopInv'
         /\ \A p \in {"in", "on", "out"} : Loop!Configure(p) => LoopInv'
         /\ \A r \in Approvals : Loop!Write(r) => LoopInv'
         /\ \A r \in Approvals, s \in Strategies : Loop!Approve(r, s) \/ Loop!Match(r, s) => LoopInv'
<1>1. ASSUME UNCHANGED <<strategy, rules, handled>>
      PROVE  Onward /\ \A s \in Strategies : strategy[s] = None => strategy'[s] = None
  BY <1>1 DEF Onward, Launched, Texts
<1>2. ASSUME NEW f \in Feedbacks, Loop!Collect(f) PROVE LoopInv'
  <2>1. LoopTyped' /\ RowsFit'
    BY <1>2 DEF Loop!Collect, LoopInv, LoopTyped, RowsFit, Fit, Launched
  <2> QED
    BY <1>1, <1>2, <2>1, BesideCycles DEF Loop!Collect
<1>3. ASSUME NEW s \in Strategies, Loop!Measure(s) PROVE LoopInv'
  <2>1. UNCHANGED <<phase, strategy, trial, feedback, rules, handled, cycle, holder>>
    BY <1>3 DEF Loop!Measure
  <2>2. LoopTyped' /\ RowsFit'
    BY <2>1 DEF LoopInv, LoopTyped, RowsFit, Fit, Launched
  <2> QED
    BY <1>1, <2>1, <2>2, BesideCycles
<1>4. ASSUME NEW p \in {"in", "on", "out"}, Loop!Configure(p) PROVE LoopInv'
  <2>1. LoopTyped' /\ RowsFit'
    BY <1>4 DEF Loop!Configure, LoopInv, LoopTyped, RowsFit, Fit, Launched
  <2> QED
    BY <1>1, <1>4, <2>1, BesideCycles DEF Loop!Configure
<1>5. ASSUME NEW r \in Approvals, Loop!Write(r) PROVE LoopInv'
  <2>1. PICK held \in HeldRow : held = holder[r]
    BY <1>5 DEF Loop!Write, LoopInv, LoopTyped
  <2>2. /\ held.doc \in Strategies /\ held.row \in StrategyRow
        /\ strategy[held.doc] # None /\ Fit(held.row) /\ held.row.status # "pending"
    BY <1>5, <2>1 DEF Loop!Write, LoopInv, RowsFit, HeldRow
  <2>3. PICK s \in Strategies, row \in StrategyRow : s = held.doc /\ row = held.row
    BY <2>2
  <2>4. /\ strategy' = [strategy EXCEPT ![s] = row]
        /\ holder' = [holder EXCEPT ![r] = None]
        /\ UNCHANGED <<phase, trial, feedback, rules, handled, cycle>>
    BY <1>5, <2>1, <2>3 DEF Loop!Write, Loop!Put, Loop!given
  <2>5. /\ Onward
        /\ strategy' \in Snapshot
        /\ \A x \in Strategies \ {s} : strategy'[x] = strategy[x]
        /\ \A x \in Strategies : strategy'[x] # None => Fit(strategy[x])'
        /\ \A x \in Strategies : trial[x] = "running" => strategy'[x] # None
    BY <2>2, <2>3, <2>4, RowIsPut
  <2>6. LoopTyped'
    BY <2>4, <2>5 DEF LoopInv, LoopTyped
  <2>7. ASSUME NEW q \in Approvals, holder'[q] # None
        PROVE  /\ strategy'[holder'[q].doc] # None
               /\ Fit(holder[q].row)' /\ holder'[q].row.status # "pending"
    <3>1. holder'[q] = holder[q]
      BY <2>4, <2>7 DEF LoopInv, LoopTyped
    <3>2. PICK other \in HeldRow : /\ other = holder[q] /\ strategy[other.doc] # None
                                   /\ Fit(other.row) /\ other.row.status # "pending"
      BY <2>7, <3>1 DEF LoopInv, LoopTyped, RowsFit
    <3>3. other.doc \in Strategies /\ other.row \in StrategyRow
      BY DEF HeldRow
    <3>4. Fit(other.row)'
      BY <2>5, <3>2, <3>3, FitStays
    <3> QED
      BY <2>5, <3>1, <3>2, <3>3, <3>4 DEF Onward
  <2>8. RowsFit'
    BY <2>4, <2>5, <2>7 DEF RowsFit
  <2> QED
    BY <2>2, <2>3, <2>4, <2>5, <2>6, <2>8, BesideCycles
<1>6. ASSUME NEW r \in Approvals, NEW s \in Strategies, Loop!Approve(r, s) \/ Loop!Match(r, s)
      PROVE  LoopInv'
  <2>1. strategy[s] # None /\ strategy[s] \in StrategyRow /\ Fit(strategy[s])
    BY <1>6 DEF Loop!Approve, Loop!Match, Loop!With, Loop!Mined, LoopInv, LoopTyped, RowsFit, Snapshot
  <2>2. PICK row \in StrategyRow :
          /\ row.status = "active" /\ row.by = strategy[s].by
          /\ holder' = [holder EXCEPT ![r] = [doc |-> s, row |-> row]]
    <3>1. CASE Loop!Match(r, s)
      BY <2>1, <3>1 DEF Loop!Match, Loop!With
    <3>2. CASE Loop!Approve(r, s)
      <4>1. PICK row : row = [strategy[s] EXCEPT !.status = "active"]
        OBVIOUS
      <4>2. row \in StrategyRow /\ row.status = "active" /\ row.by = strategy[s].by
        BY <2>1, <4>1 DEF StrategyRow
      <4> QED
        BY <3>2, <4>1, <4>2 DEF Loop!Approve
    <3> QED
      BY <1>6, <3>1, <3>2
  <2>3. UNCHANGED <<phase, strategy, trial, feedback, rules, handled, cycle>>
    BY <1>6 DEF Loop!Approve, Loop!Match, Loop!given
  <2>4. PICK held : held = [doc |-> s, row |-> row]
    OBVIOUS
  <2>5. held \in HeldRow /\ held.doc = s /\ held.row = row
    BY <2>4 DEF HeldRow
  <2>6. /\ holder' \in [Approvals -> HeldRow \cup {None}]
        /\ holder'[r] = held
        /\ \A q \in Approvals \ {r} : holder'[q] = holder[q]
    BY <2>2, <2>4, <2>5 DEF LoopInv, LoopTyped
  <2>7. Fit(row)
    BY <2>1, <2>2 DEF Fit
  <2>8. LoopTyped'
    BY <2>3, <2>6 DEF LoopInv, LoopTyped
  <2>9. ASSUME NEW q \in Approvals, holder'[q] # None
        PROVE  /\ strategy[holder'[q].doc] # None
               /\ Fit(holder'[q].row) /\ holder'[q].row.status # "pending"
    <3>1. CASE q = r
      BY <2>1, <2>2, <2>5, <2>6, <2>7, <3>1
    <3>2. CASE q # r
      BY <2>6, <2>9, <3>2 DEF LoopInv, RowsFit
    <3> QED
      BY <3>1, <3>2
  <2>10. RowsFit'
    BY <2>3, <2>9 DEF LoopInv, RowsFit, Fit, Launched
  <2> QED
    BY <1>1, <2>3, <2>8, <2>10, BesideCycles
<1> QED
  BY <1>2, <1>3, <1>4, <1>5, <1>6

LEMMA LoopSteps ==
  ASSUME NoneIsNoStrategy PROVE LoopInv /\ [Loop!Next]_Loop!vars => LoopInv'
<1> SUFFICES ASSUME LoopInv, [Loop!Next]_Loop!vars PROVE LoopInv'
  OBVIOUS
<1>1. ASSUME NEW t \in Tasks, Loop!CycleStep(t) PROVE LoopInv'
  <2>1. CASE Loop!Observe(t) \/ Loop!StartExperiment(t) \/ Loop!Mine(t) \/ Loop!End(t)
    BY <2>1, MiningTurns
  <2>2. CASE Loop!Register(t)
    BY <2>2, CandidateTurns
  <2>3. CASE Loop!ListActive(t)
    BY <2>3, SuggestingTurns
  <2>4. CASE Loop!Deploy(t) \/ Loop!ListRunning(t) \/ Loop!Deployed(t)
    BY <2>4, ListingTurns
  <2>5. CASE Loop!ReadReplaced(t) \/ Loop!Deprecate(t) \/ Loop!TakeBack(t)
    BY <2>5, ReplacingTurns
  <2>6. CASE Loop!NoteRollback(t)
    BY <2>6, JudgingTurns
  <2>7. ASSUME NEW f \in Feedbacks,
               Loop!Consume(t, f) \/ Loop!Suggest(t, f) \/ Loop!DeployRule(t, f)
        PROVE  LoopInv'
    BY <2>7, ConsumingTurns, SuggestingTurns
  <2>8. ASSUME NEW s \in Strategies, Loop!Retire(t, s) \/ Loop!Activate(t, s) \/ Loop!Judge(t, s)
        PROVE  LoopInv'
    BY <2>8, ListedTurns, JudgingTurns
  <2>9. ASSUME NEW s \in Strategies, NEW questions \in BOOLEAN, NEW sure \in BOOLEAN,
               NEW without \in Loop!Scores, NEW with \in Loop!Scores,
               Loop!Draft(t, s, Loop!Passed(questions, without, with), with, sure)
        PROVE  LoopInv'
    <3>1. Loop!Passed(questions, without, with) \in BOOLEAN
      BY DEF Loop!Passed, Loop!Scores
    <3>2. PICK passed \in BOOLEAN : passed = Loop!Passed(questions, without, with)
      BY <3>1, Zenon
    <3>3. Loop!Draft(t, s, passed, with, sure)
      BY <2>9, <3>2, Zenon
    <3> QED
      BY <3>3, CandidateTurns, Zenon
  <2> QED
    BY <1>1, <2>1, <2>2, <2>3, <2>4, <2>5, <2>6, <2>7, <2>8, <2>9 DEF Loop!CycleStep
<1>2. ASSUME NEW r \in Approvals, Loop!Write(r) \/ \E s \in Strategies : Loop!Approve(r, s) \/ Loop!Match(r, s)
      PROVE  LoopInv'
  BY <1>2, OutsideSteps
<1>3. CASE \/ \E f \in Feedbacks : Loop!Collect(f)
           \/ \E s \in Strategies : Loop!Measure(s)
           \/ \E p \in {"in", "on", "out"} : Loop!Configure(p)
  BY <1>3, OutsideSteps
<1>4. CASE UNCHANGED Loop!vars
  <2>1. Onward /\ LoopTyped' /\ RowsFit'
    BY <1>4 DEF Loop!vars, LoopInv, LoopTyped, RowsFit, Fit, Launched, Onward, Texts
  <2> QED
    BY <1>4, <2>1, BesideCycles DEF Loop!vars
<1> QED
  BY <1>1, <1>2, <1>3, <1>4 DEF Loop!Next

(* For any number of cycles, approvals, strategies and feedback: a strategy *)
(* is deprecated in favour of another only once that one left "pending",    *)
(* and feedback is consumed only when a cycle that observed it adapted to    *)
(* it, with the rule it names in place or as many rules as one cycle may     *)
(* register, wherever cycles stop and restart (loop_engine.py run_cycle,     *)
(* _adapt, _deploy; admin.py; orchestrator.py).                             *)
THEOREM CyclesKeepAccount ==
  ASSUME NoneIsNoStrategy PROVE Loop!Spec => []CyclesAccount
<1>1. Loop!Init => LoopInv
  BY DEF Loop!Init, LoopInv, LoopTyped, Snapshot, RowsFit, Reserved
<1>2. LoopInv => CyclesAccount
  <2> SUFFICES ASSUME LoopInv PROVE CyclesAccount
    OBVIOUS
  <2>1. Loop!ReplacedGaveWay
    BY DEF LoopInv, RowsFit, Fit, Launched, Loop!ReplacedGaveWay, Loop!Mined
  <2>2. Loop!ConsumedWasSeen
    BY DEF LoopInv, Told, Known, Texts, Loop!ConsumedWasSeen
  <2> QED
    BY <2>1, <2>2 DEF CyclesAccount
<1> QED
  BY <1>1, <1>2, LoopSteps, PTL DEF Loop!Spec
-----------------------------------------------------------------------------
(* The versions of a title (Ingest).                                        *)
Steps == {"insert", "embed", "store", "activate", "write", "ready", "archive", "unindex", "done",
           "clean", "clean_chunks", "clean_row", "reindex", "reembed", "refresh"}
Paper == [file : Files, status : {"indexing", "active", "archived", "deleted"}]
Work == [doc : Copies, stage : Steps, next : Steps \cup {None}, old : SUBSET Copies,
         target : Copies \cup {None}, row : Paper \cup {None}]

NoneIsNoWork == None \notin Copies \cup Steps \cup Paper \cup Work

IngestTypes ==
  /\ docs \in [Copies -> Paper \cup {None}]
  /\ chunks \subseteq Copies /\ vectors \subseteq Copies
  /\ work \in [Tasks -> Work \cup {None}]
  /\ used \subseteq Copies /\ born \subseteq used /\ touched \subseteq Copies
  /\ \A d \in Copies \ used : docs[d] = None

\* The order in which the ingestions began.
InOrder(R) ==
  /\ R \subseteq used \X used
  /\ \A d \in used : <<d, d>> \notin R
  /\ \A d, e, f \in used : <<d, e>> \in R /\ <<e, f>> \in R => <<d, f>> \in R
  /\ \A d, e \in used : d = e \/ <<d, e>> \in R \/ <<e, d>> \in R

\* No later one came to be.
Last(R, d) == \A e \in born : <<d, e>> \notin R

Writing(w, next) == w.stage = "write" /\ w.next = next
Early(w) == w.stage \in {"insert", "embed", "store", "activate"} \/ Writing(w, "ready")

\* A task archives only what was there before its own document, once that is born.
Threat(R, w) ==
  /\ w.doc \in used
  /\ \A e \in w.old : <<e, w.doc>> \in R
  /\ w.stage = "archive" => w.doc \in born
  /\ w.stage \in {"write", "unindex"} /\ w.target # w.doc => w.target \in w.old /\ w.doc \in born
  /\ w.stage = "write" => w.row # None /\ w.next \in {"ready", "done", "unindex", "reindex"}
  /\ w.stage = "write" /\ w.target # w.doc => w.next = "unindex"

\* What the task that ingests a document no administrator touched relies on.
Fresh(R, w) ==
  /\ w.stage \notin {"reindex", "reembed", "refresh"}
  /\ Early(w) => w.doc \notin born /\ \A u \in Tasks : work[u] # None => w.doc \notin work[u].old
  /\ w.stage = "insert" => docs[w.doc] = None /\ w.row # None /\ w.row.status = "indexing"
  /\ Early(w) /\ w.stage # "insert" => docs[w.doc] # None /\ docs[w.doc].status = "indexing"
  /\ Early(w) /\ w.stage \notin {"insert", "embed"} => w.doc \in vectors
  /\ Early(w) /\ w.stage \notin {"insert", "embed", "store"} => w.doc \in chunks
  /\ Writing(w, "ready") => w.target = w.doc /\ w.row.status = "active"
  /\ Writing(w, "done") => w.doc \in born /\ (Last(R, w.doc) => w.row.status = "active")
  /\ w.stage = "write" /\ w.next \notin {"ready", "done"} => w.target # w.doc
  /\ w.stage = "unindex" => w.target # w.doc
  /\ w.stage = "ready" => w.doc \notin born /\ (Last(R, w.doc) => Ingests!Found(w.doc))
  /\ w.stage \in {"clean", "clean_chunks", "clean_row"} => w.doc \notin born

Alone ==
  \A t, u \in Tasks : work[t] # None /\ work[u] # None /\ t # u /\ work[t].doc = work[u].doc =>
    work[t].doc \in touched

\* The last one, unless it was touched, is found.
Served(R) ==
  /\ born # {} => \E d \in born : Last(R, d)
  /\ \A d \in born \ touched : Last(R, d) => Ingests!Found(d)

Ordered(R) ==
  /\ InOrder(R)
  /\ \A t \in Tasks : work[t] # None =>
       Threat(R, work[t]) /\ (work[t].doc \notin touched => Fresh(R, work[t]))
  /\ Served(R)

Ingesting(R) == IngestTypes /\ Alone /\ Ordered(R)

IngestInv == \E R : Ingesting(R)

\* What a step of task t leaves to the others: it moves its own document, or one
\* that it archives for its own.
Spares(t, w) ==
  \A d \in Copies :
    \/ d = w.doc
    \/ d \in w.old /\ w.doc \in born
    \/ docs'[d] = docs[d] /\ (d \in chunks' <=> d \in chunks) /\ (d \in vectors' <=> d \in vectors)

LEMMA IngestMoves ==
  ASSUME NoneIsNoWork, NEW R, Ingesting(R), NEW t \in Tasks, NEW w \in Work, work[t] = w,
         NEW next \in Work \cup {None}, work' = [work EXCEPT ![t] = next],
         UNCHANGED <<used, born, touched>>,
         docs' \in [Copies -> Paper \cup {None}], chunks' \subseteq Copies, vectors' \subseteq Copies,
         Spares(t, w),
         next # None => /\ next.doc = w.doc /\ next.old \subseteq w.old
                        /\ Threat(R, next)
                        /\ w.doc \notin touched => Fresh(R, next)',
         w.doc \in born \ touched /\ Last(R, w.doc) /\ Ingests!Found(w.doc) => Ingests!Found(w.doc)'
  PROVE  Ingesting(R)'
<1> w # None
  BY DEF NoneIsNoWork
<1>1. /\ w.doc \in used /\ Threat(R, w) /\ InOrder(R)
      /\ \A e \in w.old : <<e, w.doc>> \in R /\ e \in used
  BY DEF Ingesting, Ordered, Threat, InOrder
<1>2. IngestTypes'
  BY <1>1 DEF IngestTypes, Ingesting, Spares
<1>3. Alone'
  BY DEF Ingesting, Alone, IngestTypes
<1>4. ASSUME NEW u \in Tasks, work'[u] # None
      PROVE  (Threat(R, work[u]) /\ (work[u].doc \notin touched => Fresh(R, work[u])))'
  <2>1. CASE u = t
    BY <1>4, <2>1 DEF Ingesting, IngestTypes, Threat
  <2>2. CASE u # t
    <3>1. PICK other \in Work : work[u] = other /\ work'[u] = other /\ other # None
      BY <1>4, <2>2 DEF Ingesting, IngestTypes
    <3>2. Threat(R, other)'
      BY <3>1 DEF Ingesting, Ordered, Threat
    <3>3. ASSUME other.doc \notin touched PROVE Fresh(R, other)'
      <4>1. Fresh(R, other) /\ other.doc # w.doc /\ other.doc \in Copies
        BY <2>2, <3>1, <3>3 DEF Ingesting, Ordered, Alone, Work
      <4>2. Early(other) => \A v \in Tasks : work'[v] # None => other.doc \notin work'[v].old
        <5>1. Early(other) => \A v \in Tasks : work[v] # None => other.doc \notin work[v].old
          BY <4>1 DEF Fresh
        <5> QED
          BY <5>1 DEF Ingesting, IngestTypes
      <4>3. CASE other.doc \in w.old
        <5>1. ~Early(other)
          BY <4>1, <4>3 DEF Fresh
        <5>2. Last(R, other.doc) => w.doc \notin born
          BY <1>1, <4>3 DEF Last
        <5>3. w.doc \notin born => Ingests!Found(other.doc)' = Ingests!Found(other.doc)
          BY <4>1 DEF Spares, Ingests!Found, Ingests!Active
        <5> QED
          BY <4>1, <5>1, <5>2, <5>3 DEF Fresh, Early, Writing, Last
      <4>4. CASE other.doc \notin w.old
        <5>1. /\ docs'[other.doc] = docs[other.doc]
              /\ other.doc \in chunks' <=> other.doc \in chunks
              /\ other.doc \in vectors' <=> other.doc \in vectors
          BY <4>1, <4>4 DEF Spares
        <5>2. Ingests!Found(other.doc)' = Ingests!Found(other.doc)
          BY <5>1 DEF Ingests!Found, Ingests!Active
        <5> QED
          BY <4>1, <4>2, <5>1, <5>2 DEF Fresh, Early, Writing, Last
      <4> QED
        BY <4>3, <4>4
    <3> QED
      BY <3>1, <3>2, <3>3
  <2> QED
    BY <2>1, <2>2
<1>5. Served(R)'
  <2>1. (born # {} => \E d \in born : Last(R, d))'
    BY DEF Ingesting, Ordered, Served, Last
  <2>2. ASSUME NEW d \in born \ touched, Last(R, d) PROVE Ingests!Found(d)'
    <3>1. Ingests!Found(d) /\ d \in Copies
      BY <2>2 DEF Ingesting, Ordered, Served, IngestTypes
    <3>2. d \in w.old => w.doc \notin born
      BY <1>1, <2>2 DEF Last
    <3>3. CASE d = w.doc
      BY <2>2, <3>1, <3>3
    <3>4. CASE d # w.doc
      BY <3>1, <3>2, <3>4 DEF Spares, Ingests!Found, Ingests!Active
    <3> QED
      BY <3>3, <3>4
  <2> QED
    BY <2>1, <2>2 DEF Served, Last
<1>6. InOrder(R)'
  BY <1>1 DEF InOrder
<1> QED
  BY <1>2, <1>3, <1>4, <1>5, <1>6 DEF Ingesting, Ordered

\* The first step of an update.
ReadOf(t, w, d, status, to, next) ==
  /\ next.doc = w.doc /\ next.old = w.old /\ next.target = d
  /\ \/ docs[d] = None /\ next.stage = to /\ next.row = w.row /\ next.next = w.next
     \/ /\ docs[d] # None /\ next.stage = "write" /\ next.next = to
        /\ next.row \in Paper /\ next.row # None /\ next.row.status = status
  /\ work' = [work EXCEPT ![t] = next]
  /\ UNCHANGED <<docs, chunks, vectors, used, born, touched>>

LEMMA ReadMoves ==
  ASSUME NoneIsNoWork, IngestTypes, NEW t \in Tasks, NEW w \in Work, work[t] = w,
         NEW d \in Copies, NEW status \in {"indexing", "active", "archived", "deleted"}, NEW to \in Steps,
         Ingests!Read(t, d, status, to)
  PROVE  \E next \in Work : ReadOf(t, w, d, status, to, next)
<1>1. CASE docs[d] = None
  <2>1. PICK next : next = [w EXCEPT !.target = d, !.stage = to]
    OBVIOUS
  <2>2. /\ next \in Work /\ next.doc = w.doc /\ next.old = w.old /\ next.target = d
        /\ next.stage = to /\ next.row = w.row /\ next.next = w.next
    BY <2>1 DEF Work
  <2>3. work' = [work EXCEPT ![t] = next]
    BY <1>1, <2>1 DEF Ingests!Read
  <2> QED
    BY <1>1, <2>2, <2>3 DEF Ingests!Read, Ingests!stores, Ingests!history, ReadOf
<1>2. CASE docs[d] # None
  <2>1. PICK row : row = [docs[d] EXCEPT !.status = status]
    OBVIOUS
  <2>2. row \in Paper /\ row.status = status
    BY <1>2, <2>1 DEF IngestTypes, Paper
  <2>3. PICK next : next = [w EXCEPT !.target = d, !.stage = "write", !.next = to, !.row = row]
    OBVIOUS
  <2>4. /\ next \in Work /\ next.doc = w.doc /\ next.old = w.old /\ next.target = d
        /\ next.stage = "write" /\ next.row = row /\ next.next = to
    BY <2>2, <2>3 DEF Work, Steps
  <2>5. work' = [work EXCEPT ![t] = next]
    BY <1>2, <2>1, <2>3 DEF Ingests!Read
  <2> QED
    BY <1>2, <2>2, <2>4, <2>5 DEF Ingests!Read, Ingests!stores, Ingests!history, ReadOf, NoneIsNoWork
<1> QED
  BY <1>1, <1>2

LEMMA ReadKeeps ==
  ASSUME NoneIsNoWork, NEW R, Ingesting(R), NEW t \in Tasks, NEW w \in Work, work[t] = w,
         NEW next \in Work \cup {None}, work' = [work EXCEPT ![t] = next],
         UNCHANGED <<docs, chunks, vectors, used, born, touched>>,
         next # None => /\ next.doc = w.doc /\ next.old = w.old
                        /\ Threat(R, next)
                        /\ w.doc \notin touched => Fresh(R, next)'
  PROVE  Ingesting(R)'
BY IngestMoves DEF Ingesting, IngestTypes, Spares, Ingests!Found, Ingests!Active

IngestTask(t) ==
  \/ Ingests!Insert(t) \/ Ingests!Embed(t) \/ Ingests!StoreChunks(t) \/ Ingests!Activate(t)
  \/ Ingests!Write(t) \/ Ingests!Unindex(t) \/ Ingests!Rename(t) \/ Ingests!FailIngest(t)
  \/ Ingests!CleanVectors(t) \/ Ingests!CleanChunks(t) \/ Ingests!CleanRow(t)
  \/ Ingests!Reindex(t) \/ Ingests!Reembed(t) \/ Ingests!Refresh(t) \/ Ingests!Leave(t)
  \/ \E e \in Copies : Ingests!Archive(t, e)

LEMMA IngestTasks ==
  ASSUME NoneIsNoWork, NEW R, Ingesting(R), NEW t \in Tasks, NEW w \in Work, work[t] = w,
         IngestTask(t)
  PROVE  Ingesting(R)'
<1>99. /\ IngestTypes /\ w # None /\ w.doc \in used /\ w.doc \in Copies /\ used \subseteq Copies
      /\ w.old \subseteq Copies
  BY DEF Ingesting, IngestTypes, NoneIsNoWork, Ordered, Threat, Work
<1>98. Threat(R, w) /\ (w.doc \notin touched => Fresh(R, w))
  BY <1>99 DEF Ingesting, Ordered
<1>1. ASSUME Ingests!Insert(t) PROVE Ingesting(R)'
  <2>1. PICK next : next = [w EXCEPT !.stage = "embed", !.row = None]
    OBVIOUS
  <2>2. /\ next \in Work
        /\ next.doc = w.doc /\ next.old = w.old /\ next.target = w.target
        /\ next.stage = "embed" /\ next.row = None /\ next.next = w.next
    BY <1>1, <2>1, <1>99 DEF Work, Steps, Ingests!Insert, Ingests!At
  <2>3. work' = [work EXCEPT ![t] = next]
    BY <1>1, <2>1 DEF Ingests!Insert, Ingests!Go
  <2>4. Threat(R, next)
    BY <1>1, <1>98, <2>2 DEF Threat, Ingests!Insert, Ingests!At
  <2>5. w.doc \notin touched => Fresh(R, next)'
    BY <1>1, <1>99, <1>98, <2>2, <2>3 DEF Fresh, Early, Writing, Last, IngestTypes, Ingests!Insert, Ingests!At, Ingests!stores, Ingests!history
  <2>6. /\ docs' \in [Copies -> Paper \cup {None}] /\ chunks' \subseteq Copies /\ vectors' \subseteq Copies
        /\ Spares(t, w)
        /\ UNCHANGED <<used, born, touched>>
    BY <1>1, <1>99, <1>98 DEF IngestTypes, Spares, Work, Ingests!Insert, Ingests!At, Ingests!stores, Ingests!history
  <2>7. w.doc \in born \ touched /\ Last(R, w.doc) /\ Ingests!Found(w.doc) => Ingests!Found(w.doc)'
    BY <1>1, <1>99, <1>98 DEF Fresh, Early, Writing, Ingests!Found, Ingests!Active, Ingests!Insert, Ingests!At, Ingests!stores, Ingests!history
  <2> QED
    BY <1>99, <2>2, <2>3, <2>4, <2>5, <2>6, <2>7, IngestMoves
<1>2. ASSUME Ingests!Embed(t) PROVE Ingesting(R)'
  <2>1. PICK next : next = [w EXCEPT !.stage = "store"]
    OBVIOUS
  <2>2. /\ next \in Work
        /\ next.doc = w.doc /\ next.old = w.old /\ next.target = w.target
        /\ next.stage = "store" /\ next.row = w.row /\ next.next = w.next
    BY <1>2, <2>1, <1>99 DEF Work, Steps, Ingests!Embed, Ingests!At
  <2>3. work' = [work EXCEPT ![t] = next]
    BY <1>2, <2>1 DEF Ingests!Embed, Ingests!Go
  <2>4. Threat(R, next)
    BY <1>2, <1>98, <2>2 DEF Threat, Ingests!Embed, Ingests!At
  <2>5. w.doc \notin touched => Fresh(R, next)'
    BY <1>2, <1>99, <1>98, <2>2, <2>3 DEF Fresh, Early, Writing, Last, IngestTypes, Ingests!Embed, Ingests!At, Ingests!stores, Ingests!history
  <2>6. /\ docs' \in [Copies -> Paper \cup {None}] /\ chunks' \subseteq Copies /\ vectors' \subseteq Copies
        /\ Spares(t, w)
        /\ UNCHANGED <<used, born, touched>>
    BY <1>2, <1>99, <1>98 DEF IngestTypes, Spares, Work, Ingests!Embed, Ingests!At, Ingests!stores, Ingests!history
  <2>7. w.doc \in born \ touched /\ Last(R, w.doc) /\ Ingests!Found(w.doc) => Ingests!Found(w.doc)'
    BY <1>2, <1>99, <1>98 DEF Fresh, Early, Writing, Ingests!Found, Ingests!Active, Ingests!Embed, Ingests!At, Ingests!stores, Ingests!history
  <2> QED
    BY <1>99, <2>2, <2>3, <2>4, <2>5, <2>6, <2>7, IngestMoves
<1>3. ASSUME Ingests!StoreChunks(t) PROVE Ingesting(R)'
  <2>1. PICK next : next = [w EXCEPT !.stage = "activate"]
    OBVIOUS
  <2>2. /\ next \in Work
        /\ next.doc = w.doc /\ next.old = w.old /\ next.target = w.target
        /\ next.stage = "activate" /\ next.row = w.row /\ next.next = w.next
    BY <1>3, <2>1, <1>99 DEF Work, Steps, Ingests!StoreChunks, Ingests!At
  <2>3. work' = [work EXCEPT ![t] = next]
    BY <1>3, <2>1 DEF Ingests!StoreChunks, Ingests!Go
  <2>4. Threat(R, next)
    BY <1>3, <1>98, <2>2 DEF Threat, Ingests!StoreChunks, Ingests!At
  <2>5. w.doc \notin touched => Fresh(R, next)'
    BY <1>3, <1>99, <1>98, <2>2, <2>3 DEF Fresh, Early, Writing, Last, IngestTypes, Ingests!StoreChunks, Ingests!At, Ingests!stores, Ingests!history
  <2>6. /\ docs' \in [Copies -> Paper \cup {None}] /\ chunks' \subseteq Copies /\ vectors' \subseteq Copies
        /\ Spares(t, w)
        /\ UNCHANGED <<used, born, touched>>
    BY <1>3, <1>99, <1>98 DEF IngestTypes, Spares, Work, Ingests!StoreChunks, Ingests!At, Ingests!stores, Ingests!history
  <2>7. w.doc \in born \ touched /\ Last(R, w.doc) /\ Ingests!Found(w.doc) => Ingests!Found(w.doc)'
    BY <1>3, <1>99, <1>98 DEF Fresh, Early, Writing, Ingests!Found, Ingests!Active, Ingests!StoreChunks, Ingests!At, Ingests!stores, Ingests!history
  <2> QED
    BY <1>99, <2>2, <2>3, <2>4, <2>5, <2>6, <2>7, IngestMoves
<1>4. ASSUME Ingests!CleanVectors(t) PROVE Ingesting(R)'
  <2>1. PICK next : next = [w EXCEPT !.stage = "clean_chunks"]
    OBVIOUS
  <2>2. /\ next \in Work
        /\ next.doc = w.doc /\ next.old = w.old /\ next.target = w.target
        /\ next.stage = "clean_chunks" /\ next.row = w.row /\ next.next = w.next
    BY <1>4, <2>1, <1>99 DEF Work, Steps, Ingests!CleanVectors, Ingests!At
  <2>3. work' = [work EXCEPT ![t] = next]
    BY <1>4, <2>1 DEF Ingests!CleanVectors, Ingests!Go
  <2>4. Threat(R, next)
    BY <1>4, <1>98, <2>2 DEF Threat, Ingests!CleanVectors, Ingests!At
  <2>5. w.doc \notin touched => Fresh(R, next)'
    BY <1>4, <1>99, <1>98, <2>2, <2>3 DEF Fresh, Early, Writing, Last, IngestTypes, Ingests!CleanVectors, Ingests!At, Ingests!stores, Ingests!history
  <2>6. /\ docs' \in [Copies -> Paper \cup {None}] /\ chunks' \subseteq Copies /\ vectors' \subseteq Copies
        /\ Spares(t, w)
        /\ UNCHANGED <<used, born, touched>>
    BY <1>4, <1>99, <1>98 DEF IngestTypes, Spares, Work, Ingests!CleanVectors, Ingests!At, Ingests!stores, Ingests!history
  <2>7. w.doc \in born \ touched /\ Last(R, w.doc) /\ Ingests!Found(w.doc) => Ingests!Found(w.doc)'
    BY <1>4, <1>99, <1>98 DEF Fresh, Early, Writing, Ingests!Found, Ingests!Active, Ingests!CleanVectors, Ingests!At, Ingests!stores, Ingests!history
  <2> QED
    BY <1>99, <2>2, <2>3, <2>4, <2>5, <2>6, <2>7, IngestMoves
<1>5. ASSUME Ingests!CleanChunks(t) PROVE Ingesting(R)'
  <2>1. PICK next : next = [w EXCEPT !.stage = "clean_row"]
    OBVIOUS
  <2>2. /\ next \in Work
        /\ next.doc = w.doc /\ next.old = w.old /\ next.target = w.target
        /\ next.stage = "clean_row" /\ next.row = w.row /\ next.next = w.next
    BY <1>5, <2>1, <1>99 DEF Work, Steps, Ingests!CleanChunks, Ingests!At
  <2>3. work' = [work EXCEPT ![t] = next]
    BY <1>5, <2>1 DEF Ingests!CleanChunks, Ingests!Go
  <2>4. Threat(R, next)
    BY <1>5, <1>98, <2>2 DEF Threat, Ingests!CleanChunks, Ingests!At
  <2>5. w.doc \notin touched => Fresh(R, next)'
    BY <1>5, <1>99, <1>98, <2>2, <2>3 DEF Fresh, Early, Writing, Last, IngestTypes, Ingests!CleanChunks, Ingests!At, Ingests!stores, Ingests!history
  <2>6. /\ docs' \in [Copies -> Paper \cup {None}] /\ chunks' \subseteq Copies /\ vectors' \subseteq Copies
        /\ Spares(t, w)
        /\ UNCHANGED <<used, born, touched>>
    BY <1>5, <1>99, <1>98 DEF IngestTypes, Spares, Work, Ingests!CleanChunks, Ingests!At, Ingests!stores, Ingests!history
  <2>7. w.doc \in born \ touched /\ Last(R, w.doc) /\ Ingests!Found(w.doc) => Ingests!Found(w.doc)'
    BY <1>5, <1>99, <1>98 DEF Fresh, Early, Writing, Ingests!Found, Ingests!Active, Ingests!CleanChunks, Ingests!At, Ingests!stores, Ingests!history
  <2> QED
    BY <1>99, <2>2, <2>3, <2>4, <2>5, <2>6, <2>7, IngestMoves
<1>6. ASSUME Ingests!Reembed(t) PROVE Ingesting(R)'
  <2>1. PICK next : next = [w EXCEPT !.stage = "refresh"]
    OBVIOUS
  <2>2. /\ next \in Work
        /\ next.doc = w.doc /\ next.old = w.old /\ next.target = w.target
        /\ next.stage = "refresh" /\ next.row = w.row /\ next.next = w.next
    BY <1>6, <2>1, <1>99 DEF Work, Steps, Ingests!Reembed, Ingests!At
  <2>3. work' = [work EXCEPT ![t] = next]
    BY <1>6, <2>1 DEF Ingests!Reembed, Ingests!Go
  <2>4. Threat(R, next)
    BY <1>6, <1>98, <2>2 DEF Threat, Ingests!Reembed, Ingests!At
  <2>5. w.doc \notin touched => Fresh(R, next)'
    BY <1>6, <1>99, <1>98, <2>2, <2>3 DEF Fresh, Early, Writing, Last, IngestTypes, Ingests!Reembed, Ingests!At, Ingests!stores, Ingests!history
  <2>6. /\ docs' \in [Copies -> Paper \cup {None}] /\ chunks' \subseteq Copies /\ vectors' \subseteq Copies
        /\ Spares(t, w)
        /\ UNCHANGED <<used, born, touched>>
    BY <1>6, <1>99, <1>98 DEF IngestTypes, Spares, Work, Ingests!Reembed, Ingests!At, Ingests!stores, Ingests!history
  <2>7. w.doc \in born \ touched /\ Last(R, w.doc) /\ Ingests!Found(w.doc) => Ingests!Found(w.doc)'
    BY <1>6, <1>99, <1>98 DEF Fresh, Early, Writing, Ingests!Found, Ingests!Active, Ingests!Reembed, Ingests!At, Ingests!stores, Ingests!history
  <2> QED
    BY <1>99, <2>2, <2>3, <2>4, <2>5, <2>6, <2>7, IngestMoves
<1>7. ASSUME Ingests!Unindex(t) PROVE Ingesting(R)'
  <2>1. PICK next : next = [w EXCEPT !.old = w.old \ {w.target}, !.target = None, !.stage = IF w.target = w.doc THEN "done" ELSE "archive"]
    OBVIOUS
  <2>2. /\ next \in Work
        /\ next.doc = w.doc /\ next.old = w.old \ {w.target} /\ next.target = None
        /\ next.stage = (IF w.target = w.doc THEN "done" ELSE "archive") /\ next.row = w.row /\ next.next = w.next
    BY <1>7, <2>1, <1>99 DEF Work, Steps, Ingests!Unindex, Ingests!At
  <2>3. work' = [work EXCEPT ![t] = next]
    BY <1>7, <2>1 DEF Ingests!Unindex, Ingests!Go
  <2>4. Threat(R, next)
    BY <1>7, <1>98, <2>2 DEF Threat, Ingests!Unindex, Ingests!At
  <2>5. w.doc \notin touched => Fresh(R, next)'
    BY <1>7, <1>99, <1>98, <2>2, <2>3 DEF Fresh, Early, Writing, Last, IngestTypes, Ingests!Unindex, Ingests!At, Ingests!stores, Ingests!history
  <2>6. /\ docs' \in [Copies -> Paper \cup {None}] /\ chunks' \subseteq Copies /\ vectors' \subseteq Copies
        /\ Spares(t, w)
        /\ UNCHANGED <<used, born, touched>>
    BY <1>7, <1>99, <1>98 DEF IngestTypes, Spares, Work, Ingests!Unindex, Ingests!At, Ingests!stores, Ingests!history
  <2>7. w.doc \in born \ touched /\ Last(R, w.doc) /\ Ingests!Found(w.doc) => Ingests!Found(w.doc)'
    BY <1>7, <1>99, <1>98 DEF Fresh, Early, Writing, Ingests!Found, Ingests!Active, Ingests!Unindex, Ingests!At, Ingests!stores, Ingests!history
  <2> QED
    BY <1>99, <2>2, <2>3, <2>4, <2>5, <2>6, <2>7, IngestMoves
<1>8. ASSUME Ingests!Write(t) PROVE Ingesting(R)'
  <2>1. w.stage = "write"
    BY <1>8 DEF Ingests!Write, Ingests!At
  <2>2. /\ w.next \in {"ready", "done", "unindex", "reindex"}
        /\ w.row \in Paper /\ w.target \in Copies
        /\ w.target = w.doc \/ (w.target \in w.old /\ w.doc \in born)
    <3>1. /\ w.next \in {"ready", "done", "unindex", "reindex"} /\ w.row # None
          /\ w.target = w.doc \/ (w.target \in w.old /\ w.doc \in born)
      BY <1>98, <2>1 DEF Threat
    <3>2. w.row \in Paper \cup {None}
      BY DEF Work
    <3> QED
      BY <1>99, <3>1, <3>2
  <2>3. PICK next : next = [w EXCEPT !.stage = w.next, !.row = None, !.next = None]
    OBVIOUS
  <2>4. /\ next \in Work
        /\ next.doc = w.doc /\ next.old = w.old /\ next.target = w.target /\ next.stage = w.next
    BY <2>2, <2>3 DEF Work, Steps
  <2>5. /\ work' = [work EXCEPT ![t] = next] /\ docs' = [docs EXCEPT ![w.target] = w.row]
        /\ UNCHANGED <<chunks, vectors, used, born, touched>>
    BY <1>8, <2>3 DEF Ingests!Write, Ingests!stores, Ingests!history
  <2>6. Threat(R, next)
    BY <1>98, <2>1, <2>2, <2>4 DEF Threat
  <2>7. w.doc \notin touched => Fresh(R, next)'
    BY <1>98, <1>99, <2>1, <2>2, <2>4, <2>5
    DEF Fresh, Threat, Early, Writing, Last, IngestTypes, Ingests!Found, Ingests!Active, NoneIsNoWork
  <2>8. docs' \in [Copies -> Paper \cup {None}] /\ Spares(t, w)
    BY <1>99, <2>2, <2>5 DEF IngestTypes, Spares
  <2>9. w.doc \in born \ touched /\ Last(R, w.doc) /\ Ingests!Found(w.doc) => Ingests!Found(w.doc)'
    BY <1>98, <1>99, <2>1, <2>2, <2>5
    DEF Fresh, Threat, Early, Writing, IngestTypes, Ingests!Found, Ingests!Active, NoneIsNoWork
  <2> QED
    BY <1>99, <2>4, <2>5, <2>6, <2>7, <2>8, <2>9, IngestMoves DEF IngestTypes
<1>9. ASSUME Ingests!Activate(t) PROVE Ingesting(R)'
  <2>1. w.stage = "activate" /\ Ingests!Read(t, w.doc, "active", "ready")
    BY <1>9 DEF Ingests!Activate, Ingests!At
  <2>2. PICK next \in Work : ReadOf(t, w, w.doc, "active", "ready", next)
    BY <1>99, <2>1, ReadMoves DEF Steps
  <2>3. Threat(R, next)
    BY <1>98, <2>2 DEF Threat, ReadOf
  <2>4. w.doc \notin touched => Fresh(R, next)'
    BY <1>98, <1>99, <2>1, <2>2 DEF Fresh, Early, Writing, Last, ReadOf
  <2> QED
    BY <1>99, <2>2, <2>3, <2>4, ReadKeeps DEF ReadOf
<1>10. ASSUME NEW e \in Copies, Ingests!Archive(t, e) PROVE Ingesting(R)'
  <2>1. w.stage = "archive" /\ e \in w.old /\ e # w.doc /\ Ingests!Read(t, e, "archived", "unindex")
    BY <1>10, <1>98 DEF Ingests!Archive, Ingests!At, Ingesting, Ordered, InOrder, Threat
  <2>2. PICK next \in Work : ReadOf(t, w, e, "archived", "unindex", next)
    BY <1>99, <2>1, ReadMoves DEF Steps
  <2>3. Threat(R, next)
    BY <1>98, <2>1, <2>2 DEF Threat, ReadOf
  <2>4. w.doc \notin touched => Fresh(R, next)'
    BY <1>98, <1>99, <2>1, <2>2 DEF Fresh, Early, Writing, Last, ReadOf
  <2> QED
    BY <1>99, <2>2, <2>3, <2>4, ReadKeeps DEF ReadOf
<1>11. ASSUME Ingests!Rename(t) PROVE Ingesting(R)'
  <2>1. /\ w.stage = "archive" /\ docs[w.doc] # None
        /\ Ingests!Read(t, w.doc, docs[w.doc].status, "done")
    BY <1>11 DEF Ingests!Rename, Ingests!At
  <2>2. PICK next \in Work : ReadOf(t, w, w.doc, docs[w.doc].status, "done", next)
    BY <1>99, <2>1, ReadMoves DEF Steps, IngestTypes, Paper
  <2>3. Threat(R, next)
    BY <1>98, <2>1, <2>2 DEF Threat, ReadOf
  <2>4. w.doc \notin touched => Fresh(R, next)'
    <3> SUFFICES ASSUME w.doc \notin touched PROVE Fresh(R, next)'
      OBVIOUS
    <3>1. w.doc \in born /\ (Last(R, w.doc) => docs[w.doc].status = "active")
      BY <1>98, <2>1 DEF Threat, Ingesting, Ordered, Served, Ingests!Found, Ingests!Active
    <3> QED
      BY <1>98, <1>99, <2>1, <2>2, <3>1 DEF Fresh, Early, Writing, Last, ReadOf
  <2> QED
    BY <1>99, <2>2, <2>3, <2>4, ReadKeeps DEF ReadOf
<1>12. ASSUME Ingests!Refresh(t) PROVE Ingesting(R)'
  <2>1. /\ w.stage = "refresh" /\ docs[w.doc] # None
        /\ Ingests!Read(t, w.doc, docs[w.doc].status, "done")
    BY <1>12 DEF Ingests!Refresh, Ingests!At
  <2>2. PICK next \in Work : ReadOf(t, w, w.doc, docs[w.doc].status, "done", next)
    BY <1>99, <2>1, ReadMoves DEF Steps, IngestTypes, Paper
  <2>3. Threat(R, next) /\ w.doc \in touched
    BY <1>98, <2>1, <2>2 DEF Threat, Fresh, ReadOf
  <2> QED
    BY <1>99, <2>2, <2>3, ReadKeeps DEF ReadOf
<1>13. ASSUME Ingests!FailIngest(t) PROVE Ingesting(R)'
  <2>1. PICK next : next = Ingests!Job(w.doc, "clean", None)
    OBVIOUS
  <2>2. next \in Work /\ next.doc = w.doc /\ next.stage = "clean" /\ next.old = {}
    BY <1>99, <2>1 DEF Work, Steps, Ingests!Job
  <2>3. /\ work' = [work EXCEPT ![t] = next]
        /\ UNCHANGED <<docs, chunks, vectors, used, born, touched>>
        /\ w.stage = "ready" \/ Early(w)
    BY <1>13, <2>1 DEF Ingests!FailIngest, Ingests!At, Ingests!stores, Ingests!history, Early, Writing
  <2>4. Threat(R, next)
    BY <1>98, <2>2 DEF Threat
  <2>5. w.doc \notin touched => Fresh(R, next)'
    BY <1>98, <2>2, <2>3 DEF Fresh, Early, Writing
  <2> QED
    BY <1>99, <2>2, <2>3, <2>4, <2>5, IngestMoves
    DEF Ingesting, IngestTypes, Spares, Ingests!Found, Ingests!Active
<1>14. ASSUME Ingests!CleanRow(t) PROVE Ingesting(R)'
  <2>1. /\ work' = [work EXCEPT ![t] = None] /\ docs' = [docs EXCEPT ![w.doc] = None]
        /\ UNCHANGED <<chunks, vectors, used, born, touched>> /\ w.stage = "clean_row"
    BY <1>14 DEF Ingests!CleanRow, Ingests!Done, Ingests!At, Ingests!stores, Ingests!history
  <2>2. w.doc \notin born \ touched
    BY <1>98, <2>1 DEF Fresh
  <2> QED
    BY <1>99, <2>1, <2>2, IngestMoves DEF IngestTypes, Spares
<1>15. ASSUME Ingests!Reindex(t) PROVE Ingesting(R)'
  <2>1. /\ UNCHANGED <<docs, chunks, used, born, touched>> /\ w.stage = "reindex"
        /\ w.doc \in touched
    BY <1>15, <1>98 DEF Ingests!Reindex, Ingests!At, Ingests!history, Fresh
  <2>2. CASE w.doc \in chunks
    <3>1. PICK next : next = [w EXCEPT !.stage = "reembed"]
      OBVIOUS
    <3>2. /\ next \in Work /\ next.doc = w.doc /\ next.old = w.old /\ next.stage = "reembed"
      BY <3>1 DEF Work, Steps
    <3>3. work' = [work EXCEPT ![t] = next] /\ vectors' = vectors \ {w.doc}
      BY <1>15, <2>2, <3>1 DEF Ingests!Reindex, Ingests!Go
    <3>4. Threat(R, next)
      BY <1>98, <3>2 DEF Threat
    <3> QED
      BY <1>99, <2>1, <3>2, <3>3, <3>4, IngestMoves DEF IngestTypes, Spares
  <2>3. CASE w.doc \notin chunks
    <3>1. work' = [work EXCEPT ![t] = None] /\ vectors' = vectors
      BY <1>15, <2>3 DEF Ingests!Reindex, Ingests!Done
    <3> QED
      BY <1>99, <2>1, <3>1, IngestMoves DEF IngestTypes, Spares
  <2> QED
    BY <2>2, <2>3
<1>16. ASSUME Ingests!Leave(t) PROVE Ingesting(R)'
  <2>1. work' = [work EXCEPT ![t] = None] /\ UNCHANGED <<docs, chunks, vectors, used, born, touched>>
    BY <1>16 DEF Ingests!Leave, Ingests!Done, Ingests!stores, Ingests!history
  <2> QED
    BY <1>99, <2>1, ReadKeeps
<1> QED
  BY <1>1, <1>2, <1>3, <1>4, <1>5, <1>6, <1>7, <1>8, <1>9, <1>10, <1>11, <1>12, <1>13, <1>14, <1>15, <1>16
  DEF IngestTask

LEMMA IngestStarts ==
  ASSUME NoneIsNoWork, NEW R, Ingesting(R), NEW t \in Tasks, NEW d \in Copies, NEW f \in Files,
         Ingests!StartIngest(t, d, f)
  PROVE  IngestInv'
<1>1. PICK row : row = [file |-> f, status |-> "indexing"]
  OBVIOUS
<1>2. PICK next : next = [Ingests!Job(d, "insert", None) EXCEPT !.old = {e \in Copies : Ingests!Active(e)}, !.row = row]
  OBVIOUS
<1>3. row \in Paper /\ row # None /\ row.status = "indexing"
  BY <1>1 DEF Paper, NoneIsNoWork
<1>4. /\ next \in Work /\ next.doc = d /\ next.stage = "insert" /\ next.row = row
      /\ next.old = {e \in Copies : Ingests!Active(e)}
  BY <1>2, <1>3 DEF Ingests!Job, Work, Steps
<1>5. /\ work[t] = None /\ d \notin used /\ work' = [work EXCEPT ![t] = next] /\ used' = used \cup {d}
      /\ UNCHANGED <<docs, chunks, vectors, born, touched>>
  BY <1>1, <1>2 DEF Ingests!StartIngest, Ingests!stores
<1>6. IngestTypes /\ docs[d] = None /\ next.old \subseteq used
  BY <1>4, <1>5 DEF Ingesting, IngestTypes, Ingests!Active
<1>7. IngestTypes'
  BY <1>4, <1>5, <1>6 DEF IngestTypes
<1>8. \A u \in Tasks : work[u] # None => work[u].doc \in used /\ work[u].doc # d
  BY <1>5 DEF Ingesting, Ordered, Threat
<1>9. Alone'
  BY <1>4, <1>5, <1>6, <1>8 DEF Ingesting, Alone, IngestTypes
<1>17. PICK S : S = R \cup (used \X {d})
  OBVIOUS
<1>0. R \subseteq used \X used /\ InOrder(R)
  BY DEF Ingesting, Ordered, InOrder
<1>10. /\ \A e \in used : <<e, d>> \in S /\ <<d, e>> \notin S
       /\ <<d, d>> \notin S
       /\ \A e, g \in used : <<e, g>> \in S <=> <<e, g>> \in R
       /\ S \subseteq (used \cup {d}) \X (used \cup {d})
  <2>1. \A e \in used : <<e, d>> \in S /\ <<d, e>> \notin S
    BY <1>0, <1>5, <1>17
  <2>2. <<d, d>> \notin S
    BY <1>0, <1>5, <1>17
  <2>3. \A e, g \in used : <<e, g>> \in S <=> <<e, g>> \in R
    BY <1>0, <1>5, <1>17
  <2>4. S \subseteq (used \cup {d}) \X (used \cup {d})
    BY <1>0, <1>17
  <2> QED
    BY <2>1, <2>2, <2>3, <2>4
<1>11. InOrder(S)'
  <2>1. \A e \in used' : <<e, e>> \notin S
    BY <1>0, <1>5, <1>10 DEF InOrder
  <2>2. \A e, g \in used' : e = g \/ <<e, g>> \in S \/ <<g, e>> \in S
    BY <1>0, <1>5, <1>10 DEF InOrder
  <2>3. ASSUME NEW e \in used', NEW g \in used', NEW h \in used', <<e, g>> \in S, <<g, h>> \in S
        PROVE  <<e, h>> \in S
    <3>1. e # d /\ g # d
      BY <1>5, <1>10, <2>3
    <3>2. CASE h = d
      BY <1>5, <1>10, <3>1, <3>2
    <3>3. CASE h # d
      BY <1>0, <1>5, <1>10, <2>3, <3>1, <3>3 DEF InOrder
    <3> QED
      BY <3>2, <3>3
  <2> QED
    BY <1>5, <1>10, <2>1, <2>2, <2>3 DEF InOrder
<1>12. \A e \in used : Last(S, e)' = Last(R, e)
  BY <1>5, <1>6, <1>10 DEF Last, IngestTypes
<1>13. Served(S)'
  BY <1>5, <1>6, <1>12 DEF Ingesting, Ordered, Served, IngestTypes, Ingests!Found, Ingests!Active
<1>14. Threat(S, next)' /\ Fresh(S, next)'
  <2>1. d \notin born /\ \A u \in Tasks : work'[u] # None => d \notin work'[u].old
    <3>1. \A u \in Tasks : work[u] # None => work[u].old \subseteq used
      BY <1>0 DEF Ingesting, Ordered, Threat
    <3> QED
      BY <1>4, <1>5, <1>6, <3>1 DEF IngestTypes
  <2>2. Threat(S, next)'
    BY <1>4, <1>5, <1>6, <1>10 DEF Threat
  <2>3. Fresh(S, next)'
    BY <1>3, <1>4, <1>5, <1>6, <2>1 DEF Fresh, Early, Writing
  <2> QED
    BY <2>2, <2>3
<1>15. ASSUME NEW u \in Tasks \ {t}, work[u] # None
       PROVE  (Threat(S, work[u]) /\ (work[u].doc \notin touched => Fresh(S, work[u])))'
  <2>1. PICK other \in Work : work[u] = other /\ work'[u] = other /\ other.doc \in used /\ other.doc # d
    BY <1>5, <1>6, <1>8, <1>15 DEF IngestTypes
  <2>2. Threat(S, other)'
    BY <1>5, <1>15, <1>17, <2>1 DEF Ingesting, Ordered, Threat
  <2>3. ASSUME other.doc \notin touched PROVE Fresh(S, other)'
    <3>1. Fresh(R, other)
      BY <1>15, <2>1, <2>3 DEF Ingesting, Ordered
    <3>2. Early(other) => other.doc \notin next.old
      <4>1. Early(other) => docs[other.doc] = None \/ docs[other.doc].status = "indexing"
        BY <3>1 DEF Fresh, Early, Writing
      <4> QED
        BY <1>4, <4>1 DEF Ingests!Active
    <3>3. Early(other) => \A v \in Tasks : work'[v] # None => other.doc \notin work'[v].old
      BY <1>5, <1>6, <3>1, <3>2 DEF Fresh, IngestTypes
    <3>4. Last(S, other.doc)' = Last(R, other.doc) /\ Ingests!Found(other.doc)' = Ingests!Found(other.doc)
      BY <1>5, <1>12, <2>1 DEF Ingests!Found, Ingests!Active
    <3> QED
      BY <1>5, <3>1, <3>3, <3>4 DEF Fresh, Early, Writing
  <2> QED
    BY <1>5, <2>1, <2>2, <2>3
<1>16. Ordered(S)'
  <2>1. ASSUME NEW u \in Tasks, work'[u] # None
        PROVE  (Threat(S, work[u]) /\ (work[u].doc \notin touched => Fresh(S, work[u])))'
    <3>1. CASE u = t
      BY <1>5, <1>6, <1>14, <3>1 DEF IngestTypes
    <3>2. CASE u # t
      BY <1>5, <1>6, <1>15, <2>1, <3>2 DEF IngestTypes
    <3> QED
      BY <3>1, <3>2
  <2> QED
    BY <1>11, <1>13, <2>1 DEF Ordered
<1> QED
  BY <1>7, <1>9, <1>16 DEF IngestInv, Ingesting

LEMMA IngestBears ==
  ASSUME NoneIsNoWork, NEW R, Ingesting(R), NEW t \in Tasks, Ingests!Ready(t)
  PROVE  Ingesting(R)'
<1>1. PICK w \in Work : work[t] = w /\ w # None /\ w.stage = "ready" /\ w.doc \in Copies
  BY DEF Ingests!Ready, Ingests!At, Ingesting, IngestTypes, Work
<1>2. PICK next : next = [w EXCEPT !.stage = "archive", !.old = w.old]
  OBVIOUS
<1>3. /\ next \in Work /\ next.doc = w.doc /\ next.old = w.old /\ next.stage = "archive"
  BY <1>2 DEF Work, Steps
<1>4. /\ work' = [work EXCEPT ![t] = next] /\ born' = born \cup {w.doc}
      /\ UNCHANGED <<docs, chunks, vectors, used, touched>>
  BY <1>1, <1>2 DEF Ingests!Ready, Ingests!Superseded, Ingests!stores
<1>5. /\ IngestTypes /\ InOrder(R) /\ Threat(R, w) /\ w.doc \in used
      /\ w.doc \notin touched => Fresh(R, w)
  BY <1>1 DEF Ingesting, Ordered, Threat
<1>6. IngestTypes' /\ InOrder(R)'
  BY <1>3, <1>4, <1>5 DEF IngestTypes, InOrder
<1>7. Alone'
  BY <1>1, <1>3, <1>4, <1>5 DEF Ingesting, Alone, IngestTypes
<1>8. ASSUME NEW d \in born, Last(R, d)
      PROVE  IF <<d, w.doc>> \in R THEN Last(R, w.doc)' ELSE Last(R, d)'
  BY <1>4, <1>5, <1>8 DEF Last, InOrder, IngestTypes
<1>9. Served(R)'
  <2>1. \E d \in born' : Last(R, d)'
    <3>1. CASE born = {}
      BY <1>4, <1>5, <3>1 DEF Last, InOrder
    <3>2. CASE born # {}
      <4>1. PICK d \in born : Last(R, d)
        BY <3>2 DEF Ingesting, Ordered, Served
      <4> QED
        BY <1>4, <1>8, <4>1
    <3> QED
      BY <3>1, <3>2
  <2>2. ASSUME NEW d \in born' \ touched, Last(R, d)' PROVE Ingests!Found(d)'
    <3>1. Last(R, d)
      BY <1>4, <2>2 DEF Last
    <3>2. CASE d \in born
      BY <1>4, <2>2, <3>1, <3>2 DEF Ingesting, Ordered, Served, Ingests!Found, Ingests!Active
    <3>3. CASE d = w.doc
      BY <1>1, <1>4, <1>5, <2>2, <3>1, <3>3 DEF Fresh, Ingests!Found, Ingests!Active
    <3> QED
      BY <1>4, <3>2, <3>3
  <2> QED
    BY <1>4, <2>1, <2>2 DEF Served
<1>10. ASSUME NEW u \in Tasks, work'[u] # None
       PROVE  (Threat(R, work[u]) /\ (work[u].doc \notin touched => Fresh(R, work[u])))'
  <2>1. CASE u = t
    <3>1. Threat(R, next)'
      BY <1>3, <1>4, <1>5 DEF Threat
    <3>2. Fresh(R, next)'
      BY <1>3 DEF Fresh, Early, Writing
    <3> QED
      BY <1>4, <1>5, <2>1, <3>1, <3>2 DEF IngestTypes
  <2>2. CASE u # t
    <3>1. PICK other \in Work : work[u] = other /\ work'[u] = other /\ other # None
      BY <1>4, <1>5, <1>10, <2>2 DEF IngestTypes
    <3>2. Threat(R, other)'
      BY <1>4, <3>1 DEF Ingesting, Ordered, Threat
    <3>3. ASSUME other.doc \notin touched PROVE Fresh(R, other)'
      <4>1. Fresh(R, other) /\ other.doc # w.doc
        BY <1>1, <2>2, <3>1, <3>3 DEF Ingesting, Ordered, Alone
      <4>2. Early(other) => \A v \in Tasks : work'[v] # None => other.doc \notin work'[v].old
        <5>1. Early(other) => \A v \in Tasks : work[v] # None => other.doc \notin work[v].old
          BY <4>1 DEF Fresh
        <5> QED
          BY <1>1, <1>3, <1>4, <1>5, <5>1 DEF IngestTypes
      <4>3. Last(R, other.doc)' => Last(R, other.doc)
        BY <1>4 DEF Last
      <4>4. Ingests!Found(other.doc)' = Ingests!Found(other.doc)
        BY <1>4 DEF Ingests!Found, Ingests!Active
      <4> QED
        BY <1>4, <4>1, <4>2, <4>3, <4>4 DEF Fresh, Early, Writing
    <3> QED
      BY <1>4, <3>1, <3>2, <3>3
  <2> QED
    BY <2>1, <2>2
<1> QED
  BY <1>6, <1>7, <1>9, <1>10 DEF Ingesting, Ordered

LEMMA IngestTouched ==
  ASSUME NoneIsNoWork, NEW R, Ingesting(R), NEW t \in Tasks, NEW d \in Copies,
         NEW status \in {"active", "archived", "deleted"}, Ingests!SetStatus(t, d, status)
  PROVE  Ingesting(R)'
<1>1. PICK row : row = [docs[d] EXCEPT !.status = status]
  OBVIOUS
<1>2. PICK next : next = [Ingests!Job(d, "write", IF status = "active" THEN "reindex" ELSE "unindex")
                            EXCEPT !.target = d, !.row = row]
  OBVIOUS
<1>3. /\ work[t] = None /\ docs[d] # None /\ work' = [work EXCEPT ![t] = next]
      /\ touched' = touched \cup {d} /\ UNCHANGED <<docs, chunks, vectors, used, born>>
  BY <1>1, <1>2 DEF Ingests!SetStatus, Ingests!stores
<1>4. row \in Paper /\ row # None /\ IngestTypes /\ d \in used
  BY <1>1, <1>3 DEF Ingesting, IngestTypes, Paper, NoneIsNoWork
<1>5. /\ next \in Work /\ next.doc = d /\ next.stage = "write" /\ next.row = row /\ next.old = {}
      /\ next.target = d /\ next.next \in {"reindex", "unindex"}
  BY <1>2, <1>4 DEF Ingests!Job, Work, Steps
<1>6. IngestTypes' /\ InOrder(R)' /\ Threat(R, next)'
  BY <1>3, <1>4, <1>5 DEF Ingesting, Ordered, IngestTypes, InOrder, Threat
<1>7. Alone'
  BY <1>3, <1>4, <1>5 DEF Ingesting, Alone, IngestTypes
<1>8. Served(R)'
  BY <1>3 DEF Ingesting, Ordered, Served, Last, Ingests!Found, Ingests!Active
<1>9. ASSUME NEW u \in Tasks, work'[u] # None
      PROVE  (Threat(R, work[u]) /\ (work[u].doc \notin touched => Fresh(R, work[u])))'
  <2>1. CASE u = t
    BY <1>3, <1>4, <1>5, <1>6, <2>1 DEF IngestTypes
  <2>2. CASE u # t
    <3>1. PICK other \in Work : work[u] = other /\ work'[u] = other /\ other # None
      BY <1>3, <1>4, <1>9, <2>2 DEF IngestTypes
    <3>2. Threat(R, other)'
      BY <1>3, <3>1 DEF Ingesting, Ordered, Threat
    <3>3. ASSUME other.doc \notin touched' PROVE Fresh(R, other)'
      <4>1. Fresh(R, other)
        BY <1>3, <3>1, <3>3 DEF Ingesting, Ordered
      <4>2. Early(other) => \A v \in Tasks : work'[v] # None => other.doc \notin work'[v].old
        <5>1. Early(other) => \A v \in Tasks : work[v] # None => other.doc \notin work[v].old
          BY <4>1 DEF Fresh
        <5> QED
          BY <1>3, <1>4, <1>5, <5>1 DEF IngestTypes
      <4>3. Ingests!Found(other.doc)' = Ingests!Found(other.doc) /\ Last(R, other.doc)' = Last(R, other.doc)
        BY <1>3 DEF Ingests!Found, Ingests!Active, Last
      <4> QED
        BY <1>3, <4>1, <4>2, <4>3 DEF Fresh, Early, Writing
    <3> QED
      BY <3>1, <3>2, <3>3
  <2> QED
    BY <2>1, <2>2
<1> QED
  BY <1>6, <1>7, <1>8, <1>9 DEF Ingesting, Ordered

LEMMA IngestSteps ==
  ASSUME NoneIsNoWork PROVE IngestInv /\ [Ingests!Next]_Ingests!vars => IngestInv'
<1> SUFFICES ASSUME NEW R, Ingesting(R), [Ingests!Next]_Ingests!vars PROVE IngestInv'
  BY DEF IngestInv
<1>1. ASSUME NEW t \in Tasks, IngestTask(t) PROVE IngestInv'
  <2>1. work[t] # None
    BY <1>1 DEF IngestTask, Ingests!Insert, Ingests!Embed, Ingests!StoreChunks, Ingests!Activate, Ingests!Write,
       Ingests!Unindex, Ingests!Rename, Ingests!FailIngest, Ingests!CleanVectors, Ingests!CleanChunks,
       Ingests!CleanRow, Ingests!Reindex, Ingests!Reembed, Ingests!Refresh, Ingests!Leave, Ingests!Archive,
       Ingests!At
  <2>2. PICK w \in Work : work[t] = w
    BY <2>1 DEF Ingesting, IngestTypes
  <2> QED
    BY <1>1, <2>2, IngestTasks DEF IngestInv
<1>2. CASE UNCHANGED Ingests!vars
  <2>1. UNCHANGED <<docs, chunks, vectors, work, used, born, touched>>
    BY <1>2 DEF Ingests!vars
  <2>2. IngestTypes' /\ Alone' /\ InOrder(R)'
    BY <2>1 DEF Ingesting, IngestTypes, Alone, Ordered, InOrder
  <2>3. Served(R)'
    BY <2>1 DEF Ingesting, Ordered, Served, Last, Ingests!Found, Ingests!Active
  <2>4. ASSUME NEW t \in Tasks, work[t] # None
        PROVE  (Threat(R, work[t]) /\ (work[t].doc \notin touched => Fresh(R, work[t])))'
    <3>1. Threat(R, work[t])'
      BY <2>1, <2>4 DEF Ingesting, Ordered, Threat
    <3>2. work[t].doc \notin touched => Fresh(R, work[t])'
      BY <2>1, <2>4 DEF Ingesting, Ordered, Fresh, Early, Writing, Last, Ingests!Found, Ingests!Active
    <3> QED
      BY <2>1, <3>1, <3>2
  <2> QED
    BY <2>1, <2>2, <2>3, <2>4 DEF IngestInv, Ingesting, Ordered
<1> QED
  BY <1>1, <1>2, IngestStarts, IngestBears, IngestTouched DEF Ingests!Next, IngestTask, IngestInv
-----------------------------------------------------------------------------
(* The conflicts between uploads (Relations).                               *)
Link == [from : Docs, to : Docs, type : {"reference", "conflict"}]
Before == {"ingest", "index", "activate"}
Late == {"enrich", "judge", "finish"}
Trip == [doc : Docs, at : Before \cup {"references", "search"} \cup Late, hits : SUBSET Docs, found : SUBSET Link]

NoneIsNoTrip == None \notin Trip \cup {"indexing", "active", "archived"}
CitesAreUploads == Cites \in [Docs -> SUBSET Docs]

UploadTypes ==
  /\ upload \in [Docs -> {"none", "queued", "running", "completed", "failed"}]
  /\ paper \in [Docs -> {"indexing", "active", "archived"} \cup {None}]
  /\ stored \subseteq Docs /\ ordered \subseteq Docs
  /\ worker \in [Processes -> Trip \cup {None}]

Alright(trip) ==
  /\ upload[trip.doc] = "running"
  /\ trip.at \in Before <=> paper[trip.doc] \notin {"active", "archived"}
  /\ trip.at = "activate" => trip.doc \in stored
  /\ trip.at = "finish" => trip.hits = {} /\ trip.found = {} /\ trip.doc \in ordered

\* A document is found once it is in force, and not before its upload was taken.
UploadsAgree ==
  /\ \A d \in Docs :
       /\ paper[d] = "active" => d \in stored
       /\ upload[d] \in {"none", "queued"} => paper[d] = None
       /\ upload[d] = "completed" => d \in ordered
  /\ \A w \in Processes : worker[w] # None => Alright(worker[w])
  /\ \A v, w \in Processes : worker[v] # None /\ worker[w] # None /\ v # w => worker[v].doc # worker[w].doc

\* Its comparison has looked at the vectors.
Past(d) ==
  upload[d] = "completed" \/ \E w \in Processes : worker[w] # None /\ worker[w].doc = d /\ worker[w].at \in Late

Bears(trip, e) == e \in trip.hits \/ Uploads!Related(trip.doc, e, "conflict") \in trip.found

Sees(d, e) ==
  \/ Uploads!Related(d, e, "conflict") \in relations
  \/ \E w \in Processes : worker[w] # None /\ worker[w].doc = d /\ Bears(worker[w], e)

\* Of two that both looked, the later one saw the other.
OneSees ==
  \A d, e \in Docs :
    Uploads!Differ(d, e) /\ Past(d) /\ Past(e) /\ paper[d] = "active" /\ paper[e] = "active"
      /\ d \notin unsure /\ e \notin unsure => Sees(d, e) \/ Sees(e, d)

UploadInv == UploadTypes /\ UploadsAgree /\ OneSees

\* A worker's own step: what it moves is the row of its job and its own trip.
LEMMA TripMoves ==
  ASSUME NoneIsNoTrip, UploadInv, NEW w \in Processes, NEW trip \in Trip, worker[w] = trip,
         NEW next \in Trip \cup {None}, worker' = [worker EXCEPT ![w] = next],
         NEW row \in {"running", "completed", "failed"}, upload' = [upload EXCEPT ![trip.doc] = row],
         UNCHANGED <<paper, stored>>,
         relations \subseteq relations', ordered \subseteq ordered', ordered' \subseteq Docs, unsure \subseteq unsure',
         next # None => next.doc = trip.doc /\ Alright(next)',
         row = "completed" => trip.doc \in ordered',
         \A e \in Docs :
           /\ Uploads!Differ(trip.doc, e) /\ Past(e) /\ paper[trip.doc] = "active" /\ paper[e] = "active"
           /\ trip.doc \notin unsure'
           /\ row = "completed" \/ (next # None /\ next.at \in Late)
           => \/ Uploads!Related(trip.doc, e, "conflict") \in relations'
              \/ next # None /\ Bears(next, e)
              \/ /\ trip.at \in Late
                 /\ Uploads!Related(trip.doc, e, "conflict") \notin relations /\ ~Bears(trip, e)
  PROVE  UploadInv'
<1> DEFINE d == trip.doc
<1> trip # None /\ d \in Docs
  BY DEF NoneIsNoTrip, Trip
<1>1. UploadTypes'
  BY DEF UploadInv, UploadTypes
<1>2. \A v \in Processes \ {w} : worker'[v] = worker[v] /\ (worker[v] # None => worker[v].doc # d)
  BY DEF UploadInv, UploadTypes, UploadsAgree
<1>3. \A e \in Docs \ {d} : upload'[e] = upload[e]
  BY DEF UploadInv, UploadTypes
<1>4. worker'[w] = next /\ upload'[d] = row
  BY DEF UploadInv, UploadTypes
<1>5. UploadsAgree'
  <2>1. ASSUME NEW v \in Processes, worker'[v] # None PROVE Alright(worker[v])'
    <3>1. CASE v = w
      BY <1>4, <2>1, <3>1
    <3>2. CASE v # w
      <4>1. PICK other \in Trip : worker[v] = other /\ worker'[v] = other /\ other.doc \in Docs \ {d}
        BY <1>2, <2>1, <3>2 DEF UploadInv, UploadTypes, Trip
      <4>2. Alright(other)
        BY <2>1, <4>1 DEF UploadInv, UploadsAgree
      <4>3. Alright(other)'
        BY <1>3, <4>1, <4>2 DEF Alright
      <4> QED
        BY <4>1, <4>3
    <3> QED
      BY <3>1, <3>2
  <2>2. \A e \in Docs : /\ paper'[e] = "active" => e \in stored'
                        /\ upload'[e] \in {"none", "queued"} => paper'[e] = None
                        /\ upload'[e] = "completed" => e \in ordered'
    BY <1>3, <1>4 DEF UploadInv, UploadsAgree
  <2>3. \A u, v \in Processes : worker'[u] # None /\ worker'[v] # None /\ u # v => worker'[u].doc # worker'[v].doc
    BY <1>2, <1>4 DEF UploadInv, UploadsAgree
  <2> QED
    BY <2>1, <2>2, <2>3 DEF UploadsAgree
<1>6. \A e \in Docs \ {d} : Past(e)' = Past(e) /\ (\A f \in Docs : Sees(e, f) => Sees(e, f)')
  BY <1>2, <1>3, <1>4 DEF Past, Sees
<1>7. ASSUME NEW e \in Docs \ {d}, Uploads!Differ(d, e), Past(d)', Past(e), paper[d] = "active", paper[e] = "active",
             d \notin unsure', e \notin unsure
      PROVE  Sees(d, e)' \/ Sees(e, d)
  <2>1. row = "completed" \/ (next # None /\ next.at \in Late)
    BY <1>2, <1>4, <1>7 DEF Past
  <2>2. CASE Uploads!Related(d, e, "conflict") \in relations' \/ (next # None /\ Bears(next, e))
    <3>1. next # None /\ Bears(next, e) => Sees(d, e)'
      BY <1>4 DEF Sees, Bears
    <3> QED
      BY <2>2, <3>1 DEF Sees
  <2>3. CASE trip.at \in Late /\ Uploads!Related(d, e, "conflict") \notin relations /\ ~Bears(trip, e)
    <3>1. Past(d) /\ ~Sees(d, e)
      BY <1>2, <2>3 DEF Past, Sees
    <3> QED
      BY <1>7, <3>1 DEF UploadInv, OneSees
  <2> QED
    BY <1>7, <2>1, <2>2, <2>3
<1>8. OneSees'
  <2> SUFFICES ASSUME NEW e \in Docs, NEW f \in Docs, Uploads!Differ(e, f), Past(e)', Past(f)',
                      paper[e] = "active", paper[f] = "active", e \notin unsure', f \notin unsure'
               PROVE  Sees(e, f)' \/ Sees(f, e)'
    BY DEF OneSees
  <2>1. e # f /\ Uploads!Differ(f, e)
    <3>1. {e, f} = {f, e}
      OBVIOUS
    <3> QED
      BY <3>1 DEF Uploads!Differ, Uploads!Compared
  <2>2. CASE e # d /\ f # d
    BY <1>6, <2>2 DEF UploadInv, OneSees
  <2>3. CASE e = d
    BY <1>6, <1>7, <2>1, <2>3
  <2>4. CASE f = d
    BY <1>6, <1>7, <2>1, <2>4
  <2> QED
    BY <2>2, <2>3, <2>4
<1> QED
  BY <1>1, <1>5, <1>8 DEF UploadInv

\* A step on the row of one document, which has not looked yet or is not in force.
LEMMA RowMoves ==
  ASSUME NoneIsNoTrip, UploadInv, UploadTypes', NEW d \in Docs,
         \A e \in Docs \ {d} : upload'[e] = upload[e] /\ paper'[e] = paper[e] /\ (e \in stored' <=> e \in stored),
         UNCHANGED <<relations, ordered, unsure>>,
         \A v \in Processes :
           \/ worker'[v] = worker[v]
           \/ /\ worker[v] # None => worker[v].doc = d
              /\ worker'[v] # None => worker'[v].doc = d,
         \A u, v \in Processes : worker'[u] # None /\ worker'[v] # None /\ u # v => worker'[u].doc # worker'[v].doc,
         \A v \in Processes : worker'[v] # None /\ worker'[v].doc = d => Alright(worker[v])',
         paper'[d] = "active" => d \in stored',
         upload'[d] \in {"none", "queued"} => paper'[d] = None,
         upload'[d] = "completed" => d \in ordered,
         paper'[d] # "active" \/ ~Past(d)'
  PROVE  UploadInv'
<1>1. UploadsAgree'
  <2>1. ASSUME NEW v \in Processes, worker'[v] # None PROVE Alright(worker[v])'
    <3>1. CASE worker'[v].doc = d
      BY <2>1, <3>1
    <3>2. CASE worker'[v].doc # d
      <4>1. PICK other \in Trip : worker[v] = other /\ worker'[v] = other /\ other.doc \in Docs \ {d} /\ other # None
        BY <2>1, <3>2 DEF UploadInv, UploadTypes, Trip
      <4>2. Alright(other)
        BY <4>1 DEF UploadInv, UploadsAgree
      <4>3. Alright(other)'
        BY <4>1, <4>2 DEF Alright
      <4> QED
        BY <4>1, <4>3
    <3> QED
      BY <3>1, <3>2
  <2>2. \A e \in Docs : /\ paper'[e] = "active" => e \in stored'
                        /\ upload'[e] \in {"none", "queued"} => paper'[e] = None
                        /\ upload'[e] = "completed" => e \in ordered'
    BY DEF UploadInv, UploadsAgree
  <2> QED
    BY <2>1, <2>2 DEF UploadsAgree
<1>2. \A e \in Docs \ {d} : Past(e)' = Past(e) /\ (\A f \in Docs : Sees(e, f) => Sees(e, f)')
  BY DEF Past, Sees
<1>3. OneSees'
  <2> SUFFICES ASSUME NEW e \in Docs, NEW f \in Docs, Uploads!Differ(e, f), Past(e)', Past(f)',
                      paper'[e] = "active", paper'[f] = "active", e \notin unsure', f \notin unsure'
               PROVE  Sees(e, f)' \/ Sees(f, e)'
    BY DEF OneSees
  <2>1. e # d /\ f # d
    OBVIOUS
  <2> QED
    BY <1>2, <2>1 DEF UploadInv, OneSees
<1> QED
  BY <1>1, <1>3 DEF UploadInv

LEMMA UploadRows ==
  ASSUME NoneIsNoTrip, UploadInv, NEW d \in Docs, Uploads!Upload(d) \/ Uploads!Archive(d)
  PROVE  UploadInv'
<1>1. /\ UploadTypes' /\ UNCHANGED <<relations, ordered, unsure, worker>>
      /\ \A e \in Docs \ {d} : upload'[e] = upload[e] /\ paper'[e] = paper[e] /\ (e \in stored' <=> e \in stored)
  BY DEF UploadInv, UploadTypes, Uploads!Upload, Uploads!Archive
<1>2. /\ paper'[d] = "active" => d \in stored'
      /\ upload'[d] \in {"none", "queued"} => paper'[d] = None
      /\ upload'[d] = "completed" => d \in ordered
      /\ paper'[d] # "active"
  BY DEF UploadInv, UploadTypes, UploadsAgree, Uploads!Upload, Uploads!Archive, NoneIsNoTrip
<1>3. ASSUME NEW v \in Processes, worker'[v] # None, worker'[v].doc = d PROVE Alright(worker[v])'
  <2>1. PICK trip \in Trip : worker[v] = trip /\ worker'[v] = trip /\ trip.doc = d
    BY <1>1, <1>3 DEF UploadInv, UploadTypes
  <2>2. Alright(trip)
    BY <1>1, <1>3, <2>1 DEF UploadInv, UploadsAgree
  <2>3. Alright(trip)'
    BY <2>1, <2>2 DEF Alright, Before, UploadInv, UploadTypes, Uploads!Upload, Uploads!Archive
  <2> QED
    BY <2>1, <2>3
<1>4. \A u, v \in Processes : worker'[u] # None /\ worker'[v] # None /\ u # v => worker'[u].doc # worker'[v].doc
  BY <1>1 DEF UploadInv, UploadsAgree
<1> QED
  BY <1>1, <1>2, <1>3, <1>4, RowMoves

LEMMA UploadTaken ==
  ASSUME NoneIsNoTrip, UploadInv, NEW w \in Processes, NEW d \in Docs, Uploads!Take(w, d)
  PROVE  UploadInv'
<1>1. PICK trip : trip = [doc |-> d, at |-> "ingest", hits |-> {}, found |-> {}]
  OBVIOUS
<1>2. trip \in Trip /\ trip.doc = d /\ trip.at = "ingest"
  BY <1>1 DEF Trip, Before
<1>3. /\ worker[w] = None /\ upload[d] = "queued" /\ paper[d] = None
      /\ worker' = [worker EXCEPT ![w] = trip] /\ upload' = [upload EXCEPT ![d] = "running"]
      /\ UNCHANGED <<paper, stored, relations, ordered, unsure>>
  BY <1>1 DEF Uploads!Take, UploadInv, UploadsAgree
<1>4. UploadTypes'
  BY <1>2, <1>3 DEF UploadInv, UploadTypes
<1>5. \A v \in Processes : worker[v] # None => worker[v].doc # d
  BY <1>3 DEF UploadInv, UploadsAgree, Alright
<1>6. \A u, v \in Processes : worker'[u] # None /\ worker'[v] # None /\ u # v => worker'[u].doc # worker'[v].doc
  BY <1>2, <1>3, <1>5 DEF UploadInv, UploadTypes, UploadsAgree
<1>7. Alright(trip)'
  BY <1>2, <1>3 DEF Alright, Before, UploadInv, UploadTypes, NoneIsNoTrip
<1>8. worker'[w] = trip /\ \A v \in Processes \ {w} : worker'[v] = worker[v]
  BY <1>3 DEF UploadInv, UploadTypes
<1>9. \A v \in Processes : worker'[v] # None /\ worker'[v].doc = d => Alright(worker[v])'
  BY <1>5, <1>7, <1>8
<1>10. upload'[d] = "running" /\ paper'[d] = None /\ paper'[d] # "active"
  BY <1>3 DEF UploadInv, UploadTypes, NoneIsNoTrip
<1>11. \A e \in Docs \ {d} : upload'[e] = upload[e]
  BY <1>3 DEF UploadInv, UploadTypes
<1> QED
  BY <1>2, <1>3, <1>4, <1>6, <1>8, <1>9, <1>10, <1>11, RowMoves

LEMMA UploadIngested ==
  ASSUME NoneIsNoTrip, UploadInv, NEW w \in Processes, NEW trip \in Trip, worker[w] = trip,
         \/ Uploads!Insert(w) \/ Uploads!Index(w) \/ Uploads!Activate(w) \/ Uploads!FailIngest(w)
  PROVE  UploadInv'
<1> DEFINE d == trip.doc
<1>1. /\ d \in Docs /\ trip # None /\ Alright(trip) /\ trip.at \in Before
  BY DEF UploadInv, UploadsAgree, NoneIsNoTrip, Trip, Before, Uploads!Insert, Uploads!Index, Uploads!Activate,
     Uploads!FailIngest, Uploads!At
<1>2. PICK to \in {"index", "activate", "references", "failed"} :
        /\ to = "failed" => worker' = [worker EXCEPT ![w] = None] /\ upload' = [upload EXCEPT ![d] = "failed"]
        /\ to # "failed" => worker' = [worker EXCEPT ![w].at = to] /\ upload' = upload
        /\ to = "index" => paper' = [paper EXCEPT ![d] = "indexing"] /\ stored' = stored
        /\ to = "activate" => paper' = paper /\ stored' = stored \cup {d}
        /\ to = "references" => paper' = [paper EXCEPT ![d] = "active"] /\ stored' = stored /\ trip.at = "activate"
        /\ to = "failed" => paper' = [paper EXCEPT ![d] = None] /\ stored' = stored \ {d}
  <2>1. CASE Uploads!Insert(w)
    <3> WITNESS "index" \in {"index", "activate", "references", "failed"}
    <3> QED
      BY <2>1 DEF Uploads!Insert, Uploads!Go, Uploads!Of
  <2>2. CASE Uploads!Index(w)
    <3> WITNESS "activate" \in {"index", "activate", "references", "failed"}
    <3> QED
      BY <2>2 DEF Uploads!Index, Uploads!Go, Uploads!Of
  <2>3. CASE Uploads!Activate(w)
    <3> WITNESS "references" \in {"index", "activate", "references", "failed"}
    <3> QED
      BY <2>3 DEF Uploads!Activate, Uploads!At, Uploads!Go, Uploads!Of
  <2>4. CASE Uploads!FailIngest(w)
    <3> WITNESS "failed" \in {"index", "activate", "references", "failed"}
    <3> QED
      BY <2>4 DEF Uploads!FailIngest, Uploads!Ended, Uploads!Of
  <2> QED
    BY <2>1, <2>2, <2>3, <2>4
<1>3. UNCHANGED <<relations, ordered, unsure>>
  BY DEF Uploads!Insert, Uploads!Index, Uploads!Activate, Uploads!FailIngest
<1>4. \A v \in Processes \ {w} : worker[v] # None => worker[v].doc # d
  BY <1>1 DEF UploadInv, UploadsAgree
<1>5. CASE to = "failed"
  <2>1. UploadTypes' /\ upload'[d] = "failed" /\ paper'[d] = None /\ paper'[d] # "active"
    BY <1>1, <1>2, <1>3, <1>5 DEF UploadInv, UploadTypes, NoneIsNoTrip
  <2>2. worker'[w] = None /\ \A v \in Processes \ {w} : worker'[v] = worker[v]
    BY <1>2, <1>5 DEF UploadInv, UploadTypes
  <2>3. \A e \in Docs \ {d} : upload'[e] = upload[e] /\ paper'[e] = paper[e] /\ (e \in stored' <=> e \in stored)
    BY <1>1, <1>2, <1>5 DEF UploadInv, UploadTypes
  <2>4. \A u, v \in Processes : worker'[u] # None /\ worker'[v] # None /\ u # v => worker'[u].doc # worker'[v].doc
    BY <2>2 DEF UploadInv, UploadsAgree
  <2>5. \A v \in Processes : worker'[v] # None => worker'[v].doc # d
    BY <1>4, <2>2
  <2> QED
    BY <1>1, <1>3, <2>1, <2>2, <2>3, <2>4, <2>5, RowMoves
<1>6. CASE to # "failed"
  <2>1. PICK next : next = [trip EXCEPT !.at = to]
    OBVIOUS
  <2>2. next \in Trip /\ next.doc = d /\ next.at = to /\ next # None
    BY <1>2, <1>6, <2>1 DEF Trip, Before, NoneIsNoTrip
  <2>3. worker' = [worker EXCEPT ![w] = next] /\ upload' = upload
    BY <1>2, <1>6, <2>1
  <2>4. UploadTypes'
    BY <1>1, <1>2, <1>3, <1>6, <2>2, <2>3 DEF UploadInv, UploadTypes
  <2>5. worker'[w] = next /\ \A v \in Processes \ {w} : worker'[v] = worker[v]
    BY <2>3 DEF UploadInv, UploadTypes
  <2>6. \A e \in Docs \ {d} : upload'[e] = upload[e] /\ paper'[e] = paper[e] /\ (e \in stored' <=> e \in stored)
    BY <1>1, <1>2, <1>6, <2>3 DEF UploadInv, UploadTypes
  <2>7. \A u, v \in Processes : worker'[u] # None /\ worker'[v] # None /\ u # v => worker'[u].doc # worker'[v].doc
    BY <1>4, <2>2, <2>5 DEF UploadInv, UploadsAgree
  <2>8. Alright(next)'
    BY <1>1, <1>2, <1>6, <2>2, <2>3 DEF Alright, Before, UploadInv, UploadTypes
  <2>9. \A v \in Processes : worker'[v] # None /\ worker'[v].doc = d => Alright(worker[v])'
    BY <1>4, <2>5, <2>8
  <2>10. upload'[d] = "running" /\ ~Past(d)'
    <3>1. upload'[d] = "running"
      BY <1>1, <2>3 DEF Alright
    <3> QED
      BY <1>2, <1>4, <1>6, <2>2, <2>5, <3>1 DEF Past, Late
  <2>11. paper'[d] = "active" => d \in stored'
    BY <1>1, <1>2, <1>6 DEF Alright, UploadInv, UploadTypes, UploadsAgree
  <2> QED
    BY <1>1, <1>3, <2>2, <2>4, <2>5, <2>6, <2>7, <2>9, <2>10, <2>11, RowMoves
<1> QED
  BY <1>5, <1>6

LEMMA UploadCompared ==
  ASSUME NoneIsNoTrip, CitesAreUploads, UploadInv, NEW w \in Processes, NEW trip \in Trip, worker[w] = trip, trip # None
  PROVE  /\ Uploads!References(w) => UploadInv'
         /\ Uploads!Search(w) => UploadInv'
         /\ Uploads!Enrich(w) => UploadInv'
         /\ Uploads!FailSearch(w) => UploadInv'
<1> DEFINE d == trip.doc
<1>1. /\ d \in Docs /\ Alright(trip) /\ upload = [upload EXCEPT ![d] = "running"]
      /\ ordered \subseteq Docs
  BY DEF UploadInv, UploadTypes, UploadsAgree, Alright, Trip
<1>2. ASSUME Uploads!References(w) PROVE UploadInv'
  <2>1. PICK found : found = {Uploads!Related(d, e, "reference") : e \in {e \in Cites[d] \ {d} : paper[e] # None}}
    OBVIOUS
  <2>2. found \subseteq Link
    BY <1>1, <2>1 DEF CitesAreUploads, Uploads!Related, Link
  <2>3. PICK next : next = [trip EXCEPT !.found = found, !.at = "search"]
    OBVIOUS
  <2>4. next \in Trip /\ next.doc = d /\ next.at = "search" /\ next.hits = trip.hits
    BY <2>2, <2>3 DEF Trip
  <2>5. /\ worker' = [worker EXCEPT ![w] = next] /\ trip.at = "references"
        /\ UNCHANGED <<upload, paper, stored, relations, ordered, unsure>>
    BY <1>2, <2>1, <2>3 DEF Uploads!References, Uploads!At, Uploads!Of
  <2>6. Alright(next)'
    BY <1>1, <2>4, <2>5 DEF Alright, Before
  <2> QED
    BY <1>1, <2>4, <2>5, <2>6, TripMoves DEF Late
<1>3. ASSUME Uploads!Search(w) PROVE UploadInv'
  <2>1. PICK hits : hits = Uploads!Nearest(d, stored, TopK + Extra)
    OBVIOUS
  <2>2. hits \subseteq stored /\ hits \subseteq Docs
    BY <2>1 DEF Uploads!Nearest, UploadInv, UploadTypes
  <2>3. PICK next : next = [trip EXCEPT !.hits = hits, !.at = "enrich"]
    OBVIOUS
  <2>4. next \in Trip /\ next.doc = d /\ next.at = "enrich" /\ next.hits = hits /\ next.found = trip.found
    BY <2>2, <2>3 DEF Trip, Late
  <2>5. /\ worker' = [worker EXCEPT ![w] = next] /\ trip.at = "search"
        /\ UNCHANGED <<upload, paper, stored, relations, ordered>>
        /\ unsure' = IF hits # stored THEN unsure \cup {d} ELSE unsure
    BY <1>3, <2>1, <2>3 DEF Uploads!Search, Uploads!At, Uploads!Of, Uploads!UnsureIf
  <2>6. Alright(next)'
    BY <1>1, <2>4, <2>5 DEF Alright, Before
  <2>7. ASSUME NEW e \in Docs, paper[e] = "active", d \notin unsure' PROVE next # None /\ Bears(next, e)
    BY <2>4, <2>5, <2>7 DEF Bears, UploadInv, UploadsAgree, NoneIsNoTrip
  <2>8. unsure \subseteq unsure'
    BY <2>5
  <2>9. \A e \in Docs :
           /\ Uploads!Differ(d, e) /\ Past(e) /\ paper[d] = "active" /\ paper[e] = "active"
           /\ d \notin unsure'
           /\ "running" = "completed" \/ (next # None /\ next.at \in Late)
           => \/ Uploads!Related(d, e, "conflict") \in relations'
              \/ next # None /\ Bears(next, e)
              \/ /\ trip.at \in Late
                 /\ Uploads!Related(d, e, "conflict") \notin relations /\ ~Bears(trip, e)
    BY <2>7
  <2> QED
    BY <1>1, <2>4, <2>5, <2>6, <2>7, <2>8, <2>9, TripMoves
<1>4. ASSUME Uploads!Enrich(w) PROVE UploadInv'
  <2>1. PICK kept : kept = Uploads!KeptOf(d, trip.hits)
    OBVIOUS
  <2>2. PICK hits : hits = Uploads!Nearest(d, kept, TopK)
    OBVIOUS
  <2>3. hits \subseteq kept /\ kept = {e \in trip.hits : e # d /\ paper[e] = "active"} /\ hits \subseteq Docs
    BY <2>1, <2>2 DEF Uploads!Nearest, Uploads!KeptOf, Trip
  <2>4. PICK next : next = [trip EXCEPT !.hits = hits, !.at = "judge"]
    OBVIOUS
  <2>5. next \in Trip /\ next.doc = d /\ next.at = "judge" /\ next.hits = hits /\ next.found = trip.found
    BY <2>3, <2>4 DEF Trip, Late
  <2>6. /\ worker' = [worker EXCEPT ![w] = next] /\ trip.at = "enrich"
        /\ UNCHANGED <<upload, paper, stored, relations, ordered>>
        /\ unsure' = IF hits # kept THEN unsure \cup {d} ELSE unsure
    BY <1>4, <2>1, <2>2, <2>4 DEF Uploads!Enrich, Uploads!At, Uploads!Of, Uploads!UnsureIf
  <2>7. Alright(next)'
    BY <1>1, <2>5, <2>6 DEF Alright, Before
  <2>8. ASSUME NEW e \in Docs, Uploads!Differ(d, e), paper[e] = "active", d \notin unsure'
        PROVE  next # None /\ (Bears(trip, e) => Bears(next, e))
    BY <2>3, <2>5, <2>6, <2>8 DEF Bears, NoneIsNoTrip, Uploads!Differ, Uploads!Compared
  <2> QED
    BY <1>1, <2>5, <2>6, <2>7, <2>8, TripMoves DEF Late
<1>5. ASSUME Uploads!FailSearch(w) PROVE UploadInv'
  <2>1. PICK next : next = [trip EXCEPT !.hits = {}, !.at = "judge"]
    OBVIOUS
  <2>2. next \in Trip /\ next.doc = d /\ next.at = "judge"
    BY <2>1 DEF Trip, Late
  <2>3. /\ worker' = [worker EXCEPT ![w] = next] /\ trip.at \in {"search", "enrich"}
        /\ UNCHANGED <<upload, paper, stored, relations, ordered>>
        /\ unsure' = unsure \cup {d}
    BY <1>5, <2>1 DEF Uploads!FailSearch, Uploads!At, Uploads!Of
  <2>4. Alright(next)'
    BY <1>1, <2>2, <2>3 DEF Alright, Before
  <2> QED
    BY <1>1, <2>2, <2>3, <2>4, TripMoves
<1> QED
  BY <1>2, <1>3, <1>4, <1>5

LEMMA UploadJudged ==
  ASSUME NoneIsNoTrip, UploadInv, NEW w \in Processes, NEW trip \in Trip, worker[w] = trip, trip # None
  PROVE  /\ \A f \in Docs, answered \in BOOLEAN : Uploads!Judge(w, f, answered) => UploadInv'
         /\ Uploads!Record(w) => UploadInv'
         /\ Uploads!Order(w) => UploadInv'
         /\ Uploads!Finish(w) => UploadInv'
         /\ Uploads!Fail(w) \/ Uploads!Crash(w) => UploadInv'
<1> DEFINE d == trip.doc
<1>1. /\ d \in Docs /\ Alright(trip) /\ upload = [upload EXCEPT ![d] = "running"]
      /\ ordered \subseteq Docs
  BY DEF UploadInv, UploadTypes, UploadsAgree, Alright, Trip
<1>2. ASSUME NEW f \in Docs, NEW answered \in BOOLEAN, Uploads!Judge(w, f, answered) PROVE UploadInv'
  <2>1. PICK found : found = trip.found \cup
          (IF Uploads!Compared(d, f) /\ {d, f} \in Conflicting /\ answered
           THEN {Uploads!Related(d, f, "conflict")} ELSE {})
    OBVIOUS
  <2>2. found \subseteq Link /\ trip.found \subseteq found
        /\ (Uploads!Differ(d, f) /\ answered => Uploads!Related(d, f, "conflict") \in found)
    <3>1. Uploads!Related(d, f, "conflict") \in Link
      BY <1>1 DEF Uploads!Related, Link
    <3>2. trip.found \subseteq Link
      BY DEF Trip
    <3> QED
      BY <2>1, <3>1, <3>2 DEF Uploads!Differ
  <2>3. PICK next : next = [trip EXCEPT !.hits = trip.hits \ {f}, !.found = found]
    OBVIOUS
  <2>4. next \in Trip /\ next.doc = d /\ next.at = trip.at /\ next.hits = trip.hits \ {f} /\ next.found = found
    BY <2>2, <2>3 DEF Trip
  <2>5. /\ worker' = [worker EXCEPT ![w] = next] /\ trip.at = "judge"
        /\ UNCHANGED <<upload, paper, stored, relations, ordered>>
        /\ unsure' = IF answered THEN unsure ELSE unsure \cup {d}
    BY <1>2, <2>1, <2>3 DEF Uploads!Judge, Uploads!At, Uploads!Of
  <2>6. Alright(next)'
    BY <1>1, <2>4, <2>5 DEF Alright, Before
  <2>7. ASSUME NEW e \in Docs, Uploads!Differ(d, e), d \notin unsure'
        PROVE  next # None /\ (Bears(trip, e) => Bears(next, e))
    BY <2>2, <2>4, <2>5, <2>7 DEF Bears, NoneIsNoTrip
  <2>8. unsure \subseteq unsure' /\ trip.at \in Late
    BY <2>5 DEF Late
  <2> QED
    BY <1>1, <2>4, <2>5, <2>6, <2>7, <2>8, TripMoves
<1>3. ASSUME Uploads!Record(w) PROVE UploadInv'
  <2>1. PICK r \in trip.found :
          relations' = relations \cup {r} /\ worker' = [worker EXCEPT ![w].found = @ \ {r}]
    BY <1>3 DEF Uploads!Record
  <2>2. PICK next : next = [trip EXCEPT !.found = trip.found \ {r}]
    OBVIOUS
  <2>3. next \in Trip /\ next.doc = d /\ next.at = trip.at /\ next.hits = trip.hits /\ next.found = trip.found \ {r}
    BY <2>2 DEF Trip
  <2>4. /\ worker' = [worker EXCEPT ![w] = next] /\ trip.at = "judge"
        /\ UNCHANGED <<upload, paper, stored, ordered, unsure>>
    BY <1>3, <2>1, <2>2 DEF Uploads!Record, Uploads!At
  <2>5. Alright(next)'
    BY <1>1, <2>3, <2>4 DEF Alright, Before
  <2>6. ASSUME NEW e \in Docs
        PROVE  /\ next # None
               /\ Bears(trip, e) => Bears(next, e) \/ Uploads!Related(d, e, "conflict") \in relations'
    BY <2>1, <2>3 DEF Bears, NoneIsNoTrip
  <2>7. relations \subseteq relations' /\ trip.at \in Late
    BY <2>1, <2>4 DEF Late
  <2>8. \A e \in Docs :
           /\ Uploads!Differ(d, e) /\ Past(e) /\ paper[d] = "active" /\ paper[e] = "active"
           /\ d \notin unsure'
           /\ "running" = "completed" \/ (next # None /\ next.at \in Late)
           => \/ Uploads!Related(d, e, "conflict") \in relations'
              \/ next # None /\ Bears(next, e)
              \/ /\ trip.at \in Late
                 /\ Uploads!Related(d, e, "conflict") \notin relations /\ ~Bears(trip, e)
    BY <2>6, <2>7
  <2> QED
    BY <1>1, <2>3, <2>4, <2>5, <2>6, <2>7, <2>8, TripMoves
<1>4. ASSUME Uploads!Order(w) PROVE UploadInv'
  <2>1. PICK next : next = [trip EXCEPT !.at = "finish"]
    OBVIOUS
  <2>2. next \in Trip /\ next.doc = d /\ next.at = "finish" /\ next.hits = trip.hits /\ next.found = trip.found
    BY <2>1 DEF Trip, Late
  <2>3. /\ worker' = [worker EXCEPT ![w] = next] /\ trip.at = "judge" /\ trip.hits = {} /\ trip.found = {}
        /\ UNCHANGED <<upload, paper, stored, relations, unsure>> /\ ordered' = ordered \cup {d}
    BY <1>4, <2>1 DEF Uploads!Order, Uploads!At, Uploads!Go, Uploads!Of
  <2>4. Alright(next)'
    BY <1>1, <2>2, <2>3 DEF Alright, Before
  <2>5. \A e \in Docs : ~Bears(trip, e)
    BY <2>3 DEF Bears
  <2> QED
    BY <1>1, <2>2, <2>3, <2>4, <2>5, TripMoves DEF Late
<1>5. ASSUME Uploads!Finish(w) PROVE UploadInv'
  <2>1. /\ worker' = [worker EXCEPT ![w] = None] /\ trip.at = "finish"
        /\ upload' = [upload EXCEPT ![d] = "completed"]
        /\ UNCHANGED <<paper, stored, relations, ordered, unsure>>
    BY <1>5 DEF Uploads!Finish, Uploads!At, Uploads!Ended, Uploads!Of
  <2>2. d \in ordered /\ \A e \in Docs : ~Bears(trip, e)
    BY <1>1, <2>1 DEF Alright, Bears
  <2> QED
    BY <1>1, <2>1, <2>2, TripMoves DEF Late
<1>6. ASSUME Uploads!Fail(w) PROVE UploadInv'
  <2>1. /\ worker' = [worker EXCEPT ![w] = None]
        /\ upload' = [upload EXCEPT ![d] = "failed"]
        /\ UNCHANGED <<paper, stored, relations, ordered, unsure>>
    BY <1>6 DEF Uploads!Fail, Uploads!Ended, Uploads!Of
  <2> QED
    BY <1>1, <2>1, TripMoves
<1>7. ASSUME Uploads!Crash(w) PROVE UploadInv'
  <2>1. worker' = [worker EXCEPT ![w] = None] /\ UNCHANGED <<upload, paper, stored, relations, ordered, unsure>>
    BY <1>7 DEF Uploads!Crash
  <2> QED
    BY <1>1, <2>1, TripMoves
<1> QED
  BY <1>2, <1>3, <1>4, <1>5, <1>6, <1>7

LEMMA UploadSteps ==
  ASSUME NoneIsNoTrip, CitesAreUploads PROVE UploadInv /\ [Uploads!Next]_Uploads!vars => UploadInv'
<1> SUFFICES ASSUME UploadInv, [Uploads!Next]_Uploads!vars PROVE UploadInv'
  OBVIOUS
<1>1. ASSUME NEW w \in Processes, worker[w] # None,
             \/ Uploads!Insert(w) \/ Uploads!Index(w) \/ Uploads!Activate(w) \/ Uploads!FailIngest(w)
             \/ Uploads!References(w) \/ Uploads!Search(w) \/ Uploads!Enrich(w) \/ Uploads!FailSearch(w)
             \/ Uploads!Record(w) \/ Uploads!Order(w) \/ Uploads!Finish(w) \/ Uploads!Fail(w) \/ Uploads!Crash(w)
             \/ \E e \in Docs, answered \in BOOLEAN : Uploads!Judge(w, e, answered)
      PROVE  UploadInv'
  <2>1. PICK trip \in Trip : worker[w] = trip /\ trip # None
    BY <1>1 DEF UploadInv, UploadTypes
  <2> QED
    BY <1>1, <2>1, UploadIngested, UploadCompared, UploadJudged
<1>2. CASE UNCHANGED Uploads!vars
  <2>1. UNCHANGED <<upload, paper, stored, relations, ordered, worker, unsure>>
    BY <1>2 DEF Uploads!vars
  <2>2. UploadTypes' /\ OneSees'
    BY <2>1 DEF UploadInv, UploadTypes, OneSees, Past, Sees
  <2>3. UploadsAgree'
    BY <2>1 DEF UploadInv, UploadsAgree, Alright
  <2> QED
    BY <2>2, <2>3 DEF UploadInv
<1>3. ASSUME NEW w \in Processes,
             \/ Uploads!Insert(w) \/ Uploads!Index(w) \/ Uploads!Activate(w) \/ Uploads!FailIngest(w)
             \/ Uploads!References(w) \/ Uploads!Search(w) \/ Uploads!Enrich(w) \/ Uploads!FailSearch(w)
             \/ Uploads!Record(w) \/ Uploads!Order(w) \/ Uploads!Finish(w) \/ Uploads!Fail(w) \/ Uploads!Crash(w)
             \/ \E e \in Docs, answered \in BOOLEAN : Uploads!Judge(w, e, answered)
      PROVE  worker[w] # None
  BY <1>3 DEF Uploads!At, Uploads!Insert, Uploads!Index, Uploads!Activate, Uploads!FailIngest, Uploads!References,
     Uploads!Search, Uploads!Enrich, Uploads!FailSearch, Uploads!Record, Uploads!Order, Uploads!Finish,
     Uploads!Fail, Uploads!Crash, Uploads!Judge
<1> QED
  BY <1>1, <1>2, <1>3, UploadRows, UploadTaken DEF Uploads!Next

(* For any number of files, workers that fail, die or ingest versions of a   *)
(* title at once, and administrators: the version whose ingestion began last *)
(* among those that came to be is in force and found whole unless it was     *)
(* touched.  For any number of uploads and workers, whatever is compared and  *)
(* archived meanwhile: of two in force that contradict each other one was     *)
(* compared with the other (pipeline/indexer.py, conflict_detector.py).      *)
THEOREM TitlesStayAnswered ==
  ASSUME NoneIsNoWork, NoneIsNoTrip, CitesAreUploads
  PROVE  Ingests!Spec /\ Uploads!Spec => []TitleStaysAnswered
<1>1. Ingests!Init => IngestInv
  <2> SUFFICES ASSUME Ingests!Init PROVE Ingesting({})
    BY DEF IngestInv
  <2> QED
    BY DEF Ingests!Init, Ingesting, IngestTypes, Alone, Ordered, InOrder, Served
<1>2. IngestInv => Ingests!TitleStaysAnswered
  BY DEF IngestInv, Ingesting, Ordered, Served, Ingests!TitleStaysAnswered
<1>3. Uploads!Init => UploadInv
  BY DEF Uploads!Init, UploadInv, UploadTypes, UploadsAgree, OneSees, Past, NoneIsNoTrip
<1>4. UploadInv => Uploads!ConflictsAreFound
  <2> SUFFICES ASSUME UploadInv PROVE Uploads!ConflictsAreFound
    OBVIOUS
  <2>1. ASSUME NEW d \in Docs, NEW e \in Docs, Uploads!Sure(d), Uploads!Sure(e), Uploads!Differ(d, e)
        PROVE  \/ Uploads!Related(d, e, "conflict") \in relations
               \/ Uploads!Related(e, d, "conflict") \in relations
    <3>1. \A f \in {d, e} : Past(f) /\ paper[f] = "active" /\ f \notin unsure
                               /\ \A w \in Processes : worker[w] # None => worker[w].doc # f
      BY <2>1 DEF Uploads!Sure, Past, UploadInv, UploadsAgree, Alright
    <3> QED
      BY <2>1, <3>1 DEF UploadInv, OneSees, Sees
  <2>2. \A d \in Docs : upload[d] = "completed" => d \in ordered
    BY DEF UploadInv, UploadsAgree
  <2> QED
    BY <2>1, <2>2 DEF Uploads!ConflictsAreFound
<1> QED
  BY <1>1, <1>2, <1>3, <1>4, IngestSteps, UploadSteps, PTL DEF Ingests!Spec, Uploads!Spec, TitleStaysAnswered
=============================================================================
