------------------------------ MODULE JobQueue ------------------------------
(***************************************************************************)
(* Jobs as rows of the database with an entry in a stream each              *)
(* (app/storage/job_queue.py, jinshu/queue.py, and the worker of            *)
(* jinshu/runtime.py).  An entry goes to one worker at a time and to        *)
(* another once it was idle for long, be its worker dead or slow.  Rows are *)
(* read and written back whole, without a condition.                       *)
(***************************************************************************)
EXTENDS Naturals, FiniteSets

CONSTANTS
  Jobs,
  Workers,
  MaxAttempts,  \* 3
  MaxCrashes,   \* bound of the model
  None

VARIABLES
  jobs,     \* the row of each job: [status, attempts], or None
  sending,  \* jobs whose entry is not added yet
  entry,    \* "none", "new", "pending", "idle" (pending for long) or "acked"
  work,     \* of each worker: [job, stage, row, outcome], or None
  ended,    \* jobs whose row was ever given a final status
  crashes

vars == <<jobs, sending, entry, work, ended, crashes>>

Init ==
  /\ jobs = [j \in Jobs |-> None]
  /\ sending = {}
  /\ entry = [j \in Jobs |-> "none"]
  /\ work = [w \in Workers |-> None]
  /\ ended = {}
  /\ crashes = 0

Enqueue(j) ==
  /\ jobs[j] = None
  /\ jobs' = [jobs EXCEPT ![j] = [status |-> "queued", attempts |-> 0]]
  /\ sending' = sending \cup {j}
  /\ UNCHANGED <<entry, work, ended, crashes>>

Publish(j) ==
  /\ j \in sending
  /\ sending' = sending \ {j}
  /\ entry' = [entry EXCEPT ![j] = "new"]
  /\ UNCHANGED <<jobs, work, ended, crashes>>

\* The process dies before the entry is added: the job stays queued.
LoseJob(j) ==
  /\ j \in sending
  /\ sending' = sending \ {j}
  /\ UNCHANGED <<jobs, entry, work, ended, crashes>>

At(w, stage) == work[w] # None /\ work[w].stage = stage
Doing(w, stage, row) == work' = [work EXCEPT ![w].stage = stage, ![w].row = row]
Done(w) == work' = [work EXCEPT ![w] = None]

\* Mutant: the entries of dead workers are not taken over.
TakeNewOnly(w, j) ==
  /\ work[w] = None
  /\ entry[j] = "new"
  /\ entry' = [entry EXCEPT ![j] = "pending"]
  /\ work' = [work EXCEPT ![w] =
                [job |-> j, stage |-> "taken", row |-> None, outcome |-> None]]
  /\ UNCHANGED <<jobs, sending, ended, crashes>>

\* Idle entries go before new ones.
Take(w, j) ==
  /\ work[w] = None
  /\ \/ entry[j] = "idle"
     \/ entry[j] = "new" /\ \A k \in Jobs : entry[k] # "idle"
  /\ entry' = [entry EXCEPT ![j] = "pending"]
  /\ work' = [work EXCEPT ![w] =
                [job |-> j, stage |-> "taken", row |-> None, outcome |-> None]]
  /\ UNCHANGED <<jobs, sending, ended, crashes>>

Idle(j) ==
  /\ entry[j] = "pending"
  /\ entry' = [entry EXCEPT ![j] = "idle"]
  /\ UNCHANGED <<jobs, sending, work, ended, crashes>>

\* The row is read: a completed job is only acknowledged, one tried too often
\* fails, any other is started.
Look(w) ==
  LET row == jobs[work[w].job]
  IN  /\ At(w, "taken")
      /\ IF row.status = "completed" THEN Doing(w, "ack", None)
         ELSE IF row.attempts >= MaxAttempts
         THEN Doing(w, "end", [row EXCEPT !.status = "failed"])
         ELSE Doing(w, "start", [status |-> "running", attempts |-> row.attempts + 1])
      /\ UNCHANGED <<jobs, sending, entry, ended, crashes>>

\* Mutant: the entry is acknowledged when the job is started.
StartAcknowledged(w) ==
  /\ At(w, "start")
  /\ jobs' = [jobs EXCEPT ![work[w].job] = work[w].row]
  /\ entry' = [entry EXCEPT ![work[w].job] = "acked"]
  /\ Doing(w, "run", None)
  /\ UNCHANGED <<sending, ended, crashes>>

Start(w) ==
  /\ At(w, "start")
  /\ jobs' = [jobs EXCEPT ![work[w].job] = work[w].row]
  /\ Doing(w, "run", None)
  /\ UNCHANGED <<sending, entry, ended, crashes>>

\* update_progress and finish read the row before they write it.
ReadProgress(w) ==
  /\ At(w, "run")
  /\ Doing(w, "progress", [jobs[work[w].job] EXCEPT !.status = "running"])
  /\ UNCHANGED <<jobs, sending, entry, ended, crashes>>

WriteProgress(w) ==
  /\ At(w, "progress")
  /\ jobs' = [jobs EXCEPT ![work[w].job] = work[w].row]
  /\ Doing(w, "run", None)
  /\ UNCHANGED <<sending, entry, ended, crashes>>

Finish(w, outcome) ==
  /\ At(w, "run")
  /\ work' = [work EXCEPT ![w].stage = "end", ![w].outcome = outcome,
                ![w].row = [jobs[work[w].job] EXCEPT !.status = outcome]]
  /\ UNCHANGED <<jobs, sending, entry, ended, crashes>>

End(w) ==
  /\ At(w, "end")
  /\ jobs' = [jobs EXCEPT ![work[w].job] = work[w].row]
  /\ ended' = ended \cup {work[w].job}
  /\ Doing(w, "ack", None)
  /\ UNCHANGED <<sending, entry, crashes>>

Acknowledge(w) ==
  /\ At(w, "ack")
  /\ entry' = [entry EXCEPT ![work[w].job] = "acked"]
  /\ Done(w)
  /\ UNCHANGED <<jobs, sending, ended, crashes>>

\* An acknowledgement that raises after a job completed makes it fail: finish is
\* called again.
FailAcknowledge(w) ==
  /\ At(w, "ack")
  /\ work[w].outcome = "completed"
  /\ work' = [work EXCEPT ![w].stage = "end", ![w].outcome = "failed",
                ![w].row = [jobs[work[w].job] EXCEPT !.status = "failed"]]
  /\ UNCHANGED <<jobs, sending, entry, ended, crashes>>

Crash(w) ==
  /\ work[w] # None
  /\ crashes < MaxCrashes
  /\ crashes' = crashes + 1
  /\ Done(w)
  /\ UNCHANGED <<jobs, sending, entry, ended>>

Step(w) == Look(w) \/ Start(w) \/ WriteProgress(w) \/ End(w) \/ Acknowledge(w)

Next ==
  \/ \E j \in Jobs : Enqueue(j) \/ Publish(j) \/ LoseJob(j) \/ Idle(j)
  \/ \E w \in Workers, j \in Jobs : Take(w, j)
  \/ \E w \in Workers : Step(w) \/ ReadProgress(w) \/ FailAcknowledge(w) \/ Crash(w)
  \/ \E w \in Workers, outcome \in {"completed", "failed"} : Finish(w, outcome)

Takes == \E w \in Workers, j \in Jobs : Take(w, j)
Idles == \E j \in Jobs : Idle(j)
Ends(w) == \E outcome \in {"completed", "failed"} : Finish(w, outcome)

\* Time passes and the workers ask for jobs again and again; one that does not
\* die goes on, and a job it runs ends at last, however often it reports.
Fairness ==
  /\ WF_vars(Takes) /\ WF_vars(Idles)
  /\ \A w \in Workers : WF_vars(Step(w)) /\ SF_vars(Ends(w))

Spec == Init /\ [][Next]_vars /\ Fairness
-----------------------------------------------------------------------------
(* No job is lost by its acknowledgement: an entry is taken off the stream  *)
(* only after the row of its job was given a final status, though workers    *)
(* die between any two steps and slow ones are overtaken.                    *)
AcknowledgedEnded == \A j \in Jobs : entry[j] = "acked" => j \in ended

(* A job whose entry was added is acknowledged at last, whatever worker dies *)
(* and however often it is taken over.                                      *)
PublishedEnds ==
  \A j \in Jobs : (entry[j] = "new") ~> (entry[j] = "acked")

\* Neither by an acknowledgement too early nor by one that never comes.
JobsAreNotLost == []AcknowledgedEnded /\ PublishedEnds
=============================================================================
