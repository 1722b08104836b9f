---------------------------- MODULE ReviewedTask ----------------------------
(***************************************************************************)
(* What the checkpointed workflows of core/workflows.py promise their      *)
(* users, with nothing of how they keep it: no nodes, leases, attempts,    *)
(* handlers or caches.  A task is an input submitted under a key; it may   *)
(* be presented for review only as THE report of its current input under   *)
(* its current code, and only when that input passes the hard checks; a    *)
(* reviewer other than its author then decides, once; a revision starts    *)
(* the task over.                                                          *)
(***************************************************************************)
EXTENDS Naturals

CONSTANTS
  Keys,             \* the keys a task can be filed under
  Payloads,         \* the inputs that can be submitted
  Codes,            \* the versions of the program that can be serving
  Usernames,        \* the accounts that can act as reviewers
  Author(_),        \* the account a key belongs to
  Workflow(_),      \* the kind of task an input is for
  Report(_, _),     \* the report an input yields under a version of the code
  Presentable(_),   \* whether an input passes the hard checks
  None

VARIABLE task       \* what each key holds, None or a task

Draft(p, c, rev) ==
  [payload |-> p, code |-> c, revision |-> rev,
   stage |-> "draft", report |-> None, reviewer |-> None]

Init == task = [k \in Keys |-> None]

Submit(k) ==
  /\ task[k] = None
  /\ \E p \in Payloads, c \in Codes :
       task' = [task EXCEPT ![k] = Draft(p, c, 1)]

Revise(k) ==
  /\ task[k] # None
  /\ \E p \in Payloads, c \in Codes :
       /\ Workflow(p) = Workflow(task[k].payload)
       /\ task' = [task EXCEPT ![k] = Draft(p, c, task[k].revision + 1)]

Present(k) ==
  /\ task[k] # None
  /\ task[k].stage = "draft"
  /\ Presentable(task[k].payload)
  /\ task' = [task EXCEPT ![k].stage = "presented",
                          ![k].report = Report(task[k].payload, task[k].code)]

Decide(k) ==
  /\ task[k] # None
  /\ task[k].stage = "presented"
  /\ \E u \in Usernames \ {Author(k)}, verdict \in {"approved", "rejected"} :
       task' = [task EXCEPT ![k].stage = verdict, ![k].reviewer = u]

Withdraw(k) ==
  /\ task[k] # None
  /\ task' = [task EXCEPT ![k] = None]

Next == \E k \in Keys : \/ Submit(k) \/ Revise(k) \/ Present(k)
                        \/ Decide(k) \/ Withdraw(k)

Spec == Init /\ [][Next]_task
=============================================================================
