----------------------------- MODULE MCServices -----------------------------
(***************************************************************************)
(* The services the other parts rest on: the fact store, the task service,  *)
(* the job queue, the ticket outbox, and the entry of the complete server.  *)
(* They share no state in this instance, so each behavior is one of a       *)
(* single part, chosen at the start, and the others stay as they began.     *)
(*                                                                         *)
(* Of the fact store: two processes and a read-only third.  Call b is       *)
(* refused once a took effect, as a creation is at a cap; call c edits what *)
(* b created.                                                              *)
(***************************************************************************)
EXTENDS FactStore

CONSTANTS
  None,
  a, b, c, d, p1, p2, p3,
  Requests, Inputs, MaxRevision,
  Jobs, Workers, MaxAttempts, MaxCrashes,
  MaxSent,
  Arrivals, Names, Limit, MaxGuesses

VARIABLES
  focus,
  row, asked, file,
  jobs, sending, entry, doing, ended, crashes,
  ticket, saved, holder, stage, sent,
  serving, open, starter, cooling, ready, get,
  profile, counted, compared, login,
  users, setup, lease, job

Service == INSTANCE TaskService
Queue == INSTANCE JobQueue WITH work <- doing
Outbox == INSTANCE Tickets WITH lock <- holder
Entry == INSTANCE UnifiedApp WITH Requests <- Arrivals, holder <- starter

facts == <<kind, stored, line, call, work>>
tasks == <<row, asked, file>>
queued == <<jobs, sending, entry, doing, ended, crashes>>
outbox == <<ticket, saved, holder, stage, sent>>
startup == <<serving, open, starter, cooling, ready, get>>
entrance == <<profile, counted, compared, login>>
accounts == <<users, setup>>
batch == <<lease, job>>
entries == <<startup, entrance, accounts, batch>>

ByProcess == [q \in Calls |-> CASE q = a -> p1 [] q = d -> p3 [] OTHER -> p2]

InOrder(q, v) ==
  LET before == {v[i] : i \in 1..Len(v)}
  IN  /\ q = b => a \notin before
      /\ q = c => b \in before

MCInit ==
  /\ focus \in {"facts", "tasks", "jobs", "tickets",
                "startup", "entrance", "accounts", "batch"}
  /\ Init
  /\ focus # "facts" => kind = "cas"
  /\ Service!Init
  /\ Queue!Init
  /\ Outbox!Init
  /\ Entry!Init
  /\ focus # "startup" => ready
  /\ focus # "entrance" => profile = "services"

FactsStep ==
  /\ focus = "facts"
  /\ Next
  /\ UNCHANGED <<focus, tasks, queued, outbox, entries>>

TasksStep ==
  /\ focus = "tasks"
  /\ Service!Next
  /\ UNCHANGED <<focus, facts, queued, outbox, entries>>

JobsStep ==
  /\ focus = "jobs"
  /\ Queue!Next
  /\ UNCHANGED <<focus, facts, tasks, outbox, entries>>

TicketsStep ==
  /\ focus = "tickets"
  /\ Outbox!Next
  /\ UNCHANGED <<focus, facts, tasks, queued, entries>>

EntryStep ==
  /\ focus \in {"startup", "entrance", "accounts", "batch"}
  /\ Entry!Next
  /\ focus # "startup" => UNCHANGED startup
  /\ focus # "entrance" => UNCHANGED entrance
  /\ focus # "accounts" => UNCHANGED accounts
  /\ focus # "batch" => UNCHANGED batch
  /\ UNCHANGED <<focus, facts, tasks, queued, outbox>>

MCNext == FactsStep \/ TasksStep \/ JobsStep \/ TicketsStep \/ EntryStep

\* The fairness of FactStore and of JobQueue.
MCSpec ==
  /\ MCInit
  /\ [][MCNext]_<<focus, facts, tasks, queued, outbox, entries>>
  /\ \A q \in Calls : WF_vars(Progress(q))
  /\ Queue!Fairness
-----------------------------------------------------------------------------
(* TaskService, JobQueue, Tickets and UnifiedApp say what these mean for     *)
(* their code.                                                             *)
FilesAreCurrent == Service!FilesAreCurrent
JobsAreNotLost == Queue!JobsAreNotLost
ReceiptEnds == Outbox!ReceiptEnds
EntryIsOrderly == Entry!EntryIsOrderly
=============================================================================
