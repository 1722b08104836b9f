-------------------------- MODULE ServicesProofs --------------------------
(***************************************************************************)
(* Proofs about the services, as MCServices puts them together.             *)
(*                                                                         *)
(* The invariant TasksInv is about the one row of the task and about each   *)
(* request that read it: a request may write only what it computed of the   *)
(* revision it read, so a row that is up for confirmation has the result of *)
(* its own input, and a file rendered of a row that has since been changed  *)
(* is never delivered.                                                     *)
(*                                                                         *)
(* EntryInv is about the entry of the server: who may hold the lock of the  *)
(* start, how often a name was tried, who made an account, whose the lease  *)
(* of a batch is.                                                          *)
(*                                                                         *)
(* TicketInv is about the outbox: who has its lock has a ticket without a   *)
(* receipt, in memory and in the file.                                     *)
(*                                                                         *)
(* QueueInv is about the jobs: what a worker is about to write, and what of *)
(* its job it may take for done.                                           *)
(***************************************************************************)
EXTENDS MCServices, Integers, TLAPS

TaskRow ==
  [revision : Nat, status : {"draft", "running", "needs_review", "failed", "approved"},
   input : Inputs, result : Inputs \cup {None}, approval : Inputs \cup {None}]

TaskJob ==
  [op : {"edit", "run", "approve", "export", "result"},
   stage : {"change", "tool", "render"}, revision : Nat, row : TaskRow]

NoneIsNoTask == None \notin TaskRow /\ None \notin TaskJob

TasksTyped ==
  /\ row \in TaskRow \cup {None}
  /\ asked \in [Requests -> TaskJob \cup {None}]

\* What may be confirmed, and what was, is a result of the input.
Confirmable(r) ==
  /\ r.status = "needs_review" => r.result = r.input
  /\ r.status = "approved" => r.result = r.input /\ r.approval = r.result

\* What a request holds of the row r: what it will store of the next revision, or
\* what it renders of this one.
Held(errand, r) ==
  /\ r # None
  /\ Confirmable(errand.row)
  /\ errand.stage = "render" =>
       /\ errand.row.status = "approved"
       /\ errand.revision <= r.revision
       /\ errand.revision = r.revision => errand.row = r
  /\ errand.stage = "change" => errand.row.revision = errand.revision + 1

TasksInv ==
  /\ TasksTyped
  /\ row # None => Confirmable(row)
  /\ \A r \in Requests : asked[r] # None => Held(asked[r], row)
  /\ FilesAreCurrent

\* A row of the next revision, with another status, result and approval.
ChangedTask(r, status, result, approval) ==
  [r EXCEPT !.revision = @ + 1, !.status = status, !.result = result, !.approval = approval]

LEMMA TaskChanges ==
  ASSUME NEW r \in TaskRow, NEW result \in Inputs \cup {None}, NEW approval \in Inputs \cup {None},
         NEW status \in {"draft", "running", "needs_review", "failed", "approved"}
  PROVE  ChangedTask(r, status, result, approval) \in TaskRow
<1> SUFFICES ASSUME NEW next, next = [r EXCEPT !.revision = @ + 1, !.status = status,
                                               !.result = result, !.approval = approval]
             PROVE  next \in TaskRow
  BY DEF ChangedTask
<1>1. next = [revision |-> r.revision + 1, status |-> status, input |-> r.input,
              result |-> result, approval |-> approval]
  BY DEF TaskRow
<1>2. r.revision + 1 \in Nat /\ r.input \in Inputs
  BY DEF TaskRow
<1> QED
  BY <1>1, <1>2, Zenon DEF TaskRow

\* A request takes up a errand, or gives its own up, and the row stays.
LEMMA TaskTurns ==
  ASSUME TasksInv, NoneIsNoTask, NEW r \in Requests, NEW errand \in TaskJob \cup {None},
         Service!Turn(r, errand), UNCHANGED <<row, file>>, errand # None => Held(errand, row)
  PROVE  TasksInv'
<1>1. TasksTyped'
  BY DEF TasksInv, TasksTyped, Service!Turn
<1>2. \A q \in Requests : asked'[q] # None => Held(asked'[q], row)
  BY DEF TasksInv, TasksTyped, Service!Turn
<1>3. \A q \in Requests : asked'[q] # None => Held(asked'[q], row')
  BY <1>2
<1> QED
  BY <1>1, <1>3 DEF TasksInv, FilesAreCurrent, Service!FilesAreCurrent, Confirmable

\* It stores what it made of the row it read.
LEMMA TaskStores ==
  ASSUME TasksInv, NoneIsNoTask, NEW r \in Requests, asked[r] # None, asked[r].stage = "change",
         row.revision = asked[r].revision, row' = asked[r].row, UNCHANGED file,
         NEW errand \in TaskJob \cup {None}, Service!Turn(r, errand), errand # None => Held(errand, row')
  PROVE  TasksInv'
<1>1. /\ asked[r] \in TaskJob
      /\ Held(asked[r], row)
  BY DEF TasksInv, TasksTyped
<1>2. /\ row' \in TaskRow
      /\ row' # None
      /\ Confirmable(row')
      /\ row \in TaskRow
      /\ row'.revision = row.revision + 1
      /\ row.revision \in Nat
  BY <1>1 DEF Held, TaskJob, TaskRow, NoneIsNoTask, TasksInv, TasksTyped
<1>3. TasksTyped'
  BY <1>2 DEF TasksInv, TasksTyped, Service!Turn
<1>4. ASSUME NEW q \in Requests, asked'[q] # None
      PROVE  Held(asked'[q], row')
  <2>1. CASE q = r
    BY <1>4, <2>1 DEF Service!Turn, TasksInv, TasksTyped
  <2>2. CASE q # r
    <3>1. /\ asked'[q] = asked[q]
          /\ Held(asked[q], row)
          /\ asked[q] \in TaskJob
      BY <1>4, <2>2 DEF Service!Turn, TasksInv, TasksTyped
    <3>2. asked[q].revision \in Nat
      BY <3>1 DEF TaskJob
    <3> QED
      BY <3>1, <3>2, <1>2 DEF Held
  <2> QED
    BY <2>1, <2>2
<1> QED
  BY <1>2, <1>3, <1>4 DEF TasksInv, FilesAreCurrent, Service!FilesAreCurrent

LEMMA TaskSteps == ASSUME NoneIsNoTask PROVE TasksInv /\ [Service!Next]_Service!vars => TasksInv'
<1> SUFFICES ASSUME TasksInv, [Service!Next]_Service!vars PROVE TasksInv'
  OBVIOUS
<1> USE NoneIsNoTask
<1>1. \A q \in Requests : asked[q] # None =>
        asked[q] \in TaskJob /\ Held(asked[q], row) /\ row # None /\ row \in TaskRow
  BY DEF TasksInv, TasksTyped, Held
<1>2. ASSUME NEW x \in Inputs, Service!Create(x) PROVE TasksInv'
  <2>1. \A q \in Requests : asked[q] = None
    BY <1>1, <1>2 DEF Service!Create
  <2>2. Service!Draft(1, x) \in TaskRow
    BY DEF Service!Draft, TaskRow
  <2>3. Confirmable(Service!Draft(1, x))
    BY DEF Service!Draft, Confirmable
  <2> QED
    BY <1>2, <2>1, <2>2, <2>3 DEF Service!Create, TasksInv, TasksTyped, FilesAreCurrent, Service!FilesAreCurrent
<1>3. ASSUME NEW r \in Requests, row # None, NEW op \in {"edit", "run", "approve", "export"},
             NEW to \in {"change", "render"}, NEW next \in TaskRow,
             Service!Begin(r, op, to, next), Confirmable(next),
             to = "render" => next = row /\ next.status = "approved",
             to = "change" => next.revision = row.revision + 1
      PROVE  TasksInv'
  <2> DEFINE errand == [op |-> op, stage |-> to, revision |-> row.revision, row |-> next]
  <2>1. row.revision \in Nat
    BY <1>3 DEF TasksInv, TasksTyped, TaskRow
  <2>2. errand \in TaskJob
    BY <2>1 DEF TaskJob
  <2>3. Held(errand, row)
    BY <1>3, <2>1 DEF Held
  <2>4. Service!Turn(r, errand) /\ UNCHANGED <<row, file>>
    BY <1>3 DEF Service!Begin
  <2> HIDE DEF errand
  <2> QED
    BY <2>2, <2>3, <2>4, TaskTurns
<1>4. ASSUME NEW r \in Requests, NEW x \in Inputs, Service!Edit(r, x) PROVE TasksInv'
  <2> DEFINE next == Service!Draft(row.revision + 1, x)
  <2>1. row # None /\ row \in TaskRow /\ row.revision \in Nat
    BY <1>4 DEF Service!Edit, TasksInv, TasksTyped, TaskRow
  <2>2. next \in TaskRow /\ Confirmable(next) /\ next.revision = row.revision + 1
    BY <2>1 DEF Service!Draft, TaskRow, Confirmable
  <2>3. Service!Begin(r, "edit", "change", next)
    BY <1>4 DEF Service!Edit
  <2> HIDE DEF next
  <2> QED
    BY <1>3, <2>1, <2>2, <2>3
<1>5. ASSUME NEW r \in Requests, Service!Run(r) PROVE TasksInv'
  <2> DEFINE next == [row EXCEPT !.revision = @ + 1, !.status = "running"]
  <2>1. row # None /\ row \in TaskRow /\ row.revision \in Nat
    BY <1>5 DEF Service!Run, TasksInv, TasksTyped, TaskRow
  <2>2. /\ next \in TaskRow
        /\ next.status = "running"
        /\ next.revision = row.revision + 1
    <3> DEFINE changed == ChangedTask(row, "running", row.result, row.approval)
    <3>1. row.result \in Inputs \cup {None}
      BY <2>1 DEF TaskRow
    <3>4. row.approval \in Inputs \cup {None}
      BY <2>1 DEF TaskRow
    <3>2. changed \in TaskRow
      BY <2>1, <3>1, <3>4, TaskChanges
    <3>5. changed.status = "running" /\ changed.revision = row.revision + 1
      BY <2>1 DEF TaskRow, ChangedTask
    <3>3. next = changed
      BY <2>1 DEF TaskRow, ChangedTask
    <3> HIDE DEF next, changed
    <3> QED
      BY <3>2, <3>3, <3>5
  <2>3. Service!Begin(r, "run", "change", next)
    BY <1>5 DEF Service!Run
  <2> HIDE DEF next
  <2> QED
    BY <1>3, <2>1, <2>2, <2>3 DEF Confirmable
<1>6. ASSUME NEW r \in Requests, Service!Approve(r) PROVE TasksInv'
  <2> DEFINE next == [row EXCEPT !.revision = @ + 1, !.status = "approved",
                                 !.approval = row.result]
  <2>1. /\ row # None /\ row \in TaskRow /\ row.revision \in Nat
        /\ row.result = row.input
    BY <1>6 DEF Service!Approve, TasksInv, TasksTyped, TaskRow, Confirmable
  <2>2. /\ next \in TaskRow
        /\ next.status = "approved"
        /\ next.result = next.input /\ next.approval = next.result
        /\ next.revision = row.revision + 1
    <3>1. row.result \in Inputs \cup {None}
      BY <2>1 DEF TaskRow
    <3> DEFINE changed == ChangedTask(row, "approved", row.result, row.result)
    <3>2. changed \in TaskRow
      BY <2>1, <3>1, TaskChanges
    <3>3. /\ changed.status = "approved"
          /\ changed.result = row.result /\ changed.approval = row.result
          /\ changed.input = row.input
          /\ changed.revision = row.revision + 1
      BY <2>1 DEF TaskRow, ChangedTask
    <3>4. next = changed
      BY <2>1 DEF TaskRow, ChangedTask
    <3> HIDE DEF next, changed
    <3> QED
      BY <2>1, <3>2, <3>3, <3>4
  <2>3. Service!Begin(r, "approve", "change", next)
    BY <1>6 DEF Service!Approve
  <2> HIDE DEF next
  <2> QED
    BY <1>3, <2>1, <2>2, <2>3 DEF Confirmable
<1>7. ASSUME NEW r \in Requests, Service!Export(r) PROVE TasksInv'
  <2>1. row # None /\ row \in TaskRow /\ Confirmable(row) /\ row.status = "approved"
    BY <1>7 DEF Service!Export, TasksInv, TasksTyped
  <2> QED
    BY <1>3, <1>7, <2>1 DEF Service!Export
<1>8. ASSUME NEW r \in Requests, Service!Change(r) PROVE TasksInv'
  <2> DEFINE next == IF asked[r].op = "run" THEN [asked[r] EXCEPT !.stage = "tool"] ELSE None
  <2>1. /\ asked[r] \in TaskJob /\ asked[r] # None /\ asked[r].stage = "change"
        /\ Held(asked[r], row) /\ row \in TaskRow /\ asked[r].row \in TaskRow
    BY <1>1, <1>8 DEF Service!Change, Service!At, TaskJob
  <2>2. next \in TaskJob \cup {None}
    BY <2>1 DEF TaskJob
  <2>3. next # None => Held(next, asked[r].row)
    BY <2>1 DEF Held, TaskJob, NoneIsNoTask
  <2> HIDE DEF next
  <2>4. CASE row.revision = asked[r].revision
    <3>1. row' = asked[r].row /\ UNCHANGED file /\ Service!Turn(r, next)
      BY <1>8, <2>4 DEF Service!Change, next
    <3> QED
      BY <2>1, <2>2, <2>3, <2>4, <3>1, TaskStores
  <2>5. CASE row.revision # asked[r].revision
    BY <1>8, <2>5, TaskTurns DEF Service!Change
  <2> QED
    BY <2>4, <2>5
<1>9. ASSUME NEW r \in Requests, NEW ok \in BOOLEAN, Service!Tool(r, ok) PROVE TasksInv'
  <2> DEFINE running == asked[r].row
             closed == [running EXCEPT !.revision = @ + 1,
                                      !.status = IF ok THEN "needs_review" ELSE "failed",
                                      !.result = IF ok THEN running.input ELSE @]
             next == [op |-> "result", stage |-> "change",
                      revision |-> running.revision, row |-> closed]
  <2>1. /\ asked[r] \in TaskJob /\ Held(asked[r], row)
        /\ running \in TaskRow /\ running.revision \in Nat /\ row # None
    BY <1>1, <1>9 DEF Service!Tool, Service!At, TaskJob, TaskRow
  <2>2. /\ closed \in TaskRow
        /\ closed.revision = running.revision + 1
        /\ closed.status \in {"failed", "needs_review"}
        /\ closed.status = "needs_review" => closed.result = closed.input
    <3>1. running.input \in Inputs \cup {None}
      BY <2>1 DEF TaskRow
    <3>4. running.result \in Inputs \cup {None}
      BY <2>1 DEF TaskRow
    <3>5. running.approval \in Inputs \cup {None}
      BY <2>1 DEF TaskRow
    <3>2. CASE ok
      <4> DEFINE changed == ChangedTask(running, "needs_review", running.input, running.approval)
      <4>1. changed \in TaskRow
        BY <2>1, <3>1, <3>4, <3>5, TaskChanges
      <4>3. /\ changed.revision = running.revision + 1
            /\ changed.status = "needs_review"
            /\ changed.result = running.input
            /\ changed.input = running.input
        BY <2>1 DEF TaskRow, ChangedTask
      <4>2. closed = changed
        BY <2>1, <3>2 DEF TaskRow, ChangedTask
      <4> HIDE DEF closed, changed
      <4> QED
        BY <4>1, <4>2, <4>3
    <3>3. CASE ~ok
      <4> DEFINE changed == ChangedTask(running, "failed", running.result, running.approval)
      <4>1. changed \in TaskRow
        BY <2>1, <3>1, <3>4, <3>5, TaskChanges
      <4>3. /\ changed.revision = running.revision + 1
            /\ changed.status = "failed"
            /\ changed.result = running.result
            /\ changed.input = running.input
        BY <2>1 DEF TaskRow, ChangedTask
      <4>2. closed = changed
        BY <2>1, <3>3 DEF TaskRow, ChangedTask
      <4> HIDE DEF closed, changed
      <4> QED
        BY <4>1, <4>2, <4>3
    <3> QED
      BY <3>2, <3>3, <3>5
  <2>3. Service!Turn(r, next) /\ UNCHANGED <<row, file>>
    BY <1>9 DEF Service!Tool
  <2> HIDE DEF closed, running
  <2>4. next \in TaskJob
    BY <2>1, <2>2 DEF TaskJob
  <2>5. Held(next, row)
    BY <2>1, <2>2 DEF Held, Confirmable
  <2> QED
    BY <2>3, <2>4, <2>5, TaskTurns
<1>10. ASSUME NEW r \in Requests, Service!Deliver(r) PROVE TasksInv'
  <2>1. /\ asked[r] \in TaskJob /\ Held(asked[r], row) /\ asked[r].stage = "render"
        /\ Confirmable(asked[r].row)
    BY <1>1, <1>10 DEF Service!Deliver, Service!At, Held
  <2>2. FilesAreCurrent'
    BY <1>10, <2>1 DEF Service!Deliver, Held, Confirmable, TasksInv, FilesAreCurrent, Service!FilesAreCurrent
  <2>3. Service!Turn(r, None) /\ row' = row
    BY <1>10 DEF Service!Deliver
  <2>4. TasksTyped'
    BY <2>3 DEF TasksInv, TasksTyped, Service!Turn
  <2>5. \A q \in Requests : asked'[q] # None => Held(asked'[q], row')
    BY <2>3 DEF TasksInv, TasksTyped, Service!Turn
  <2> QED
    BY <2>2, <2>3, <2>4, <2>5 DEF TasksInv
<1>11. ASSUME NEW r \in Requests, Service!Die(r) PROVE TasksInv'
  BY <1>11, TaskTurns DEF Service!Die
<1>12. CASE UNCHANGED Service!vars
  BY <1>12 DEF Service!vars, TasksInv, TasksTyped, FilesAreCurrent, Service!FilesAreCurrent
<1> QED
  BY <1>2, <1>4, <1>5, <1>6, <1>7, <1>8, <1>9, <1>10, <1>11, <1>12 DEF Service!Next

(* A delivered file shows the task as it is, approved and with the confirmed *)
(* result of its present input, for any set of requests and inputs:         *)
(* core/app.py reads the row once, writes it back under its revision only,  *)
(* and compares the revision again before it hands a file out.              *)
THEOREM FilesShowTheTask ==
  ASSUME NoneIsNoTask PROVE Service!Spec => []FilesAreCurrent
<1>1. Service!Init => TasksInv
  BY DEF Service!Init, TasksInv, TasksTyped, FilesAreCurrent, Service!FilesAreCurrent
<1>2. TasksInv => FilesAreCurrent
  BY DEF TasksInv
<1> QED
  BY <1>1, <1>2, TaskSteps, PTL DEF Service!Spec
-----------------------------------------------------------------------------
(* The entry of the complete server (UnifiedApp).                           *)
Arrival == [at : {"new", "refused", "waiting", "starting", "served", "gone"},
            got : Arrivals \cup {None}]
Account == [at : {"new", "inserting", "refused", "created"}, name : Names \cup {None}]

NoneIsNoArrival == None \notin Arrivals
LimitIsANumber == Limit \in Nat

\* Whoever starts the runtime holds the lock, and nobody is served before.
StartupInv ==
  /\ serving \in Arrivals \cup {None} /\ open \subseteq Arrivals /\ starter \in Arrivals \cup {None}
  /\ get \in [Arrivals -> Arrival]
  /\ serving # None => serving \in open
  /\ \A r \in Arrivals : get[r].at = "served" => serving # None /\ get[r].got = serving
  /\ \A r \in Arrivals : get[r].at = "starting" => starter = r /\ serving = None /\ r \in open

\* In Redis an attempt is counted before its password is compared.
EntranceInv ==
  /\ profile \in {"services", "offline"}
  /\ counted \in Int /\ compared \in Nat
  /\ profile = "services" => compared <= counted /\ compared <= Limit

AccountsInv ==
  /\ users \in [Names -> Arrivals \cup {None}]
  /\ setup \in [Arrivals -> Account]
  /\ \A r \in Arrivals : setup[r].at \in {"inserting", "created"} => setup[r].name \in Names
  /\ \A r \in Arrivals : setup[r].at = "created" => users[setup[r].name] = r

\* Whoever works off jobs in time has the lease.
BatchInv ==
  /\ lease \in Arrivals \cup {None}
  /\ job \in [Arrivals -> {"new", "refused", "working", "late", "done", "dead"}]
  /\ \A r \in Arrivals : job[r] = "working" => lease = r

EntryInv == StartupInv /\ EntranceInv /\ AccountsInv /\ BatchInv

\* The row of a request moves on, what it was given stays.
LEMMA ArrivalMoves ==
  ASSUME NEW r \in Arrivals, get \in [Arrivals -> Arrival], NEW to \in {"refused", "waiting", "starting", "gone"},
         Entry!Moved(r, to)
  PROVE  /\ get' \in [Arrivals -> Arrival]
         /\ get'[r].at = to
         /\ \A q \in Arrivals \ {r} : get'[q] = get[q]
<1>1. PICK next : next = [get[r] EXCEPT !.at = to]
  OBVIOUS
<1>2. next \in Arrival /\ next.at = to
  BY <1>1 DEF Arrival
<1>3. get' = [get EXCEPT ![r] = next]
  BY <1>1 DEF Entry!Moved
<1> QED
  BY <1>2, <1>3

LEMMA ArrivalServed ==
  ASSUME NEW r \in Arrivals, get \in [Arrivals -> Arrival], NEW by \in Arrivals,
         get' = [get EXCEPT ![r] = [at |-> "served", got |-> by]]
  PROVE  /\ get' \in [Arrivals -> Arrival]
         /\ get'[r].at = "served" /\ get'[r].got = by
         /\ \A q \in Arrivals \ {r} : get'[q] = get[q]
<1>1. PICK next : next = [at |-> "served", got |-> by]
  OBVIOUS
<1>2. next \in Arrival /\ next.at = "served" /\ next.got = by
  BY <1>1 DEF Arrival
<1> QED
  BY <1>1, <1>2

LEMMA StartupSteps ==
  ASSUME NoneIsNoArrival, StartupInv, Entry!Startup PROVE StartupInv'
<1>1. ASSUME NEW r \in Arrivals, NEW signed \in BOOLEAN, Entry!Enter(r, signed) PROVE StartupInv'
  <2>1. CASE Entry!Served(r) /\ serving # None
    <3>1. /\ get' \in [Arrivals -> Arrival]
          /\ get'[r].at = "served" /\ get'[r].got = serving
          /\ \A q \in Arrivals \ {r} : get'[q] = get[q]
      BY <2>1, ArrivalServed DEF Entry!Served, StartupInv
    <3> QED
      BY <1>1, <2>1, <3>1 DEF Entry!Enter, StartupInv
  <2>2. ASSUME NEW to \in {"refused", "waiting"}, Entry!Moved(r, to) PROVE StartupInv'
    <3>1. /\ get' \in [Arrivals -> Arrival]
          /\ get'[r].at = to
          /\ \A q \in Arrivals \ {r} : get'[q] = get[q]
      BY <2>2, ArrivalMoves DEF StartupInv
    <3> QED
      BY <1>1, <3>1 DEF Entry!Enter, StartupInv
  <2> QED
    BY <1>1, <2>1, <2>2 DEF Entry!Enter
<1>2. ASSUME NEW r \in Arrivals, Entry!Begin(r) PROVE StartupInv'
  <2>1. CASE serving # None /\ Entry!Served(r) /\ UNCHANGED <<open, starter>>
    <3>1. /\ get' \in [Arrivals -> Arrival]
          /\ get'[r].at = "served" /\ get'[r].got = serving
          /\ \A q \in Arrivals \ {r} : get'[q] = get[q]
      BY <2>1, ArrivalServed DEF Entry!Served, StartupInv
    <3> QED
      BY <1>2, <2>1, <3>1 DEF Entry!Begin, StartupInv
  <2>2. CASE Entry!Moved(r, "refused") /\ UNCHANGED <<open, starter>>
    <3>1. /\ get' \in [Arrivals -> Arrival]
          /\ get'[r].at = "refused"
          /\ \A q \in Arrivals \ {r} : get'[q] = get[q]
      BY <2>2, ArrivalMoves DEF StartupInv
    <3> QED
      BY <1>2, <2>2, <3>1 DEF Entry!Begin, StartupInv
  <2>3. CASE serving = None /\ Entry!Moved(r, "starting") /\ open' = open \cup {r} /\ starter' = r
    <3>1. /\ get' \in [Arrivals -> Arrival]
          /\ get'[r].at = "starting"
          /\ \A q \in Arrivals \ {r} : get'[q] = get[q]
      BY <2>3, ArrivalMoves DEF StartupInv
    <3>2. \A q \in Arrivals : get[q].at # "starting"
      BY <1>2 DEF Entry!Begin, StartupInv, NoneIsNoArrival
    <3> QED
      BY <1>2, <2>3, <3>1, <3>2 DEF Entry!Begin, StartupInv
  <2> QED
    BY <1>2, <2>1, <2>2, <2>3 DEF Entry!Begin, Entry!StartedMeanwhile
<1>3. ASSUME NEW r \in Arrivals, Entry!Start(r) PROVE StartupInv'
  <2>1. /\ get' \in [Arrivals -> Arrival]
        /\ get'[r].at = "served" /\ get'[r].got = r
        /\ \A q \in Arrivals \ {r} : get'[q] = get[q]
    BY <1>3, ArrivalServed DEF Entry!Start, StartupInv
  <2>2. /\ serving = None /\ r \in open
        /\ \A q \in Arrivals \ {r} : get[q].at \notin {"served", "starting"}
    BY <1>3 DEF Entry!Start, StartupInv
  <2> QED
    BY <1>3, <2>1, <2>2 DEF Entry!Start, StartupInv, NoneIsNoArrival
<1>4. ASSUME NEW r \in Arrivals, Entry!FailToStart(r) PROVE StartupInv'
  <2>1. /\ get' \in [Arrivals -> Arrival]
        /\ get'[r].at = "refused"
        /\ \A q \in Arrivals \ {r} : get'[q] = get[q]
    BY <1>4, ArrivalMoves DEF Entry!FailToStart, StartupInv
  <2>2. /\ serving = None
        /\ \A q \in Arrivals \ {r} : get[q].at \notin {"served", "starting"}
    BY <1>4 DEF Entry!FailToStart, StartupInv
  <2> QED
    BY <1>4, <2>1, <2>2 DEF Entry!FailToStart, StartupInv
<1>5. ASSUME NEW r \in Arrivals, Entry!Abandon(r) PROVE StartupInv'
  <2>1. /\ get' \in [Arrivals -> Arrival]
        /\ get'[r].at = "gone"
        /\ \A q \in Arrivals \ {r} : get'[q] = get[q]
    BY <1>5, ArrivalMoves DEF Entry!Abandon, StartupInv
  <2>2. \A q \in Arrivals \ {r} : get[q].at = "starting" => starter' = starter
    BY <1>5 DEF Entry!Abandon, StartupInv
  <2> QED
    BY <1>5, <2>1, <2>2 DEF Entry!Abandon, StartupInv
<1>6. CASE Entry!CoolDown
  BY <1>6 DEF Entry!CoolDown, StartupInv
<1> QED
  BY <1>1, <1>2, <1>3, <1>4, <1>5, <1>6 DEF Entry!Startup

LEMMA EntranceSteps ==
  ASSUME LimitIsANumber, EntranceInv, Entry!Entrance PROVE EntranceInv'
BY DEF LimitIsANumber, EntranceInv, Entry!Entrance, Entry!Attempt, Entry!CountedFirst, Entry!Deny,
       Entry!Admit, Entry!Again, Entry!WindowEnds, Entry!FailureFades

LEMMA AccountsSteps ==
  ASSUME NoneIsNoArrival, AccountsInv, Entry!Accounts PROVE AccountsInv'
<1>1. ASSUME NEW r \in Arrivals, NEW name \in Names, NEW authorized \in BOOLEAN,
             Entry!Register(r, name, authorized)
      PROVE  AccountsInv'
  <2>1. PICK next : next = [at |-> IF authorized /\ users[name] = None THEN "inserting" ELSE "refused",
                            name |-> name]
    OBVIOUS
  <2>2. next \in Account /\ next.at # "created" /\ next.name = name
    BY <2>1 DEF Account
  <2>3. setup' = [setup EXCEPT ![r] = next] /\ users' = users
    BY <1>1, <2>1 DEF Entry!Register
  <2> QED
    BY <2>2, <2>3 DEF AccountsInv
<1>2. ASSUME NEW r \in Arrivals, Entry!Create(r) PROVE AccountsInv'
  <2>1. PICK name \in Names : name = setup[r].name
    BY <1>2 DEF Entry!Create, AccountsInv
  <2>2. CASE users[name] = None
    <3>1. PICK next : next = [setup[r] EXCEPT !.at = "created"]
      OBVIOUS
    <3>2. next \in Account /\ next.at = "created" /\ next.name = name
      BY <2>1, <3>1 DEF Account, AccountsInv
    <3>3. setup' = [setup EXCEPT ![r] = next] /\ users' = [users EXCEPT ![name] = r]
      BY <1>2, <2>1, <2>2, <3>1 DEF Entry!Create, Entry!Inserted
    <3>4. \A q \in Arrivals : setup[q].at = "created" => setup[q].name # name
      BY <2>2 DEF AccountsInv, NoneIsNoArrival
    <3> QED
      BY <3>2, <3>3, <3>4 DEF AccountsInv
  <2>3. CASE users[name] # None
    <3>1. PICK next : next = [setup[r] EXCEPT !.at = "refused"]
      OBVIOUS
    <3>2. next \in Account /\ next.at = "refused"
      BY <3>1 DEF Account, AccountsInv
    <3>3. setup' = [setup EXCEPT ![r] = next] /\ users' = users
      BY <1>2, <2>1, <2>3, <3>1 DEF Entry!Create, Entry!Inserted
    <3> QED
      BY <3>2, <3>3 DEF AccountsInv
  <2> QED
    BY <2>2, <2>3
<1> QED
  BY <1>1, <1>2 DEF Entry!Accounts

LEMMA BatchSteps ==
  ASSUME NoneIsNoArrival, BatchInv, Entry!Batch PROVE BatchInv'
<1>1. ASSUME NEW r \in Arrivals, Entry!Acquire(r) PROVE BatchInv'
  BY <1>1 DEF Entry!Acquire, BatchInv, NoneIsNoArrival
<1>2. ASSUME NEW r \in Arrivals, Entry!Release(r) PROVE BatchInv'
  BY <1>2 DEF Entry!Release, Entry!LeftBy, BatchInv, NoneIsNoArrival
<1>3. ASSUME NEW r \in Arrivals, Entry!Die(r) PROVE BatchInv'
  BY <1>3 DEF Entry!Die, BatchInv
<1>4. CASE Entry!LeaseExpires
  BY <1>4 DEF Entry!LeaseExpires, BatchInv
<1> QED
  BY <1>1, <1>2, <1>3, <1>4 DEF Entry!Batch

LEMMA EntrySteps ==
  ASSUME NoneIsNoArrival, LimitIsANumber PROVE EntryInv /\ [Entry!Next]_Entry!vars => EntryInv'
<1> SUFFICES ASSUME EntryInv, [Entry!Next]_Entry!vars PROVE EntryInv'
  OBVIOUS
<1>1. UNCHANGED Entry!startup => StartupInv'
  BY DEF EntryInv, StartupInv, Entry!startup
<1>2. UNCHANGED Entry!entrance => EntranceInv'
  BY DEF EntryInv, EntranceInv, Entry!entrance
<1>3. UNCHANGED Entry!accounts => AccountsInv'
  BY DEF EntryInv, AccountsInv, Entry!accounts
<1>4. UNCHANGED Entry!batch => BatchInv'
  BY DEF EntryInv, BatchInv, Entry!batch
<1>5. CASE Entry!Next
  BY <1>1, <1>2, <1>3, <1>4, <1>5, StartupSteps, EntranceSteps, AccountsSteps, BatchSteps
  DEF Entry!Next, EntryInv
<1>6. CASE UNCHANGED Entry!vars
  BY <1>1, <1>2, <1>3, <1>4, <1>6 DEF Entry!vars, EntryInv
<1> QED
  BY <1>5, <1>6

(* For any number of requests, user names and instances, abandoned or dead  *)
(* at any point: one open runtime serves all, the counter in Redis bounds    *)
(* the passwords compared, an account once made stands, and jobs are worked  *)
(* off under one lease at a time (unified/app.py, unified/runtime.py).       *)
THEOREM EntryStaysOrderly ==
  ASSUME NoneIsNoArrival, LimitIsANumber PROVE Entry!Spec => []EntryIsOrderly
<1>1. Entry!Init => EntryInv
  BY DEF Entry!Init, EntryInv, StartupInv, Arrival, EntranceInv, LimitIsANumber, AccountsInv, Account,
         BatchInv
<1>2. EntryInv => EntryIsOrderly
  <2> SUFFICES ASSUME EntryInv PROVE EntryIsOrderly
    OBVIOUS
  <2>1. Entry!OneRuntime
    BY DEF EntryInv, StartupInv, Entry!OneRuntime
  <2>2. Entry!OneWorker
    BY DEF EntryInv, BatchInv, Entry!OneWorker
  <2>3. Entry!AttemptsAreLimited /\ Entry!AccountsStand
    BY DEF EntryInv, EntranceInv, AccountsInv, Entry!AttemptsAreLimited, Entry!AccountsStand
  <2> QED
    BY <2>1, <2>2, <2>3 DEF EntryIsOrderly, Entry!EntryIsOrderly
<1> QED
  BY <1>1, <1>2, EntrySteps, PTL DEF Entry!Spec
-----------------------------------------------------------------------------
(* The ticket outbox (Tickets).                                            *)

NoneIsNoTurn == None \notin Requests /\ None \notin {"call", "answer"}

\* One request at a time is at the service, with a ticket that has no receipt.
TicketInv ==
  /\ ticket = saved
  /\ DOMAIN stage = Requests
  /\ \A r \in Requests : stage[r] \in {"call", "answer"} =>
       holder = r /\ ticket # "submitted"

LEMMA TicketSteps ==
  ASSUME NoneIsNoTurn, TicketInv, [Outbox!Next]_(Outbox!vars)
  PROVE  TicketInv' /\ (sent' # sent => "submitted" \notin {ticket, saved})
<1>1. CASE UNCHANGED Outbox!vars
  BY <1>1 DEF Outbox!vars, TicketInv
<1>2. ASSUME NEW r \in Requests, Outbox!Ask(r)
      PROVE  TicketInv' /\ sent' = sent
  BY <1>2 DEF Outbox!Ask, Outbox!Turn, TicketInv
<1>3. ASSUME NEW r \in Requests, Outbox!Begin(r)
      PROVE  TicketInv' /\ sent' = sent
  <2>1. \A q \in Requests : stage[q] \notin {"call", "answer"}
    BY <1>3 DEF Outbox!Begin, TicketInv, NoneIsNoTurn
  <2> QED
    BY <1>3, <2>1 DEF Outbox!Begin, Outbox!Turn, TicketInv, NoneIsNoTurn
<1>4. ASSUME NEW r \in Requests, Outbox!Take(r)
      PROVE  TicketInv' /\ "submitted" \notin {ticket, saved}
  BY <1>4 DEF Outbox!Take, Outbox!Turn, TicketInv
<1>5. ASSUME NEW r \in Requests, Outbox!Receipt(r) \/ Outbox!Fail(r)
      PROVE  TicketInv' /\ sent' = sent
  <2>1. \A q \in Requests : q # r => stage[q] \notin {"call", "answer"}
    BY <1>5 DEF Outbox!Receipt, Outbox!Fail, TicketInv
  <2> QED
    BY <1>5, <2>1 DEF Outbox!Receipt, Outbox!Fail, Outbox!End, Outbox!Turn, TicketInv, NoneIsNoTurn
<1>6. ASSUME Outbox!Restart PROVE TicketInv' /\ sent' = sent
  BY <1>6 DEF Outbox!Restart, TicketInv, NoneIsNoTurn
<1> QED
  BY <1>1, <1>2, <1>3, <1>4, <1>5, <1>6 DEF Outbox!Next, Outbox!vars

\* However many requests draft, send and retry a ticket, and however often the
\* instance restarts, it is not sent again once its receipt was saved
\* (operations.TicketOutbox.submit).
THEOREM ReceiptIsTheEnd ==
  ASSUME NoneIsNoTurn PROVE Outbox!Spec => ReceiptEnds
<1>1. Outbox!Init => TicketInv
  BY DEF Outbox!Init, TicketInv, NoneIsNoTurn
<1>2. TicketInv /\ [Outbox!Next]_(Outbox!vars) =>
        TicketInv' /\ [sent' # sent => "submitted" \notin {ticket, saved}]_(Outbox!vars)
  BY TicketSteps
<1> QED
  BY <1>1, <1>2, PTL DEF Outbox!Spec, ReceiptEnds, Outbox!ReceiptEnds

-----------------------------------------------------------------------------
(* The queue of jobs (JobQueue).                                           *)
JobRow == [status : {"queued", "running", "completed", "failed"}, attempts : Nat]

WorkRow ==
  [job : Jobs, stage : {"taken", "start", "run", "progress", "end", "ack"},
   row : JobRow \cup {None}, outcome : {"completed", "failed", None}]

NoneIsNoJob == None \notin JobRow /\ None \notin WorkRow

\* What a worker is about to write leaves the job open, or ends it; what it is
\* about to acknowledge was ended.
Sound(k) ==
  /\ jobs[k.job] # None
  /\ k.stage \in {"start", "progress"} => k.row \in JobRow /\ k.row.status = "running"
  /\ k.stage = "end" => k.row \in JobRow
  /\ k.stage = "ack" => k.job \in ended

\* A row that says completed was ended, and so was a job whose entry is gone.
RowsTrue ==
  /\ jobs \in [Jobs -> JobRow \cup {None}]
  /\ \A j \in Jobs : jobs[j] # None /\ jobs[j].status = "completed" => j \in ended

EntriesTrue ==
  /\ sending \subseteq Jobs
  /\ entry \in [Jobs -> {"none", "new", "pending", "idle", "acked"}]
  /\ \A j \in Jobs : j \in sending \/ entry[j] # "none" => jobs[j] # None
  /\ Queue!AcknowledgedEnded

WorkersSound ==
  /\ doing \in [Workers -> WorkRow \cup {None}]
  /\ \A w \in Workers : doing[w] # None => Sound(doing[w])

QueueInv == RowsTrue /\ EntriesTrue /\ WorkersSound

\* A worker turns to k, and no row changes.
LEMMA WorkerTurns ==
  ASSUME QueueInv, NEW w \in Workers, NEW k \in WorkRow \cup {None}, k # None => Sound(k),
         doing' = [doing EXCEPT ![w] = k], UNCHANGED <<jobs, ended>>
  PROVE  WorkersSound' /\ RowsTrue'
<1>1. \A v \in Workers : doing'[v] = IF v = w THEN k ELSE doing[v]
  BY DEF QueueInv, WorkersSound
<1> QED
  BY <1>1 DEF QueueInv, WorkersSound, RowsTrue, Sound

\* A worker writes the row of its job and turns to k.
LEMMA WorkerWrites ==
  ASSUME QueueInv, NoneIsNoJob, NEW w \in Workers, doing[w] # None,
         NEW r \in JobRow, jobs' = [jobs EXCEPT ![doing[w].job] = r],
         ended \subseteq ended', r.status = "completed" => doing[w].job \in ended',
         NEW k \in WorkRow, k.job = doing[w].job, k.stage \in {"run", "ack"},
         k.stage = "ack" => k.job \in ended',
         doing' = [doing EXCEPT ![w] = k], UNCHANGED <<sending, entry>>
  PROVE  QueueInv'
<1>1. doing[w].job \in Jobs
  BY DEF QueueInv, WorkersSound, WorkRow
<1>2. \A j \in Jobs : jobs'[j] = IF j = doing[w].job THEN r ELSE jobs[j]
  BY <1>1 DEF QueueInv, RowsTrue
<1>3. \A v \in Workers : doing'[v] = IF v = w THEN k ELSE doing[v]
  BY DEF QueueInv, WorkersSound
<1>4. r # None
  BY DEF NoneIsNoJob
<1>5. RowsTrue'
  BY <1>1, <1>2, <1>4 DEF QueueInv, RowsTrue
<1>6. EntriesTrue'
  BY <1>1, <1>2, <1>4 DEF QueueInv, EntriesTrue, Queue!AcknowledgedEnded
<1>7. ASSUME NEW v \in Workers, doing'[v] # None PROVE Sound(doing[v])'
  <2>1. CASE v = w
    BY <1>1, <1>2, <1>3, <1>4, <2>1 DEF Sound
  <2>2. CASE v # w
    <3>1. doing'[v] = doing[v] /\ doing[v] \in WorkRow /\ Sound(doing[v])
      BY <1>3, <1>7, <2>2 DEF QueueInv, WorkersSound
    <3>2. jobs'[doing[v].job] # None
      BY <1>2, <1>4, <3>1 DEF Sound, WorkRow
    <3> QED
      BY <3>1, <3>2 DEF Sound
  <2> QED
    BY <2>1, <2>2
<1>8. doing' \in [Workers -> WorkRow \cup {None}]
  BY DEF QueueInv, WorkersSound
<1> QED
  BY <1>5, <1>6, <1>7, <1>8 DEF QueueInv, WorkersSound

LEMMA JobSteps ==
  ASSUME NoneIsNoJob, QueueInv, [Queue!Next]_(Queue!vars) PROVE QueueInv'
<1> USE NoneIsNoJob
<1>1. ASSUME NEW j \in Jobs, Queue!Enqueue(j) PROVE QueueInv'
  <2>1. PICK r : r = [status |-> "queued", attempts |-> 0]
    OBVIOUS
  <2>2. r \in JobRow /\ r # None /\ r.status = "queued"
    BY <2>1 DEF JobRow, NoneIsNoJob
  <2>3. \A i \in Jobs : jobs'[i] = IF i = j THEN r ELSE jobs[i]
    BY <1>1, <2>1 DEF Queue!Enqueue, QueueInv, RowsTrue
  <2>4. jobs' \in [Jobs -> JobRow \cup {None}]
    BY <1>1, <2>1, <2>2 DEF Queue!Enqueue, QueueInv, RowsTrue
  <2>5. RowsTrue' /\ EntriesTrue'
    BY <1>1, <2>2, <2>3, <2>4 DEF Queue!Enqueue, QueueInv, RowsTrue, EntriesTrue, Queue!AcknowledgedEnded
  <2>6. WorkersSound'
    BY <1>1, <2>2, <2>3 DEF Queue!Enqueue, QueueInv, WorkersSound, Sound, WorkRow
  <2> QED
    BY <2>5, <2>6 DEF QueueInv
<1>2. ASSUME NEW j \in Jobs, Queue!Publish(j) \/ Queue!LoseJob(j) \/ Queue!Idle(j) PROVE QueueInv'
  <2>1. RowsTrue' /\ WorkersSound'
    BY <1>2 DEF Queue!Publish, Queue!LoseJob, Queue!Idle, QueueInv, RowsTrue, WorkersSound, Sound
  <2>2. EntriesTrue'
    BY <1>2 DEF Queue!Publish, Queue!LoseJob, Queue!Idle, QueueInv, EntriesTrue, Queue!AcknowledgedEnded
  <2> QED
    BY <2>1, <2>2 DEF QueueInv
<1>3. ASSUME NEW w \in Workers, NEW j \in Jobs, Queue!Take(w, j) PROVE QueueInv'
  <2>1. PICK k : k = [job |-> j, stage |-> "taken", row |-> None, outcome |-> None]
    OBVIOUS
  <2>2. k \in WorkRow /\ Sound(k)
    BY <1>3, <2>1 DEF Queue!Take, QueueInv, EntriesTrue, WorkRow, Sound
  <2>3. doing' = [doing EXCEPT ![w] = k] /\ UNCHANGED <<jobs, sending, ended>>
    BY <1>3, <2>1 DEF Queue!Take
  <2>4. RowsTrue' /\ WorkersSound'
    BY <2>2, <2>3, WorkerTurns
  <2>5. EntriesTrue'
    BY <1>3, <2>3 DEF Queue!Take, QueueInv, EntriesTrue, Queue!AcknowledgedEnded
  <2> QED
    BY <2>4, <2>5 DEF QueueInv
<1>4. ASSUME NEW w \in Workers, doing[w] # None
      PROVE  doing[w] \in WorkRow /\ Sound(doing[w]) /\ jobs[doing[w].job] \in JobRow
  BY <1>4 DEF QueueInv, WorkersSound, RowsTrue, WorkRow, Sound
<1>5. ASSUME NEW w \in Workers, NEW next \in {"start", "run", "progress", "end", "ack"},
             NEW r \in JobRow \cup {None}, NEW o \in {"completed", "failed", None},
             doing[w] # None,
             doing' = [doing EXCEPT ![w] = [doing[w] EXCEPT !.stage = next, !.row = r, !.outcome = o]],
             next \in {"start", "progress"} => r \in JobRow /\ r.status = "running",
             next = "end" => r \in JobRow,
             next = "ack" => doing[w].job \in ended,
             UNCHANGED <<jobs, sending, entry, ended>>
      PROVE  QueueInv'
  <2>1. PICK k : k = [doing[w] EXCEPT !.stage = next, !.row = r, !.outcome = o]
    OBVIOUS
  <2>2. k \in WorkRow /\ Sound(k)
    BY <1>4, <1>5, <2>1 DEF WorkRow, Sound
  <2>3. doing' = [doing EXCEPT ![w] = k]
    BY <1>5, <2>1
  <2>4. RowsTrue' /\ WorkersSound'
    BY <1>5, <2>2, <2>3, WorkerTurns
  <2>5. EntriesTrue'
    BY <1>5 DEF QueueInv, EntriesTrue, Queue!AcknowledgedEnded
  <2> QED
    BY <2>4, <2>5 DEF QueueInv
<1>6. ASSUME NEW w \in Workers, Queue!Look(w) PROVE QueueInv'
  <2>1. PICK k : k = doing[w]
    OBVIOUS
  <2>2. doing[w] # None /\ k \in WorkRow /\ Sound(k) /\ jobs[k.job] \in JobRow
    BY <1>4, <1>6, <2>1 DEF Queue!Look, Queue!At
  <2>3. PICK old : old = jobs[k.job]
    OBVIOUS
  <2>4. CASE old.status = "completed"
    <3>1. k.job \in ended
      BY <2>2, <2>3, <2>4 DEF QueueInv, RowsTrue, WorkRow, NoneIsNoJob
    <3>2. doing' = [doing EXCEPT ![w] = [k EXCEPT !.stage = "ack", !.row = None, !.outcome = k.outcome]]
      BY <1>6, <2>1, <2>2, <2>3, <2>4 DEF Queue!Look, Queue!Doing, WorkRow, QueueInv, WorkersSound
    <3> QED
      BY <1>5, <1>6, <2>1, <2>2, <3>1, <3>2 DEF Queue!Look, WorkRow
  <2>5. ASSUME NEW r \in JobRow, NEW next \in {"start", "end"},
               next = "start" => r.status = "running",
               doing' = [doing EXCEPT ![w].stage = next, ![w].row = r]
        PROVE  QueueInv'
    <3>1. doing' = [doing EXCEPT ![w] = [k EXCEPT !.stage = next, !.row = r, !.outcome = k.outcome]]
      BY <2>1, <2>2, <2>5 DEF WorkRow, QueueInv, WorkersSound
    <3>2. UNCHANGED <<jobs, sending, entry, ended>> /\ k.outcome \in {"completed", "failed", None}
      BY <1>6, <2>2 DEF Queue!Look, WorkRow
    <3> QED
      BY <1>5, <2>1, <2>2, <2>5, <3>1, <3>2
  <2>6. CASE old.status # "completed" /\ old.attempts >= MaxAttempts
    <3>1. PICK r : r = [old EXCEPT !.status = "failed"]
      OBVIOUS
    <3>2. r \in JobRow
      BY <2>2, <2>3, <3>1 DEF JobRow
    <3> QED
      BY <1>6, <2>1, <2>3, <2>5, <2>6, <3>1, <3>2 DEF Queue!Look, Queue!Doing
  <2>7. CASE old.status # "completed" /\ ~(old.attempts >= MaxAttempts)
    <3>1. PICK r : r = [status |-> "running", attempts |-> old.attempts + 1]
      OBVIOUS
    <3>2. r \in JobRow /\ r.status = "running"
      BY <2>2, <2>3, <3>1 DEF JobRow
    <3> QED
      BY <1>6, <2>1, <2>3, <2>5, <2>7, <3>1, <3>2 DEF Queue!Look, Queue!Doing
  <2> QED
    BY <2>4, <2>6, <2>7
<1>7. ASSUME NEW w \in Workers, Queue!Start(w) \/ Queue!WriteProgress(w) PROVE QueueInv'
  <2>1. PICK k : k = doing[w]
    OBVIOUS
  <2>2. /\ doing[w] # None /\ k \in WorkRow /\ k.row \in JobRow /\ k.row.status = "running"
    BY <1>4, <1>7, <2>1 DEF Queue!Start, Queue!WriteProgress, Queue!At, Sound
  <2>3. PICK next : next = [k EXCEPT !.stage = "run", !.row = None]
    OBVIOUS
  <2>4. next \in WorkRow /\ next.job = k.job /\ next.stage = "run"
    BY <2>2, <2>3 DEF WorkRow
  <2>5. doing' = [doing EXCEPT ![w] = next]
    BY <1>7, <2>1, <2>2, <2>3 DEF Queue!Start, Queue!WriteProgress, Queue!Doing, QueueInv, WorkersSound
  <2>6. jobs' = [jobs EXCEPT ![k.job] = k.row] /\ UNCHANGED <<sending, entry, ended>>
    BY <1>7, <2>1 DEF Queue!Start, Queue!WriteProgress
  <2> QED
    BY <2>1, <2>2, <2>4, <2>5, <2>6, WorkerWrites
<1>8. ASSUME NEW w \in Workers, Queue!End(w) PROVE QueueInv'
  <2>1. PICK k : k = doing[w]
    OBVIOUS
  <2>2. /\ doing[w] # None /\ k \in WorkRow /\ k.row \in JobRow
    BY <1>4, <1>8, <2>1 DEF Queue!End, Queue!At, Sound
  <2>3. PICK next : next = [k EXCEPT !.stage = "ack", !.row = None]
    OBVIOUS
  <2>4. next \in WorkRow /\ next.job = k.job /\ next.stage = "ack"
    BY <2>2, <2>3 DEF WorkRow
  <2>5. doing' = [doing EXCEPT ![w] = next]
    BY <1>8, <2>1, <2>2, <2>3 DEF Queue!End, Queue!Doing, QueueInv, WorkersSound
  <2>6. /\ jobs' = [jobs EXCEPT ![k.job] = k.row] /\ UNCHANGED <<sending, entry>>
        /\ ended' = ended \cup {k.job}
    BY <1>8, <2>1 DEF Queue!End
  <2>7. ended \subseteq ended' /\ k.job \in ended'
    BY <2>6
  <2> QED
    BY <2>1, <2>2, <2>4, <2>5, <2>6, <2>7, WorkerWrites
<1>9. ASSUME NEW w \in Workers, Queue!Acknowledge(w) \/ Queue!Crash(w) PROVE QueueInv'
  <2>1. doing' = [doing EXCEPT ![w] = None] /\ UNCHANGED <<jobs, sending, ended>>
    BY <1>9 DEF Queue!Acknowledge, Queue!Crash, Queue!Done
  <2>2. RowsTrue' /\ WorkersSound'
    BY <2>1, WorkerTurns
  <2>3. CASE Queue!Crash(w)
    BY <2>1, <2>2, <2>3 DEF Queue!Crash, QueueInv, EntriesTrue, Queue!AcknowledgedEnded
  <2>4. CASE Queue!Acknowledge(w)
    <3>1. doing[w].job \in Jobs /\ doing[w].job \in ended /\ jobs[doing[w].job] # None
      BY <1>4, <2>4 DEF Queue!Acknowledge, Queue!At, Sound, WorkRow
    <3> QED
      BY <2>1, <2>2, <2>4, <3>1 DEF Queue!Acknowledge, QueueInv, EntriesTrue, Queue!AcknowledgedEnded
  <2> QED
    BY <1>9, <2>2, <2>3, <2>4 DEF QueueInv
<1>10. ASSUME NEW w \in Workers,
              \/ Queue!ReadProgress(w) \/ Queue!FailAcknowledge(w)
              \/ \E outcome \in {"completed", "failed"} : Queue!Finish(w, outcome)
       PROVE  QueueInv'
  <2>1. PICK k : k = doing[w]
    OBVIOUS
  <2>2. PICK old : old = jobs[k.job]
    OBVIOUS
  <2>3. doing[w] # None /\ k \in WorkRow /\ old \in JobRow
    BY <1>4, <1>10, <2>1, <2>2 DEF Queue!ReadProgress, Queue!FailAcknowledge, Queue!Finish, Queue!At
  <2>4. CASE Queue!ReadProgress(w)
    <3>1. PICK r : r = [old EXCEPT !.status = "running"]
      OBVIOUS
    <3>2. r \in JobRow /\ r.status = "running"
      BY <2>3, <3>1 DEF JobRow
    <3>3. doing' = [doing EXCEPT ![w] = [k EXCEPT !.stage = "progress", !.row = r, !.outcome = k.outcome]]
      BY <2>1, <2>2, <2>3, <2>4, <3>1 DEF Queue!ReadProgress, Queue!Doing, WorkRow, QueueInv, WorkersSound
    <3> QED
      BY <1>5, <2>1, <2>3, <2>4, <3>2, <3>3 DEF Queue!ReadProgress, WorkRow
  <2>5. ASSUME NEW outcome \in {"completed", "failed"},
               doing' = [doing EXCEPT ![w].stage = "end", ![w].outcome = outcome,
                           ![w].row = [jobs[doing[w].job] EXCEPT !.status = outcome]],
               UNCHANGED <<jobs, sending, entry, ended>>
        PROVE  QueueInv'
    <3>1. PICK r : r = [old EXCEPT !.status = outcome]
      OBVIOUS
    <3>2. r \in JobRow
      BY <2>3, <3>1 DEF JobRow
    <3>3. doing' = [doing EXCEPT ![w] = [k EXCEPT !.stage = "end", !.row = r, !.outcome = outcome]]
      BY <2>1, <2>2, <2>3, <2>5, <3>1 DEF WorkRow, QueueInv, WorkersSound
    <3> QED
      BY <1>5, <2>1, <2>3, <2>5, <3>2, <3>3
  <2>6. CASE Queue!FailAcknowledge(w)
    BY <2>5, <2>6 DEF Queue!FailAcknowledge
  <2>7. CASE \E outcome \in {"completed", "failed"} : Queue!Finish(w, outcome)
    BY <2>5, <2>7 DEF Queue!Finish
  <2> QED
    BY <1>10, <2>4, <2>6, <2>7
<1>11. CASE UNCHANGED Queue!vars
  BY <1>11 DEF Queue!vars, QueueInv, RowsTrue, EntriesTrue, WorkersSound, Sound, Queue!AcknowledgedEnded
<1>12. CASE \E j \in Jobs : Queue!Enqueue(j) \/ Queue!Publish(j) \/ Queue!LoseJob(j) \/ Queue!Idle(j)
  BY <1>1, <1>2, <1>12
<1>13. CASE \E w \in Workers : Queue!Step(w) \/ Queue!ReadProgress(w) \/ Queue!FailAcknowledge(w) \/ Queue!Crash(w)
  BY <1>6, <1>7, <1>8, <1>9, <1>10, <1>13 DEF Queue!Step
<1> QED
  BY <1>3, <1>10, <1>11, <1>12, <1>13 DEF Queue!Next

\* However workers die between two steps, are overtaken by others that hold the
\* same job, and fail in their acknowledgement, an entry is taken off the stream
\* only after the row of its job was given a final status (job_queue.py).
THEOREM JobsEndBeforeTheirEntry ==
  ASSUME NoneIsNoJob PROVE Queue!Spec => []Queue!AcknowledgedEnded
<1>1. Queue!Init => QueueInv
  BY DEF Queue!Init, QueueInv, RowsTrue, EntriesTrue, WorkersSound, Queue!AcknowledgedEnded
<1>2. NoneIsNoJob /\ QueueInv /\ [Queue!Next]_(Queue!vars) => QueueInv'
  BY JobSteps
<1>3. QueueInv => Queue!AcknowledgedEnded
  BY DEF QueueInv, EntriesTrue
<1> QED
  BY <1>1, <1>2, <1>3, PTL DEF Queue!Spec
=============================================================================
