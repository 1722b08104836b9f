------------------------------ MODULE Workflow ------------------------------
(***************************************************************************)
(* The checkpointed workflows of core/workflows.py.  A run is a row of the *)
(* fact store holding an input, a graph of nodes and their saved results;  *)
(* an HTTP request (a handler) advances it by claiming a batch of ready    *)
(* nodes under a lease, computing them in threads, saving each result in a *)
(* mutation of its own and settling the batch in another.  Handlers may    *)
(* die, be late or lose the answer of the store between any two of these.  *)
(* Several versions of the program may be serving at once.                 *)
(*                                                                         *)
(* Every Store.mutate is one atomic action (core/store.py serialises them; *)
(* FactStore is about that).  A request the code refuses leaves the store  *)
(* as it is and is not an action; it stands for the revision check too, as *)
(* a request that carries another revision than the row's is refused.      *)
(***************************************************************************)
EXTENDS Naturals, FiniteSets

CONSTANTS
  Tools,             \* the deterministic tools (unified.tools.REQUIRED_PARAMS)
  Workflows,         \* the workflows on offer
  ToolsOf,           \* the tools each workflow runs (nodes_for)
  Data,              \* what a user can give one tool: values and source files
  Grade,             \* what verify_results makes of a tool's result on a datum
  Payloads,          \* the input snapshots that can be submitted:
                     \* [workflow, data, synthetic, mode], mode being whether
                     \* the bundled examples or the user supplied the files
  Principals,        \* browsers logged in: [owner, username, role]
  Requests,          \* request identifiers a client may use
  Handlers,          \* the advance requests that may be in progress at once
  Codes,             \* the values of CODE_HASH being served
  LeaseSeconds,      \* LEASE_SECONDS, in clock ticks
  MaxAttempts,       \* MAX_ATTEMPTS
  MaxRunsPerOwner,   \* MAX_RUNS_PER_OWNER
  MaxTotalRuns,      \* MAX_TOTAL_RUNS
  MaxRevision,       \* bound of the model: a run is edited up to this revision
  None

Roles == {"editor", "reviewer", "operator"}

ASSUME ToolsAssumption ==
  /\ {"validate", "verify", "report"} \cap Tools = {}
  /\ ToolsOf \in [Workflows -> SUBSET Tools]
  \* At most two nodes are ever ready together, so that the cut of the
  \* candidates to a batch of two (l.262) cuts nothing.
  /\ \A w \in Workflows : \E s, t \in Tools : ToolsOf[w] = {s, t}

ASSUME DataAssumption ==
  /\ Grade \in [Data -> {"KEEP", "REVIEW", "REWRITE"}]
  /\ \A p \in Payloads :
       /\ p.workflow \in Workflows
       /\ p.data \in [ToolsOf[p.workflow] -> Data]
       /\ p.synthetic \in BOOLEAN
       /\ p.mode \in {"example", "user"}

ASSUME PeopleAssumption ==
  \A who \in Principals : who.role \in Roles

ASSUME NumbersAssumption ==
  /\ LeaseSeconds \in Nat \ {0}
  /\ MaxAttempts \in Nat \ {0}
  /\ MaxRevision \in Nat \ {0}

VARIABLES
  runs,    \* state['workflow_runs']: the row of every key, or None
  batch    \* what each advance request in progress holds, or None

vars == <<runs, batch>>

-----------------------------------------------------------------------------
(* Inputs, nodes and results.                                              *)

NodesFor(w) == {"validate", "verify", "report"} \cup ToolsOf[w]

Depends(n, w) ==
  CASE n = "validate" -> {}
    [] n = "verify"   -> ToolsOf[w]
    [] n = "report"   -> {"verify"}
    [] OTHER          -> {"validate"}

\* What a tool sees of an input: its own values and files, and whether any
\* part of the whole input is declared synthetic.
ToolInput(t, p) == [data |-> p.data[t], synthetic |-> p.synthetic]

\* Mutant: the key of a tool forgets the synthetic flag of the input.
NodeKeyOfDataOnly(n, p, c) ==
  [node |-> n, code |-> c,
   input |-> IF n \in Tools THEN [data |-> p.data[n], synthetic |-> FALSE]
             ELSE p]

\* Mutant: the key of a node forgets the version of the code.
NodeKeyOfInput(n, p, c) ==
  [node |-> n, code |-> 0,
   input |-> IF n \in Tools THEN ToolInput(n, p) ELSE p]

\* The fingerprint of a node; SHA-256 is taken to be injective.
NodeKey(n, p, c) ==
  IF n \in Tools
  THEN [node |-> n, code |-> c, input |-> ToolInput(n, p)]
  ELSE [node |-> n, code |-> c, input |-> p]

VerifyResults(calculations) ==
  LET grades == {Grade[calculations[t].input.data] : t \in DOMAIN calculations}
      label  == IF "REWRITE" \in grades THEN "REWRITE"
                ELSE IF "REVIEW" \in grades THEN "REVIEW" ELSE "KEEP"
  IN  [label |-> label, basis |-> calculations]

CanReview(quality) == quality.label # "REWRITE"

\* The value node n computes under code c from input p and the results the
\* batch found completed.  The results of code c are told from another's.
RunNode(n, p, c, completed) ==
  LET calculations == [t \in (DOMAIN completed) \cap Tools |-> completed[t]]
  IN CASE n = "validate" -> [node |-> n, code |-> c, input |-> p]
       [] n = "verify"   -> VerifyResults(calculations)
       [] n = "report"   -> [quality |-> completed["verify"], code |-> c,
                             calculations |-> calculations, input |-> p]
       [] OTHER          -> [node |-> n, code |-> c, input |-> ToolInput(n, p)]

FreshNode(n, p, c) ==
  [key |-> NodeKey(n, p, c), status |-> "pending", attempts |-> 0,
   result |-> None]

\* new_nodes: a node that had succeeded with the same fingerprint is reused.
NewNodes(p, c, previous) ==
  [n \in NodesFor(p.workflow) |->
     IF /\ n \in DOMAIN previous
        /\ previous[n].status = "succeeded"
        /\ previous[n].key = NodeKey(n, p, c)
     THEN previous[n]
     ELSE FreshNode(n, p, c)]

NoNodes == [n \in {} |-> None]
-----------------------------------------------------------------------------
(* Rows and who may touch them.                                            *)

\* create() derives the id of a run from the browser, the account and the
\* request identifier, and stores the first two as its owner and author.
KeyOf(who, request) ==
  [owner |-> who.owner, author |-> who.username, request |-> request]

Keys == {KeyOf(who, r) : who \in Principals, r \in Requests}

Present(k) == runs[k] # None

Owns(who, k) == Present(k) /\ k.owner = who.owner /\ k.author = who.username

\* _row without write: a reviewer may open what has come up for review.
MayRead(who, k) ==
  \/ Owns(who, k)
  \/ /\ Present(k)
     /\ who.role = "reviewer"
     /\ runs[k].status \in {"needs_review", "approved", "rejected"}

OwnedBy(owner) == {k \in Keys : Present(k) /\ k.owner = owner}

Succeeded(row, n) == row.nodes[n].status = "succeeded"

AllSucceeded(row) == \A n \in DOMAIN row.nodes : Succeeded(row, n)

Verified(row) == Succeeded(row, "verify")

LeaseHeld(row) == row.lease # None /\ row.lease.left > 0

Init ==
  /\ runs = [k \in Keys |-> None]
  /\ batch = [h \in Handlers |-> None]
-----------------------------------------------------------------------------
(* The owner's requests: create, edit, delete.                             *)

NewRow(p, c) ==
  [payload |-> p, submitted |-> p, revision |-> 1, code |-> c,
   status |-> "pending", nodes |-> NewNodes(p, c, NoNodes),
   lease |-> None, quality |-> None, approval |-> None]

\* A repeated request with the same input returns the row already there, one
\* with another input is refused: neither changes anything.
Create(who, r, p, c) ==
  LET k == KeyOf(who, r) IN
  /\ ~Present(k)
  /\ Cardinality({j \in Keys : Present(j)}) < MaxTotalRuns
  /\ Cardinality(OwnedBy(who.owner)) < MaxRunsPerOwner
  /\ runs' = [runs EXCEPT ![k] = NewRow(p, c)]
  /\ UNCHANGED batch

EditedRow(row, p, c) ==
  [row EXCEPT !.payload = p, !.revision = @ + 1, !.code = c,
              !.nodes = NewNodes(p, c, @), !.status = "pending",
              !.approval = None, !.quality = None, !.lease = None]

Edit(who, k, p, c) ==
  /\ Owns(who, k)
  /\ runs[k].revision < MaxRevision
  /\ p.workflow = runs[k].payload.workflow
  /\ runs' = [runs EXCEPT ![k] = EditedRow(runs[k], p, c)]
  /\ UNCHANGED batch

Delete(who, k) ==
  /\ Owns(who, k)
  /\ ~(runs[k].status = "running" /\ LeaseHeld(runs[k]))
  /\ runs' = [runs EXCEPT ![k] = None]
  /\ UNCHANGED batch
-----------------------------------------------------------------------------
(* advance(): the claim.                                                   *)

\* The row as the claim finds it once an expired lease is taken back (its
\* running nodes are pending again, their attempts spent) and the quality is
\* read off a saved verification.
Resumed(row) ==
  [row EXCEPT
     !.nodes = IF row.lease = None THEN @
               ELSE [n \in DOMAIN @ |->
                       IF @[n].status = "running"
                       THEN [@[n] EXCEPT !.status = "pending"] ELSE @[n]],
     !.quality = IF Verified(row) THEN row.nodes["verify"].result ELSE @]

HardFailure(row) == Verified(row) /\ ~CanReview(row.nodes["verify"].result)

\* Mutant: a failed node is not tried again.
CandidatesPending(row) ==
  {n \in DOMAIN row.nodes :
     /\ row.nodes[n].status = "pending"
     /\ row.nodes[n].attempts < MaxAttempts
     /\ \A d \in Depends(n, row.payload.workflow) : Succeeded(row, d)}

Candidates(row) ==
  {n \in DOMAIN row.nodes :
     /\ row.nodes[n].status \in {"pending", "failed"}
     /\ row.nodes[n].attempts < MaxAttempts
     /\ \A d \in Depends(n, row.payload.workflow) : Succeeded(row, d)}

\* Mutant: a run whose lease is held can be claimed.
ClaimableAnyLease(who, k, c) ==
  /\ Owns(who, k)
  /\ runs[k].code = c
  /\ runs[k].status \notin {"needs_review", "approved", "rejected", "blocked"}

Claimable(who, k, c) ==
  /\ Owns(who, k)
  /\ runs[k].code = c
  /\ runs[k].status \notin {"needs_review", "approved", "rejected", "blocked"}
  /\ ~LeaseHeld(runs[k])

\* The verification found a hard failure before the batch was settled.
ClaimBlocks(who, k, c) ==
  LET row == Resumed(runs[k]) IN
  /\ Claimable(who, k, c)
  /\ HardFailure(row)
  /\ runs' = [runs EXCEPT ![k] =
                [row EXCEPT !.status = "blocked", !.lease = None]]
  /\ UNCHANGED batch

\* Mutant: the run goes up for review with the expired lease on it.
ClaimSettlesKeepingLease(who, k, c) ==
  LET row == Resumed(runs[k]) IN
  /\ Claimable(who, k, c)
  /\ ~HardFailure(row)
  /\ AllSucceeded(row)
  /\ runs' = [runs EXCEPT ![k] = [row EXCEPT !.status = "needs_review"]]
  /\ UNCHANGED batch

\* Every checkpoint was saved but the batch never settled.
ClaimSettles(who, k, c) ==
  LET row == Resumed(runs[k]) IN
  /\ Claimable(who, k, c)
  /\ ~HardFailure(row)
  /\ AllSucceeded(row)
  /\ runs' = [runs EXCEPT ![k] =
                [row EXCEPT !.status = "needs_review", !.lease = None]]
  /\ UNCHANGED batch

\* Nothing is ready that has attempts left.  The (expired) lease stays.
ClaimStalls(who, k, c) ==
  LET row == Resumed(runs[k]) IN
  /\ Claimable(who, k, c)
  /\ ~HardFailure(row)
  /\ ~AllSucceeded(row)
  /\ Candidates(row) = {}
  /\ runs' = [runs EXCEPT ![k] = [row EXCEPT !.status = "attention"]]
  /\ UNCHANGED batch

Started(row, chosen, h) ==
  [row EXCEPT
     !.nodes = [n \in DOMAIN row.nodes |->
                  IF n \in chosen
                  THEN [row.nodes[n] EXCEPT !.status = "running",
                                            !.attempts = @ + 1]
                  ELSE row.nodes[n]],
     !.status = "running",
     !.lease = [id |-> h, left |-> LeaseSeconds]]

\* The lease identifier is fresh (uuid4): a handler has one batch at a time,
\* so that the handler's name tells the batches in progress apart.
ClaimBatch(h, who, k, c) ==
  LET row    == Resumed(runs[k])
      chosen == Candidates(row)
  IN
  /\ batch[h] = None
  /\ Claimable(who, k, c)
  /\ ~HardFailure(row)
  /\ chosen # {}
  /\ runs' = [runs EXCEPT ![k] = Started(row, chosen, h)]
  /\ batch' = [batch EXCEPT ![h] =
       [run |-> k, revision |-> row.revision, payload |-> row.payload,
        code |-> c, todo |-> chosen, raised |-> FALSE,
        completed |-> [n \in {m \in DOMAIN row.nodes : Succeeded(row, m)}
                         |-> row.nodes[n].result]]]
-----------------------------------------------------------------------------
(* advance(): the results and the settlement.                              *)

\* Mutant: the fence compares the revision but not the lease.
FencedByRevision(h) ==
  LET row == runs[batch[h].run] IN
  /\ row # None
  /\ row.revision = batch[h].revision
  /\ row.lease # None

\* Whether a mutation of the batch still passes the fence of finish/settle.
Fenced(h) ==
  LET row == runs[batch[h].run] IN
  /\ row # None
  /\ row.revision = batch[h].revision
  /\ row.lease # None
  /\ row.lease.id = h

SavedNode(node, result) ==
  [node EXCEPT !.status = IF result = None THEN "failed" ELSE "succeeded",
               !.result = result]

\* A node of the batch is computed, or fails (an exception or the timeout of
\* its thread: result None), and the outcome is saved; the answer of the
\* store may be lost after the save, which gather() sees as an exception.
FinishNode(h, n, fails, acked) ==
  LET b      == batch[h]
      result == IF fails THEN None ELSE RunNode(n, b.payload, b.code, b.completed)
  IN
  /\ b # None
  /\ n \in b.todo
  /\ Fenced(h)
  /\ runs' = [runs EXCEPT ![b.run].nodes[n] = SavedNode(@, result)]
  /\ batch' = [batch EXCEPT ![h].todo = @ \ {n},
                            ![h].raised = @ \/ ~acked]

\* The outcome of a node is not saved: the fence refuses it as late, or the
\* store is unavailable.
DropResult(h, n) ==
  /\ batch[h] # None
  /\ n \in batch[h].todo
  /\ batch' = [batch EXCEPT ![h].todo = @ \ {n}, ![h].raised = TRUE]
  /\ UNCHANGED runs

SettledRow(row) ==
  [row EXCEPT
     !.lease = None,
     !.quality = IF Verified(row) THEN row.nodes["verify"].result ELSE @,
     !.status = IF HardFailure(row) THEN "blocked"
                ELSE IF AllSucceeded(row) THEN "needs_review"
                ELSE IF \E n \in DOMAIN row.nodes : row.nodes[n].status = "failed"
                THEN "attention" ELSE "pending"]

Settle(h) ==
  /\ batch[h] # None
  /\ batch[h].todo = {}
  /\ ~batch[h].raised
  /\ Fenced(h)
  /\ runs' = [runs EXCEPT ![batch[h].run] = SettledRow(@)]
  /\ batch' = [batch EXCEPT ![h] = None]

\* The request ends in an exception: one of its nodes raised, or the fence
\* refused the settlement.
GiveUp(h) ==
  /\ batch[h] # None
  /\ batch[h].todo = {}
  /\ batch[h].raised \/ ~Fenced(h)
  /\ batch' = [batch EXCEPT ![h] = None]
  /\ UNCHANGED runs

\* The process dies, the request is cancelled or the settlement finds the
\* store unavailable.  Threads still running report to nobody.
Crash(h) ==
  /\ batch[h] # None
  /\ batch' = [batch EXCEPT ![h] = None]
  /\ UNCHANGED runs

\* Time passes for every lease; only what is left of it matters to the code.
Tick ==
  /\ \E k \in Keys : Present(k) /\ LeaseHeld(runs[k])
  /\ runs' = [k \in Keys |->
                IF Present(k) /\ LeaseHeld(runs[k])
                THEN [runs[k] EXCEPT !.lease.left = @ - 1] ELSE runs[k]]
  /\ UNCHANGED batch
-----------------------------------------------------------------------------
(* The reviewer, and the export.                                           *)

Approval(row, who, decision) ==
  [reviewer |-> who.username, decision |-> decision,
   revision |-> row.revision, input |-> row.payload,
   result |-> row.nodes["report"].result]

\* Mutant: an author with the role may review their own run.
ReviewOwnRun(who, k, decision, c) ==
  /\ who.role = "reviewer"
  /\ MayRead(who, k)
  /\ runs[k].status = "needs_review"
  /\ runs[k].code = c
  /\ CanReview(runs[k].quality)
  /\ runs' = [runs EXCEPT
       ![k].approval = Approval(runs[k], who, decision),
       ![k].status = IF decision = "approve" THEN "approved" ELSE "rejected"]
  /\ UNCHANGED batch

Review(who, k, decision, c) ==
  /\ who.role = "reviewer"
  /\ MayRead(who, k)
  /\ runs[k].status = "needs_review"
  /\ runs[k].code = c
  /\ k.author # who.username
  /\ CanReview(runs[k].quality)
  /\ runs' = [runs EXCEPT
       ![k].approval = Approval(runs[k], who, decision),
       ![k].status = IF decision = "approve" THEN "approved" ELSE "rejected"]
  /\ UNCHANGED batch

\* What export() lets a process of code c hand out: the saved report itself.
Exportable(k, c) ==
  /\ Present(k)
  /\ runs[k].code = c
  /\ runs[k].status = "approved"
  /\ runs[k].approval # None
  /\ runs[k].approval.input = runs[k].payload
  /\ runs[k].approval.result = runs[k].nodes["report"].result
-----------------------------------------------------------------------------
OwnerStep ==
  \E who \in Principals, c \in Codes :
    \/ \E r \in Requests, p \in Payloads : Create(who, r, p, c)
    \/ \E k \in Keys : \/ \E p \in Payloads : Edit(who, k, p, c)
                       \/ ClaimBlocks(who, k, c)
                       \/ ClaimSettles(who, k, c)
                       \/ ClaimStalls(who, k, c)
                       \/ \E h \in Handlers : ClaimBatch(h, who, k, c)

DeleteStep == \E who \in Principals, k \in Keys : Delete(who, k)

ReviewStep ==
  \E who \in Principals, k \in Keys, c \in Codes, d \in {"approve", "reject"} :
    Review(who, k, d, c)

BatchStep ==
  \E h \in Handlers :
    \/ \E n \in Tools \cup {"validate", "verify", "report"} :
         \/ \E fails, acked \in BOOLEAN : FinishNode(h, n, fails, acked)
         \/ DropResult(h, n)
    \/ Settle(h)
    \/ GiveUp(h)
    \/ Crash(h)

Next == OwnerStep \/ DeleteStep \/ ReviewStep \/ BatchStep \/ Tick

Spec == Init /\ [][Next]_vars
-----------------------------------------------------------------------------
(* Types.                                                                  *)

\* What node n yields for input p under code c when nothing is reused, lost,
\* late or retried: the reference every saved result is held against.
CleanTools(p, c) ==
  [t \in ToolsOf[p.workflow] |-> RunNode(t, p, c, NoNodes)]

CleanResult(n, p, c) ==
  IF n = "report"
  THEN RunNode(n, p, c,
         [m \in {"verify"} \cup ToolsOf[p.workflow] |->
            IF m = "verify" THEN VerifyResults(CleanTools(p, c))
            ELSE CleanTools(p, c)[m]])
  ELSE RunNode(n, p, c, CleanTools(p, c))

Results(p, c) == {CleanResult(n, p, c) : n \in NodesFor(p.workflow)}

NodeOf(p, c) ==
  [key : {NodeKey(n, p, c) : n \in NodesFor(p.workflow)},
   status : {"pending", "running", "succeeded", "failed"},
   attempts : 0..MaxAttempts,
   result : Results(p, c) \cup {None}]

Leases == [id : Handlers, left : 0..LeaseSeconds]

Statuses == {"pending", "running", "attention", "blocked",
             "needs_review", "approved", "rejected"}

Approvals(p, c) ==
  [reviewer : {who.username : who \in Principals},
   decision : {"approve", "reject"}, revision : 1..MaxRevision,
   input : Payloads, result : {CleanResult("report", p, c)}]

RowsOf(p, c) ==
  [payload : {p}, submitted : Payloads, revision : 1..MaxRevision,
   code : {c}, status : Statuses,
   nodes : [NodesFor(p.workflow) -> NodeOf(p, c)],
   lease : Leases \cup {None},
   quality : {CleanResult("verify", p, c), None},
   approval : Approvals(p, c) \cup {None}]

IsBatch(b) ==
  /\ DOMAIN b = {"run", "revision", "payload", "code", "todo", "raised",
                 "completed"}
  /\ b.run \in Keys
  /\ b.revision \in 1..MaxRevision
  /\ b.payload \in Payloads
  /\ b.code \in Codes
  /\ b.todo \subseteq NodesFor(b.payload.workflow)
  /\ b.raised \in BOOLEAN
  /\ DOMAIN b.completed \subseteq NodesFor(b.payload.workflow)

\* The types of the state: rows hold the values the code writes in them,
\* with the attempts of a node within MAX_ATTEMPTS.
TypeOK ==
  /\ DOMAIN runs = Keys
  /\ \A k \in Keys : Present(k) =>
       /\ runs[k].payload \in Payloads
       /\ runs[k].code \in Codes
       /\ runs[k] \in RowsOf(runs[k].payload, runs[k].code)
  /\ DOMAIN batch = Handlers
  /\ \A h \in Handlers : batch[h] # None => IsBatch(batch[h])

\* None is no lease, no approval and no row.
ASSUME NoneAssumption ==
  /\ None \notin Leases
  /\ \A p \in Payloads, c \in Codes :
       None \notin RowsOf(p, c) /\ None \notin Approvals(p, c)
-----------------------------------------------------------------------------
(* Safety.                                                                 *)

\* A saved checkpoint is the result its node yields for the CURRENT input
\* and code of the run, whatever was reused over an edit, computed by a
\* request that was overtaken, retried after a crash or saved late.
CheckpointsSound ==
  \A k \in Keys : Present(k) =>
    \A n \in DOMAIN runs[k].nodes :
      runs[k].nodes[n].result =
        IF Succeeded(runs[k], n)
        THEN CleanResult(n, runs[k].payload, runs[k].code) ELSE None

\* A node is marked running only while its run is, under a lease: otherwise
\* no claim would ever take it back and the run would be stuck.  And a lease
\* still held belongs to a running run: delete() relies on it.
RunningIsLeased ==
  \A k \in Keys : Present(k) =>
    /\ (\E n \in DOMAIN runs[k].nodes : runs[k].nodes[n].status = "running")
         => runs[k].status = "running"
    /\ runs[k].status = "running" => runs[k].lease # None
    /\ LeaseHeld(runs[k]) => runs[k].status = "running"

\* A run up for review, or decided, has every node saved, no lease that a
\* late batch could still write through, and a verification that passed.
ReviewableIsComplete ==
  \A k \in Keys :
    Present(k) /\ runs[k].status \in {"needs_review", "approved", "rejected"} =>
      /\ AllSucceeded(runs[k])
      /\ runs[k].lease = None
      /\ runs[k].quality = runs[k].nodes["verify"].result
      /\ CanReview(runs[k].quality)

\* What export() hands out was approved by somebody other than the author,
\* at this revision, and is the report of the input and code that stand now;
\* no input with a hard failure is ever exported.
ExportIsReviewed ==
  \A k \in Keys, c \in Codes : Exportable(k, c) =>
    LET row == runs[k] IN
    /\ row.approval.decision = "approve"
    /\ row.approval.reviewer # k.author
    /\ row.approval.revision = row.revision
    /\ row.nodes["report"].result = CleanResult("report", row.payload, c)
    /\ \A t \in ToolsOf[row.payload.workflow] :
         Grade[row.payload.data[t]] # "REWRITE"

\* A batch that still passes the fence computes from the input, code and
\* results that its row holds.
FencedBatchIsCurrent ==
  \A h \in Handlers : batch[h] # None /\ Fenced(h) =>
    LET row == runs[batch[h].run] IN
    /\ batch[h].payload = row.payload
    /\ batch[h].code = row.code
    /\ \A n \in DOMAIN batch[h].completed :
         Succeeded(row, n) /\ row.nodes[n].result = batch[h].completed[n]
-----------------------------------------------------------------------------
(* What a step may never do.                                               *)

Stays(k) == Present(k) /\ runs'[k] # None

\* Within one revision a saved checkpoint is never lost, changed or run
\* again, whichever of the requests in progress acts.
CheckpointsKept ==
  [][\A k \in Keys :
       Stays(k) /\ runs'[k].revision = runs[k].revision =>
         \A n \in DOMAIN runs[k].nodes :
           Succeeded(runs[k], n) => runs'[k].nodes[n] = runs[k].nodes[n]]_vars

\* An input or code change makes a new revision with no verdict of the old
\* one; and a verdict, once given, stands until then or until deletion.
VerdictsFollowInput ==
  [][\A k \in Keys : Stays(k) =>
       \/ /\ runs'[k].revision = runs[k].revision + 1
          /\ runs'[k].approval = None
          /\ runs'[k].quality = None
       \/ /\ runs'[k].revision = runs[k].revision
          /\ runs'[k].payload = runs[k].payload
          /\ runs'[k].code = runs[k].code
          /\ runs[k].approval # None =>
               /\ runs'[k].approval = runs[k].approval
               /\ runs'[k].status = runs[k].status]_vars

\* A run with a batch in progress under a lease not yet expired is not
\* deleted, and is not claimed by another request.
LiveBatchIsExclusive ==
  [][\A k \in Keys : Present(k) /\ LeaseHeld(runs[k]) =>
       /\ runs'[k] # None
       /\ runs'[k].lease = None \/ runs'[k].lease.id = runs[k].lease.id]_vars
-----------------------------------------------------------------------------
(* Liveness.                                                               *)

Press(k) ==
  \E who \in Principals, c \in Codes :
    \/ ClaimBlocks(who, k, c)
    \/ ClaimSettles(who, k, c)
    \/ ClaimStalls(who, k, c)
    \/ \E h \in Handlers : ClaimBatch(h, who, k, c)

EndNode(h) ==
  \E n \in Tools \cup {"validate", "verify", "report"} :
    \/ \E fails, acked \in BOOLEAN : FinishNode(h, n, fails, acked)
    \/ DropResult(h, n)

\* The clock runs; a thread ends or is timed out, and a request then settles
\* or raises; and somebody keeps pressing advance on each run.  Nobody is
\* obliged to create, edit, delete or review, and requests may crash.
Fairness ==
  /\ WF_vars(Tick)
  /\ \A h \in Handlers :
       WF_vars(EndNode(h)) /\ WF_vars(Settle(h)) /\ WF_vars(GiveUp(h))
  /\ \A k \in Keys : WF_vars(Press(k))

FairSpec == Spec /\ Fairness

\* A run at rest short of review: every node not saved has spent its attempts
\* or waits for one that is not saved, and none is marked running.
Exhausted(row) ==
  /\ row.status = "attention"
  /\ \A n \in DOMAIN row.nodes :
       \/ Succeeded(row, n)
       \/ /\ row.nodes[n].status # "running"
          /\ \/ row.nodes[n].attempts = MaxAttempts
             \/ \E d \in Depends(n, row.payload.workflow) : ~Succeeded(row, d)

\* However many requests crash, fail or lose their answer, a run that is
\* pressed on reaches review, a hard failure or the end of its attempts (or
\* is deleted): the attempts bound the crashes it can be made to retry.
AdvanceConverges ==
  \A k \in Keys :
    Present(k) ~>
      \/ ~Present(k)
      \/ Exhausted(runs[k])
      \/ runs[k].status \in {"blocked", "needs_review", "approved", "rejected"}
-----------------------------------------------------------------------------
(* The workflows keep the promise of ReviewedTask.                         *)

Stage(row) ==
  IF row.status = "needs_review" THEN "presented"
  ELSE IF row.status \in {"approved", "rejected"} THEN row.status
  ELSE "draft"

TaskOf(row) ==
  [payload |-> row.payload, code |-> row.code, revision |-> row.revision,
   stage |-> Stage(row),
   report |-> IF Stage(row) = "draft" THEN None
              ELSE row.nodes["report"].result,
   reviewer |-> IF row.approval = None THEN None ELSE row.approval.reviewer]

\* None is no task either.
ASSUME TaskAssumption ==
  \A p \in Payloads, c \in Codes :
    None \notin [payload : {p}, code : {c}, revision : 1..MaxRevision,
                stage : {"draft", "presented", "approved", "rejected"},
                report : {CleanResult("report", p, c), None},
                reviewer : {who.username : who \in Principals} \cup {None}]

Tasks == [k \in Keys |-> IF runs[k] = None THEN None ELSE TaskOf(runs[k])]

AuthorOf(k) == k.author
WorkflowOf(p) == p.workflow
CleanReport(p, c) == CleanResult("report", p, c)
PassesChecks(p) ==
  \A t \in ToolsOf[p.workflow] : Grade[p.data[t]] # "REWRITE"

Promise == INSTANCE ReviewedTask WITH
  task <- Tasks,
  Usernames <- {who.username : who \in Principals},
  Author <- AuthorOf,
  Workflow <- WorkflowOf,
  Report <- CleanReport,
  Presentable <- PassesChecks

\* The whole machinery of leases, batches, retries and reuse is invisible to
\* its users: it presents, decides and revises as ReviewedTask says.
KeepsPromise == Promise!Spec
=============================================================================
