--------------------------- MODULE WorkflowProofs ---------------------------
(***************************************************************************)
(* Proofs about Workflow, for any tools, workflows, inputs, people,        *)
(* handlers and versions of the code: the invariant first, then what a step *)
(* does to each row, and from it the action properties and that Workflow    *)
(* implements ReviewedTask.                                                *)
(***************************************************************************)
EXTENDS Workflow, TLAPS

-----------------------------------------------------------------------------
(* The results of the nodes.                                               *)

\* The nodes of a workflow are its tools and three that are no tools.
LEMMA NodesOfWorkflow ==
  ASSUME NEW w \in Workflows
  PROVE  /\ ToolsOf[w] \subseteq Tools
         /\ NodesFor(w) \cap Tools = ToolsOf[w]
         /\ "validate" \notin Tools /\ "verify" \notin Tools
         /\ "report" \notin Tools
         /\ \A n \in NodesFor(w) : Depends(n, w) \subseteq NodesFor(w)
BY ToolsAssumption DEF NodesFor, Depends

\* What a tool yields does not depend on what was completed before it.
LEMMA CleanTool ==
  ASSUME NEW p \in Payloads, NEW c, NEW t \in ToolsOf[p.workflow]
  PROVE  /\ CleanResult(t, p, c) = [node |-> t, code |-> c, input |-> ToolInput(t, p)]
         /\ CleanTools(p, c)[t] = CleanResult(t, p, c)
<1>1. /\ t # "validate" /\ t # "verify" /\ t # "report"
      /\ p.workflow \in Workflows
  BY NodesOfWorkflow, DataAssumption
<1> QED BY <1>1 DEF CleanResult, CleanTools, RunNode

\* Completed results that are right and include every tool yield the
\* calculations of a clean run.
LEMMA Calculations ==
  ASSUME NEW p \in Payloads, NEW c, NEW done,
         DOMAIN done \subseteq NodesFor(p.workflow),
         ToolsOf[p.workflow] \subseteq DOMAIN done,
         \A n \in DOMAIN done : done[n] = CleanResult(n, p, c)
  PROVE  [t \in (DOMAIN done) \cap Tools |-> done[t]] = CleanTools(p, c)
<1>1. p.workflow \in Workflows
  BY DataAssumption
<1>2. (DOMAIN done) \cap Tools = ToolsOf[p.workflow]
  BY <1>1, NodesOfWorkflow
<1>3. \A t \in ToolsOf[p.workflow] : done[t] = CleanTools(p, c)[t]
  BY CleanTool
<1>4. CleanTools(p, c) = [t \in ToolsOf[p.workflow] |-> CleanTools(p, c)[t]]
  BY DEF CleanTools
<1> QED BY <1>2, <1>3, <1>4

\* The verification of a clean run looks at the results of its tools.
LEMMA CleanVerification ==
  ASSUME NEW p \in Payloads, NEW c
  PROVE  CleanResult("verify", p, c) = VerifyResults(CleanTools(p, c))
<1>1. p.workflow \in Workflows
  BY DataAssumption
<1>2. (DOMAIN CleanTools(p, c)) \cap Tools = ToolsOf[p.workflow]
  BY <1>1, NodesOfWorkflow DEF CleanTools
<1>3. [t \in (DOMAIN CleanTools(p, c)) \cap Tools |-> CleanTools(p, c)[t]]
        = CleanTools(p, c)
  BY <1>2 DEF CleanTools
<1>4. CleanResult("verify", p, c) = RunNode("verify", p, c, CleanTools(p, c))
  BY DEF CleanResult
<1>5. RunNode("verify", p, c, CleanTools(p, c)) =
        VerifyResults([t \in (DOMAIN CleanTools(p, c)) \cap Tools |->
                         CleanTools(p, c)[t]])
  BY DEF RunNode
<1> QED BY <1>3, <1>4, <1>5

\* The report of a clean run.
LEMMA CleanReporting ==
  ASSUME NEW p \in Payloads, NEW c
  PROVE  CleanResult("report", p, c) =
           [quality |-> VerifyResults(CleanTools(p, c)), code |-> c,
            calculations |-> CleanTools(p, c), input |-> p]
<1> DEFINE done == [m \in {"verify"} \cup ToolsOf[p.workflow] |->
                      IF m = "verify" THEN VerifyResults(CleanTools(p, c))
                      ELSE CleanTools(p, c)[m]]
<1>1. p.workflow \in Workflows
  BY DataAssumption
<1>2. (DOMAIN done) \cap Tools = ToolsOf[p.workflow]
  BY <1>1, NodesOfWorkflow
<1>3. \A t \in ToolsOf[p.workflow] : done[t] = CleanTools(p, c)[t]
  BY <1>1, NodesOfWorkflow
<1>4. [t \in (DOMAIN done) \cap Tools |-> done[t]] = CleanTools(p, c)
  BY <1>2, <1>3 DEF CleanTools
<1>5. done["verify"] = VerifyResults(CleanTools(p, c))
  OBVIOUS
<1>6. RunNode("report", p, c, done) =
        [quality |-> done["verify"], code |-> c, input |-> p,
         calculations |-> [t \in (DOMAIN done) \cap Tools |-> done[t]]]
  BY DEF RunNode
<1>7. CleanResult("report", p, c) = RunNode("report", p, c, done)
  BY DEF CleanResult
<1> QED BY <1>4, <1>5, <1>6, <1>7

\* A node computed from completed results that are right, and that hold what
\* it depends on, yields what a clean run yields.
LEMMA RunNodeIsClean ==
  ASSUME NEW p \in Payloads, NEW c, NEW done, NEW n \in NodesFor(p.workflow),
         DOMAIN done \subseteq NodesFor(p.workflow),
         \A m \in DOMAIN done : done[m] = CleanResult(m, p, c),
         Depends(n, p.workflow) \subseteq DOMAIN done,
         "verify" \in DOMAIN done => ToolsOf[p.workflow] \subseteq DOMAIN done
  PROVE  RunNode(n, p, c, done) = CleanResult(n, p, c)
<1>0. p.workflow \in Workflows
  BY DataAssumption
<1>1. CASE n = "validate"
  BY <1>1 DEF RunNode, CleanResult
<1>2. CASE n = "verify"
  <2>1. ToolsOf[p.workflow] \subseteq DOMAIN done
    BY <1>2 DEF Depends
  <2>2. RunNode(n, p, c, done) =
          VerifyResults([t \in (DOMAIN done) \cap Tools |-> done[t]])
    BY <1>2 DEF RunNode
  <2> QED BY <1>2, <2>1, <2>2, Calculations, CleanVerification
<1>3. CASE n = "report"
  <2>1. "verify" \in DOMAIN done
    BY <1>3 DEF Depends
  <2>5. ToolsOf[p.workflow] \subseteq DOMAIN done
    BY <2>1
  <2>2. [t \in (DOMAIN done) \cap Tools |-> done[t]] = CleanTools(p, c)
    BY <2>5, Calculations
  <2>3. done["verify"] = VerifyResults(CleanTools(p, c))
    BY <2>1, CleanVerification
  <2>4. RunNode(n, p, c, done) =
          [quality |-> done["verify"], code |-> c, input |-> p,
           calculations |-> [t \in (DOMAIN done) \cap Tools |-> done[t]]]
    BY <1>3 DEF RunNode
  <2> QED BY <1>3, <2>2, <2>3, <2>4, CleanReporting
<1>4. CASE n \in ToolsOf[p.workflow]
  <2>1. n # "validate" /\ n # "verify" /\ n # "report"
    BY <1>0, <1>4, NodesOfWorkflow
  <2>2. RunNode(n, p, c, done) = [node |-> n, code |-> c, input |-> ToolInput(n, p)]
    BY <2>1 DEF RunNode
  <2> QED BY <1>4, <2>2, CleanTool
<1> QED BY <1>1, <1>2, <1>3, <1>4 DEF NodesFor

\* The verification of a clean run passes exactly when no tool's data fails
\* a hard check.
LEMMA CleanQuality ==
  ASSUME NEW p \in Payloads, NEW c
  PROVE  CanReview(CleanResult("verify", p, c)) <=> PassesChecks(p)
<1> DEFINE calcs == CleanTools(p, c)
           grades == {Grade[calcs[t].input.data] : t \in DOMAIN calcs}
<1>1. DOMAIN calcs = ToolsOf[p.workflow]
  BY DEF CleanTools
<1>2. \A t \in ToolsOf[p.workflow] : calcs[t].input.data = p.data[t]
  BY CleanTool DEF ToolInput
<1>3. "REWRITE" \in grades <=> ~PassesChecks(p)
  BY <1>1, <1>2 DEF PassesChecks
<1>4. VerifyResults(calcs).label = "REWRITE" <=> "REWRITE" \in grades
  BY DEF VerifyResults
<1> QED BY <1>3, <1>4, CleanVerification DEF CanReview
-----------------------------------------------------------------------------
(* What a row keeps from one mutation to the next.                         *)

RowTyped(row) ==
  /\ row.payload \in Payloads
  /\ row.code \in Codes
  /\ row \in RowsOf(row.payload, row.code)

\* Keys and results are those of the current input and code.
RowSound(row) ==
  \A n \in NodesFor(row.payload.workflow) :
    /\ row.nodes[n].key = NodeKey(n, row.payload, row.code)
    /\ row.nodes[n].result =
         IF Succeeded(row, n) THEN CleanResult(n, row.payload, row.code)
         ELSE None

\* A verification that was saved or reused rests on tools that were too.
RowOrdered(row) ==
  Verified(row) => \A t \in ToolsOf[row.payload.workflow] : Succeeded(row, t)

NoneRunning(row) ==
  \A n \in NodesFor(row.payload.workflow) : row.nodes[n].status # "running"

RowLeased(row) ==
  /\ NoneRunning(row) \/ row.status = "running"
  /\ row.status = "running" => row.lease # None
  /\ LeaseHeld(row) => row.status = "running"

Decided == {"approved", "rejected"}
UpForReview == {"needs_review"} \cup Decided

RowReviewed(row) ==
  /\ row.status \in UpForReview =>
       /\ \A n \in NodesFor(row.payload.workflow) : Succeeded(row, n)
       /\ row.lease = None
       /\ row.quality = row.nodes["verify"].result
       /\ CanReview(row.quality)
  /\ row.approval # None =>
       /\ row.status \in Decided
       /\ row.approval.revision = row.revision
       /\ (row.approval.decision = "approve") <=> (row.status = "approved")

RowOK(row) ==
  /\ RowTyped(row)
  /\ RowSound(row)
  /\ RowOrdered(row)
  /\ RowLeased(row)
  /\ RowReviewed(row)

\* The parts of a typed row.
LEMMA RowParts ==
  ASSUME NEW row, RowTyped(row)
  PROVE  /\ row.payload \in Payloads /\ row.code \in Codes
         /\ row.payload.workflow \in Workflows
         /\ row.nodes \in [NodesFor(row.payload.workflow) ->
                             NodeOf(row.payload, row.code)]
         /\ DOMAIN row.nodes = NodesFor(row.payload.workflow)
         /\ "verify" \in DOMAIN row.nodes /\ "report" \in DOMAIN row.nodes
         /\ row.revision \in 1..MaxRevision /\ row.status \in Statuses
         /\ row.lease \in Leases \cup {None}
         /\ row.quality \in {CleanResult("verify", row.payload, row.code), None}
         /\ row.approval \in Approvals(row.payload, row.code) \cup {None}
         /\ row.submitted \in Payloads
<1>1. row \in RowsOf(row.payload, row.code)
  BY DEF RowTyped
<1>2. row.nodes \in [NodesFor(row.payload.workflow) -> NodeOf(row.payload, row.code)]
  BY <1>1 DEF RowsOf
<1>3. row.payload \in Payloads /\ row.code \in Codes
  BY DEF RowTyped
<1>4. "verify" \in NodesFor(row.payload.workflow) /\ "report" \in NodesFor(row.payload.workflow)
  BY DEF NodesFor
<1> QED BY <1>1, <1>2, <1>3, <1>4, DataAssumption DEF RowsOf

\* A fresh node has the right types.
LEMMA FreshNodeTyped ==
  ASSUME NEW p \in Payloads, NEW c \in Codes, NEW n \in NodesFor(p.workflow)
  PROVE  /\ FreshNode(n, p, c) \in NodeOf(p, c)
         /\ FreshNode(n, p, c).status = "pending"
         /\ FreshNode(n, p, c).result = None
         /\ FreshNode(n, p, c).key = NodeKey(n, p, c)
BY NumbersAssumption DEF FreshNode, NodeOf

\* A run is created with a row that is in order.
LEMMA NewRowOK ==
  ASSUME NEW p \in Payloads, NEW c \in Codes
  PROVE  RowOK(NewRow(p, c))
<1> DEFINE row == NewRow(p, c)
<1>1. row.nodes = [n \in NodesFor(p.workflow) |-> FreshNode(n, p, c)]
  BY DEF NewRow, NewNodes, NoNodes
<1>2. row.payload = p /\ row.code = c /\ row.status = "pending"
      /\ row.lease = None /\ row.approval = None /\ row.quality = None
      /\ row.submitted = p /\ row.revision = 1
  BY DEF NewRow
<1>3. row.nodes \in [NodesFor(p.workflow) -> NodeOf(p, c)]
  BY <1>1, FreshNodeTyped
<1>4. RowTyped(row)
  BY <1>2, <1>3, NumbersAssumption DEF RowTyped, RowsOf, NewRow, Statuses
<1>5. \A n \in NodesFor(p.workflow) :
        row.nodes[n] = FreshNode(n, p, c)
  BY <1>1
<1>6. \A n \in NodesFor(p.workflow) :
        /\ row.nodes[n].status = "pending"
        /\ row.nodes[n].result = None
        /\ row.nodes[n].key = NodeKey(n, p, c)
  BY <1>5, FreshNodeTyped
<1>7. RowSound(row)
  BY <1>2, <1>6 DEF RowSound, Succeeded
<1>8. RowOrdered(row)
  BY <1>2, <1>6 DEF RowOrdered, Verified, Succeeded, NodesFor
<1>9. RowLeased(row)
  BY <1>2, <1>6 DEF RowLeased, NoneRunning, LeaseHeld
<1>10. RowReviewed(row)
  BY <1>2 DEF RowReviewed, UpForReview, Decided
<1> QED BY <1>4, <1>7, <1>8, <1>9, <1>10 DEF RowOK

\* Two nodes with one key are the same node, on inputs and code that give it
\* the same result.
LEMMA KeyDeterminesResult ==
  ASSUME NEW p \in Payloads, NEW q \in Payloads, NEW c, NEW d,
         p.workflow = q.workflow, NEW n \in NodesFor(p.workflow),
         NodeKey(n, p, c) = NodeKey(n, q, d)
  PROVE  /\ CleanResult(n, p, c) = CleanResult(n, q, d)
         /\ n \notin Tools => p = q /\ c = d
<1>0. p.workflow \in Workflows
  BY DataAssumption
<1>1. CASE n \in Tools
  <2>1. n \in ToolsOf[p.workflow]
    BY <1>0, <1>1, NodesOfWorkflow
  <2>2. c = d /\ ToolInput(n, p) = ToolInput(n, q)
    BY <1>1 DEF NodeKey
  <2> QED BY <1>1, <2>1, <2>2, CleanTool
<1>2. CASE n \notin Tools
  BY <1>2 DEF NodeKey
<1> QED BY <1>1, <1>2

\* An edit leaves a row in order: what it reuses is right for the new input.
LEMMA EditedRowOK ==
  ASSUME NEW old, RowOK(old), NEW p \in Payloads, NEW c \in Codes,
         p.workflow = old.payload.workflow, old.revision < MaxRevision
  PROVE  RowOK(EditedRow(old, p, c))
<1> DEFINE row == EditedRow(old, p, c)
           w == p.workflow
           same(n) == /\ old.nodes[n].status = "succeeded"
                      /\ old.nodes[n].key = NodeKey(n, p, c)
<1>0. /\ RowTyped(old) /\ RowSound(old) /\ RowOrdered(old)
      /\ w \in Workflows
      /\ old.nodes \in [NodesFor(w) -> NodeOf(old.payload, old.code)]
      /\ DOMAIN old.nodes = NodesFor(w)
      /\ old.revision \in 1..MaxRevision
      /\ old.payload \in Payloads
      /\ old.submitted \in Payloads
  BY RowParts, DataAssumption DEF RowOK
<1>1. old \in RowsOf(old.payload, old.code)
  BY <1>0 DEF RowTyped
<1>2. /\ row.payload = p /\ row.code = c /\ row.status = "pending"
      /\ row.lease = None /\ row.approval = None /\ row.quality = None
      /\ row.submitted = old.submitted /\ row.revision = old.revision + 1
      /\ row.nodes = NewNodes(p, c, old.nodes)
  BY <1>1 DEF EditedRow, RowsOf
<1>3. \A n \in NodesFor(w) :
        row.nodes[n] = IF same(n) THEN old.nodes[n] ELSE FreshNode(n, p, c)
  BY <1>0, <1>2 DEF NewNodes
<1>4. \A n \in NodesFor(w) : same(n) =>
        /\ old.nodes[n].result = CleanResult(n, p, c)
        /\ n \notin Tools => p = old.payload /\ c = old.code
  <2> SUFFICES ASSUME NEW n \in NodesFor(w), same(n)
               PROVE  /\ old.nodes[n].result = CleanResult(n, p, c)
                      /\ n \notin Tools => p = old.payload /\ c = old.code
    OBVIOUS
  <2>1. /\ old.nodes[n].key = NodeKey(n, old.payload, old.code)
        /\ old.nodes[n].result = CleanResult(n, old.payload, old.code)
    BY <1>0 DEF RowSound, Succeeded
  <2>2. NodeKey(n, old.payload, old.code) = NodeKey(n, p, c)
    BY <2>1
  <2>3. old.payload.workflow = p.workflow /\ n \in NodesFor(old.payload.workflow)
    BY <1>0
  <2>4. /\ CleanResult(n, old.payload, old.code) = CleanResult(n, p, c)
        /\ n \notin Tools => old.payload = p /\ old.code = c
    BY <1>0, <2>2, <2>3, KeyDeterminesResult
  <2> QED BY <2>1, <2>4
<1>5. \A n \in NodesFor(w) : row.nodes[n] \in NodeOf(p, c)
  <2> SUFFICES ASSUME NEW n \in NodesFor(w)
               PROVE  row.nodes[n] \in NodeOf(p, c)
    OBVIOUS
  <2>1. CASE same(n)
    <3>1. old.nodes[n] \in NodeOf(old.payload, old.code)
      BY <1>0
    <3>2. old.nodes[n].result \in Results(p, c)
      BY <1>4, <2>1 DEF Results
    <3> QED BY <1>3, <2>1, <3>1, <3>2 DEF NodeOf
  <2>2. CASE ~same(n)
    BY <1>3, <2>2, FreshNodeTyped
  <2> QED BY <2>1, <2>2
<1>6. row.nodes \in [NodesFor(w) -> NodeOf(p, c)]
  BY <1>2, <1>5 DEF NewNodes
<1>7. RowTyped(row)
  <2>1. old.revision + 1 \in 1..MaxRevision
    BY <1>0, NumbersAssumption
  <2>2. "pending" \in Statuses
    BY DEF Statuses
  <2>3. NewNodes(p, c, old.nodes) \in [NodesFor(p.workflow) -> NodeOf(p, c)]
    BY <1>2, <1>6
  <2>4. row \in RowsOf(p, c)
    BY <1>1, <2>1, <2>2, <2>3, Zenon DEF RowsOf, EditedRow
  <2> QED BY <1>2, <2>4 DEF RowTyped
<1>8. \A n \in NodesFor(w) :
        /\ row.nodes[n].status = "succeeded" <=> same(n)
        /\ row.nodes[n].status # "running"
        /\ ~same(n) => row.nodes[n].result = None
        /\ row.nodes[n].key = NodeKey(n, p, c)
  BY <1>3, FreshNodeTyped
<1>9. RowSound(row)
  BY <1>2, <1>3, <1>4, <1>8 DEF RowSound, Succeeded
<1>10. RowOrdered(row)
  <2> SUFFICES ASSUME same("verify"), NEW t \in ToolsOf[w]
               PROVE  same(t)
    BY <1>2, <1>8 DEF RowOrdered, Verified, Succeeded, NodesFor
  <2>1. p = old.payload /\ c = old.code
    BY <1>0, <1>4, NodesOfWorkflow DEF NodesFor
  <2>2. old.nodes[t].status = "succeeded"
    BY <1>0 DEF RowOrdered, Verified, Succeeded
  <2> QED BY <1>0, <2>1, <2>2 DEF RowSound, NodesFor
<1>11. RowLeased(row)
  BY <1>2, <1>8 DEF RowLeased, NoneRunning, LeaseHeld
<1>12. RowReviewed(row)
  BY <1>2 DEF RowReviewed, UpForReview, Decided
<1> QED BY <1>7, <1>9, <1>10, <1>11, <1>12 DEF RowOK

\* The result of a verification says whether the input passes the checks.
LEMMA HardFailureMeans ==
  ASSUME NEW row, RowTyped(row), RowSound(row)
  PROVE  /\ HardFailure(row) => ~PassesChecks(row.payload)
         /\ Verified(row) /\ ~HardFailure(row) => PassesChecks(row.payload)
         /\ Verified(row) => /\ row.nodes["verify"].result =
                                 CleanResult("verify", row.payload, row.code)
                             /\ CanReview(row.nodes["verify"].result) <=>
                                 PassesChecks(row.payload)
<1>1. row.payload \in Payloads /\ "verify" \in NodesFor(row.payload.workflow)
  BY RowParts
<1>2. CanReview(CleanResult("verify", row.payload, row.code)) <=>
        PassesChecks(row.payload)
  BY <1>1, CleanQuality
<1>3. Verified(row) => row.nodes["verify"].result =
                         CleanResult("verify", row.payload, row.code)
  BY <1>1 DEF RowSound, Verified
<1> QED BY <1>2, <1>3 DEF HardFailure

\* A row taken up again after an expired lease: what has not changed in it,
\* and that it is still in order with no node running.
LEMMA ResumedRowOK ==
  ASSUME NEW old, RowOK(old), ~LeaseHeld(old), old.status \notin UpForReview
  PROVE  /\ RowOK(Resumed(old))
         /\ NoneRunning(Resumed(old))
         /\ Resumed(old).payload = old.payload
         /\ Resumed(old).code = old.code
         /\ Resumed(old).revision = old.revision
         /\ Resumed(old).lease = old.lease
         /\ Resumed(old).status = old.status
         /\ Resumed(old).approval = old.approval
         /\ \A n \in NodesFor(old.payload.workflow) :
              /\ Succeeded(Resumed(old), n) <=> Succeeded(old, n)
              /\ Succeeded(old, n) => Resumed(old).nodes[n] = old.nodes[n]
<1> DEFINE row == Resumed(old)
           w == old.payload.workflow
           nodes == IF old.lease = None THEN old.nodes
                    ELSE [n \in DOMAIN old.nodes |->
                            IF old.nodes[n].status = "running"
                            THEN [old.nodes[n] EXCEPT !.status = "pending"]
                            ELSE old.nodes[n]]
           quality == IF Verified(old) THEN old.nodes["verify"].result
                      ELSE old.quality
<1>0. RowTyped(old) /\ RowSound(old) /\ RowOrdered(old) /\ RowLeased(old)
      /\ RowReviewed(old)
  BY DEF RowOK
<1>1. old \in RowsOf(old.payload, old.code)
  BY <1>0 DEF RowTyped
<1>2. old.nodes \in [NodesFor(w) -> NodeOf(old.payload, old.code)]
  BY <1>0, RowParts
<1>3. \A n \in NodesFor(w) :
        /\ nodes[n] \in NodeOf(old.payload, old.code)
        /\ nodes[n].key = old.nodes[n].key
        /\ nodes[n].result = old.nodes[n].result
        /\ nodes[n].status # "running"
        /\ nodes[n].status = "succeeded" <=> old.nodes[n].status = "succeeded"
        /\ old.nodes[n].status = "succeeded" => nodes[n] = old.nodes[n]
  <2> SUFFICES ASSUME NEW n \in NodesFor(w)
               PROVE
        /\ nodes[n] \in NodeOf(old.payload, old.code)
        /\ nodes[n].key = old.nodes[n].key
        /\ nodes[n].result = old.nodes[n].result
        /\ nodes[n].status # "running"
        /\ nodes[n].status = "succeeded" <=> old.nodes[n].status = "succeeded"
        /\ old.nodes[n].status = "succeeded" => nodes[n] = old.nodes[n]
    OBVIOUS
  <2>1. old.nodes[n] \in NodeOf(old.payload, old.code)
    BY <1>2
  <2>2. CASE old.lease = None
    <3>1. old.nodes[n].status # "running"
      BY <1>0, <2>2 DEF RowLeased, NoneRunning
    <3>2. nodes = old.nodes
      BY <2>2
    <3> QED BY <2>1, <3>1, <3>2
  <2>3. CASE old.lease # None /\ old.nodes[n].status = "running"
    <3>1. nodes[n] = [old.nodes[n] EXCEPT !.status = "pending"]
      BY <1>2, <2>3
    <3>2. [old.nodes[n] EXCEPT !.status = "pending"] \in NodeOf(old.payload, old.code)
      BY <2>1, Zenon DEF NodeOf
    <3>3. /\ [old.nodes[n] EXCEPT !.status = "pending"].key = old.nodes[n].key
          /\ [old.nodes[n] EXCEPT !.status = "pending"].result = old.nodes[n].result
          /\ [old.nodes[n] EXCEPT !.status = "pending"].status = "pending"
      BY <2>1 DEF NodeOf
    <3> QED BY <2>3, <3>1, <3>2, <3>3
  <2>4. CASE old.lease # None /\ old.nodes[n].status # "running"
    <3>1. nodes[n] = old.nodes[n]
      BY <1>2, <2>4
    <3> QED BY <2>1, <2>4, <3>1
  <2> QED BY <2>2, <2>3, <2>4
<1>4. row = [old EXCEPT !.nodes = nodes, !.quality = quality]
  BY DEF Resumed
<1>5. /\ row.payload = old.payload /\ row.code = old.code
      /\ row.revision = old.revision /\ row.lease = old.lease
      /\ row.status = old.status /\ row.approval = old.approval
      /\ row.nodes = nodes /\ row.quality = quality
  <2> HIDE DEF nodes, quality
  <2> QED BY <1>1, <1>4 DEF RowsOf
<1>6. nodes \in [NodesFor(w) -> NodeOf(old.payload, old.code)]
  BY <1>2, <1>3
<1>7. quality \in {CleanResult("verify", old.payload, old.code), None}
  BY <1>0, HardFailureMeans, RowParts
<1>8. RowTyped(row)
  <2>1. row \in RowsOf(old.payload, old.code)
    <3> HIDE DEF nodes, quality, row
    <3> QED BY <1>1, <1>4, <1>6, <1>7, Zenon DEF RowsOf
  <2> QED BY <1>0, <1>5, <2>1 DEF RowTyped
<1>9. \A n \in NodesFor(w) : Succeeded(row, n) <=> Succeeded(old, n)
  BY <1>3, <1>5 DEF Succeeded
<1> HIDE DEF nodes, quality, row
<1>10. RowSound(row)
  BY <1>0, <1>3, <1>5, <1>9 DEF RowSound
<1>11. RowOrdered(row)
  BY <1>0, <1>5, <1>9 DEF RowOrdered, Verified, NodesFor
<1>12. NoneRunning(row)
  BY <1>3, <1>5 DEF NoneRunning
<1>13. RowLeased(row)
  BY <1>0, <1>5, <1>12 DEF RowLeased, LeaseHeld
<1>14. RowReviewed(row)
  BY <1>0, <1>5 DEF RowReviewed
<1>15. RowOK(row)
  BY <1>8, <1>10, <1>11, <1>13, <1>14 DEF RowOK
<1>16. \A n \in NodesFor(w) : Succeeded(old, n) => row.nodes[n] = old.nodes[n]
  BY <1>3, <1>5 DEF Succeeded
<1> QED BY <1>5, <1>9, <1>12, <1>15, <1>16 DEF row

\* A row that comes to rest with no node running: in any status short of
\* review, with or without the lease that expired.
LEMMA RestingRowOK ==
  ASSUME NEW old, RowOK(old), NoneRunning(old), ~LeaseHeld(old),
         old.status \notin UpForReview,
         NEW row, NEW s \in {"pending", "attention", "blocked"},
         \/ row = [old EXCEPT !.status = s]
         \/ row = [old EXCEPT !.status = s, !.lease = None]
  PROVE  RowOK(row)
<1>0. RowTyped(old) /\ RowSound(old) /\ RowOrdered(old) /\ RowReviewed(old)
  BY DEF RowOK
<1>1. old \in RowsOf(old.payload, old.code) /\ s \in Statuses
  BY <1>0 DEF RowTyped, Statuses
<1>2. row \in RowsOf(old.payload, old.code)
  BY <1>1, Zenon DEF RowsOf
<1>3. /\ row.payload = old.payload /\ row.code = old.code
      /\ row.revision = old.revision /\ row.lease \in {old.lease, None}
      /\ row.status = s /\ row.approval = old.approval
      /\ row.nodes = old.nodes
  BY <1>1 DEF RowsOf
<1>4. RowTyped(row)
  BY <1>0, <1>2, <1>3 DEF RowTyped
<1>5. RowSound(row)
  BY <1>0, <1>3 DEF RowSound, Succeeded
<1>6. RowOrdered(row)
  BY <1>0, <1>3 DEF RowOrdered, Verified, Succeeded
<1>7. RowLeased(row)
  BY <1>3 DEF RowLeased, NoneRunning, LeaseHeld
<1>8. RowReviewed(row)
  BY <1>0, <1>3 DEF RowReviewed, UpForReview, Decided
<1> QED BY <1>4, <1>5, <1>6, <1>7, <1>8 DEF RowOK

\* A row goes up for review when every node is saved and the check passed.
LEMMA PresentedRowOK ==
  ASSUME NEW old, RowOK(old), old.status \notin UpForReview,
         AllSucceeded(old), ~HardFailure(old),
         old.quality = old.nodes["verify"].result
  PROVE  RowOK([old EXCEPT !.status = "needs_review", !.lease = None])
<1> DEFINE row == [old EXCEPT !.status = "needs_review", !.lease = None]
<1>0. RowTyped(old) /\ RowSound(old) /\ RowOrdered(old) /\ RowReviewed(old)
  BY DEF RowOK
<1>1. old \in RowsOf(old.payload, old.code) /\ "needs_review" \in Statuses
  BY <1>0 DEF RowTyped, Statuses
<1>2. row \in RowsOf(old.payload, old.code)
  BY <1>1, Zenon DEF RowsOf
<1>3. /\ row.payload = old.payload /\ row.code = old.code
      /\ row.revision = old.revision /\ row.lease = None
      /\ row.status = "needs_review" /\ row.approval = old.approval
      /\ row.nodes = old.nodes /\ row.quality = old.quality
  BY <1>1 DEF RowsOf
<1>4. \A n \in NodesFor(old.payload.workflow) : Succeeded(old, n)
  BY <1>0, RowParts DEF AllSucceeded
<1> HIDE DEF row
<1>5. RowTyped(row)
  BY <1>0, <1>2, <1>3 DEF RowTyped
<1>6. RowSound(row)
  BY <1>0, <1>3 DEF RowSound, Succeeded
<1>7. RowOrdered(row)
  BY <1>0, <1>3 DEF RowOrdered, Verified, Succeeded
<1>8. RowLeased(row)
  BY <1>3, <1>4 DEF RowLeased, NoneRunning, LeaseHeld, Succeeded
<1>9. CanReview(old.quality)
  BY <1>0, <1>4, RowParts DEF HardFailure, Verified
<1>10. RowReviewed(row)
  BY <1>0, <1>3, <1>4, <1>9 DEF RowReviewed, UpForReview, Decided, Succeeded
<1>11. RowOK(row)
  BY <1>5, <1>6, <1>7, <1>8, <1>10 DEF RowOK
<1> QED BY <1>11 DEF row

\* A batch is started on nodes that are ready and have attempts left.
LEMMA StartedRowOK ==
  ASSUME NEW old, RowOK(old), NoneRunning(old), old.status \notin UpForReview,
         NEW h \in Handlers
  PROVE  LET row == Started(old, Candidates(old), h) IN
         /\ RowOK(row)
         /\ row.payload = old.payload /\ row.code = old.code
         /\ row.revision = old.revision /\ row.approval = old.approval
         /\ row.status = "running"
         /\ row.lease = [id |-> h, left |-> LeaseSeconds]
         /\ \A n \in Candidates(old) :
              /\ n \in NodesFor(old.payload.workflow)
              /\ ~Succeeded(row, n)
              /\ \A d \in Depends(n, old.payload.workflow) : Succeeded(old, d)
         /\ \A n \in NodesFor(old.payload.workflow) :
              Succeeded(old, n) => row.nodes[n] = old.nodes[n]
<1> DEFINE w == old.payload.workflow
           chosen == Candidates(old)
           nodes == [n \in DOMAIN old.nodes |->
                       IF n \in chosen
                       THEN [old.nodes[n] EXCEPT !.status = "running",
                                                 !.attempts = @ + 1]
                       ELSE old.nodes[n]]
           lease == [id |-> h, left |-> LeaseSeconds]
           row == Started(old, chosen, h)
<1>0. RowTyped(old) /\ RowSound(old) /\ RowOrdered(old) /\ RowReviewed(old)
  BY DEF RowOK
<1>1. old \in RowsOf(old.payload, old.code)
  BY <1>0 DEF RowTyped
<1>2. /\ old.nodes \in [NodesFor(w) -> NodeOf(old.payload, old.code)]
      /\ DOMAIN old.nodes = NodesFor(w)
  BY <1>0, RowParts
<1>3. \A n \in chosen :
        /\ n \in NodesFor(w)
        /\ old.nodes[n].status \in {"pending", "failed"}
        /\ old.nodes[n].attempts < MaxAttempts
        /\ \A d \in Depends(n, w) : Succeeded(old, d)
  BY <1>2 DEF Candidates
<1>4. \A n \in chosen :
        /\ nodes[n] \in NodeOf(old.payload, old.code)
        /\ nodes[n].status = "running"
        /\ nodes[n].key = old.nodes[n].key
        /\ nodes[n].result = old.nodes[n].result
  <2> SUFFICES ASSUME NEW n \in chosen
               PROVE
        /\ nodes[n] \in NodeOf(old.payload, old.code)
        /\ nodes[n].status = "running"
        /\ nodes[n].key = old.nodes[n].key
        /\ nodes[n].result = old.nodes[n].result
    OBVIOUS
  <2> DEFINE node == [old.nodes[n] EXCEPT !.status = "running", !.attempts = @ + 1]
  <2>1. old.nodes[n] \in NodeOf(old.payload, old.code)
    BY <1>2, <1>3
  <2>2. old.nodes[n].attempts + 1 \in 0..MaxAttempts
    BY <1>3, <2>1, NumbersAssumption DEF NodeOf
  <2>3. node \in NodeOf(old.payload, old.code)
    BY <2>1, <2>2, Zenon DEF NodeOf
  <2>4. /\ node.status = "running" /\ node.key = old.nodes[n].key
        /\ node.result = old.nodes[n].result
    BY <2>1 DEF NodeOf
  <2>5. nodes[n] = node
    BY <1>2, <1>3
  <2> HIDE DEF node, nodes
  <2> QED BY <2>3, <2>4, <2>5
<1>5. \A n \in NodesFor(w) : n \notin chosen => nodes[n] = old.nodes[n]
  BY <1>2
<1>6. nodes \in [NodesFor(w) -> NodeOf(old.payload, old.code)]
  <2>1. \A n \in NodesFor(w) : nodes[n] \in NodeOf(old.payload, old.code)
    BY <1>2, <1>4, <1>5
  <2>2. nodes = [n \in NodesFor(w) |-> nodes[n]]
    BY <1>2
  <2> HIDE DEF nodes
  <2> QED BY <2>1, <2>2
<1>7. row = [old EXCEPT !.nodes = nodes, !.status = "running", !.lease = lease]
  BY DEF Started
<1>8. lease \in Leases /\ "running" \in Statuses
  BY NumbersAssumption DEF Leases, Statuses
<1> HIDE DEF nodes, lease, row
<1>9. row \in RowsOf(old.payload, old.code)
  BY <1>1, <1>6, <1>7, <1>8, Zenon DEF RowsOf
<1>10. /\ row.payload = old.payload /\ row.code = old.code
       /\ row.revision = old.revision /\ row.lease = lease
       /\ row.status = "running" /\ row.approval = old.approval
       /\ row.nodes = nodes
  BY <1>1, <1>7 DEF RowsOf
<1>11. \A n \in NodesFor(w) :
         /\ Succeeded(row, n) <=> Succeeded(old, n)
         /\ row.nodes[n].key = old.nodes[n].key
         /\ row.nodes[n].result = old.nodes[n].result
         /\ Succeeded(old, n) => row.nodes[n] = old.nodes[n]
  BY <1>3, <1>4, <1>5, <1>10 DEF Succeeded
<1>12. RowTyped(row)
  BY <1>0, <1>9, <1>10 DEF RowTyped
<1>13. RowSound(row)
  BY <1>0, <1>10, <1>11 DEF RowSound
<1>14. RowOrdered(row)
  BY <1>0, <1>10, <1>11 DEF RowOrdered, Verified, NodesFor
<1>15. RowLeased(row)
  BY <1>8, <1>10, NoneAssumption DEF RowLeased
<1>16. RowReviewed(row)
  BY <1>0, <1>10 DEF RowReviewed, UpForReview, Decided
<1>17. RowOK(row)
  BY <1>12, <1>13, <1>14, <1>15, <1>16 DEF RowOK
<1>18. \A n \in chosen : ~Succeeded(row, n)
  BY <1>3, <1>4, <1>10 DEF Succeeded
<1> QED BY <1>3, <1>10, <1>11, <1>17, <1>18 DEF row, lease

SavedRow(row, n, result) == [row EXCEPT !.nodes[n] = SavedNode(@, result)]

\* A result that is right, or a failure, is saved in a node of a batch whose
\* dependencies are saved.
LEMMA SavedRowOK ==
  ASSUME NEW old, RowOK(old), old.status \notin UpForReview,
         NEW n \in NodesFor(old.payload.workflow), ~Succeeded(old, n),
         n = "verify" =>
           \A t \in ToolsOf[old.payload.workflow] : Succeeded(old, t),
         NEW result,
         result \in {None, CleanResult(n, old.payload, old.code)}
  PROVE  LET row == SavedRow(old, n, result) IN
         /\ RowOK(row)
         /\ row.payload = old.payload /\ row.code = old.code
         /\ row.revision = old.revision /\ row.approval = old.approval
         /\ row.status = old.status /\ row.lease = old.lease
         /\ \A m \in NodesFor(old.payload.workflow) :
              m # n => row.nodes[m] = old.nodes[m]
<1> DEFINE w == old.payload.workflow
           node == SavedNode(old.nodes[n], result)
           nodes == [old.nodes EXCEPT ![n] = node]
           row == SavedRow(old, n, result)
<1>0. RowTyped(old) /\ RowSound(old) /\ RowOrdered(old) /\ RowLeased(old)
      /\ RowReviewed(old)
  BY DEF RowOK
<1>1. old \in RowsOf(old.payload, old.code)
  BY <1>0 DEF RowTyped
<1>2. /\ old.nodes \in [NodesFor(w) -> NodeOf(old.payload, old.code)]
      /\ DOMAIN old.nodes = NodesFor(w)
      /\ w \in Workflows
  BY <1>0, RowParts
<1>3. old.nodes[n] \in NodeOf(old.payload, old.code)
  BY <1>2
<1>4. result \in Results(old.payload, old.code) \cup {None}
  BY DEF Results
<1>5. node \in NodeOf(old.payload, old.code)
  BY <1>3, <1>4, Zenon DEF NodeOf, SavedNode
<1>6. /\ node.status = IF result = None THEN "failed" ELSE "succeeded"
      /\ node.result = result
      /\ node.key = old.nodes[n].key
  BY <1>3 DEF NodeOf, SavedNode
<1>7. /\ row = [old EXCEPT !.nodes = nodes]
      /\ nodes[n] = node
      /\ \A m \in NodesFor(w) : m # n => nodes[m] = old.nodes[m]
  BY <1>1, <1>2 DEF RowsOf, SavedRow
<1> HIDE DEF node
<1>8. nodes \in [NodesFor(w) -> NodeOf(old.payload, old.code)]
  BY <1>2, <1>5
<1> HIDE DEF nodes, row
<1>9. row \in RowsOf(old.payload, old.code)
  BY <1>1, <1>7, <1>8, Zenon DEF RowsOf
<1>10. /\ row.payload = old.payload /\ row.code = old.code
       /\ row.revision = old.revision /\ row.lease = old.lease
       /\ row.status = old.status /\ row.approval = old.approval
       /\ row.nodes = nodes /\ row.quality = old.quality
  BY <1>1, <1>7 DEF RowsOf
<1>11. /\ row.nodes[n] = node
       /\ \A m \in NodesFor(w) : m # n => row.nodes[m] = old.nodes[m]
  BY <1>7, <1>10
<1>12. RowTyped(row)
  BY <1>0, <1>9, <1>10 DEF RowTyped
<1>13. RowSound(row)
  <2> SUFFICES ASSUME NEW m \in NodesFor(w)
               PROVE  /\ row.nodes[m].key = NodeKey(m, old.payload, old.code)
                      /\ row.nodes[m].result =
                           IF Succeeded(row, m)
                           THEN CleanResult(m, old.payload, old.code) ELSE None
    BY <1>10 DEF RowSound
  <2>1. CASE m = n
    BY <1>0, <1>6, <1>11, <2>1 DEF RowSound, Succeeded
  <2>2. CASE m # n
    BY <1>0, <1>11, <2>2 DEF RowSound, Succeeded
  <2> QED BY <2>1, <2>2
<1>14. \A m \in NodesFor(w) : Succeeded(old, m) => Succeeded(row, m)
  BY <1>11 DEF Succeeded
<1>15. RowOrdered(row)
  <2> SUFFICES ASSUME Verified(row), NEW t \in ToolsOf[w]
               PROVE  Succeeded(row, t)
    BY <1>10 DEF RowOrdered
  <2>1. Succeeded(old, t)
    <3>1. CASE n = "verify"
      BY <3>1
    <3>2. CASE n # "verify"
      BY <1>0, <1>11, <3>2 DEF RowOrdered, Verified, Succeeded, NodesFor
    <3> QED BY <3>1, <3>2
  <2> QED BY <1>14, <2>1 DEF NodesFor
<1>16. RowLeased(row)
  <2>1. NoneRunning(old) => NoneRunning(row)
    BY <1>6, <1>10, <1>11 DEF NoneRunning
  <2> QED BY <1>0, <1>10, <2>1 DEF RowLeased, LeaseHeld
<1>17. RowReviewed(row)
  BY <1>0, <1>10 DEF RowReviewed, UpForReview, Decided
<1>18. RowOK(row)
  BY <1>12, <1>13, <1>15, <1>16, <1>17 DEF RowOK
<1> QED BY <1>10, <1>11, <1>18 DEF row

\* A batch is settled when none of its nodes is running any more.
LEMMA SettledRowOK ==
  ASSUME NEW old, RowOK(old), NoneRunning(old), old.status \notin UpForReview
  PROVE  /\ RowOK(SettledRow(old))
         /\ SettledRow(old).lease = None
         /\ SettledRow(old).payload = old.payload
         /\ SettledRow(old).code = old.code
         /\ SettledRow(old).revision = old.revision
         /\ SettledRow(old).approval = old.approval
         /\ SettledRow(old).nodes = old.nodes
         /\ SettledRow(old).status \in
              {"pending", "attention", "blocked", "needs_review"}
         /\ SettledRow(old).status = "needs_review" => PassesChecks(old.payload)
<1> DEFINE row == SettledRow(old)
           quality == IF Verified(old) THEN old.nodes["verify"].result
                      ELSE old.quality
           status == IF HardFailure(old) THEN "blocked"
                     ELSE IF AllSucceeded(old) THEN "needs_review"
                     ELSE IF \E n \in DOMAIN old.nodes :
                               old.nodes[n].status = "failed"
                     THEN "attention" ELSE "pending"
<1>0. RowTyped(old) /\ RowSound(old) /\ RowOrdered(old) /\ RowReviewed(old)
  BY DEF RowOK
<1>1. old \in RowsOf(old.payload, old.code)
  BY <1>0 DEF RowTyped
<1>2. row = [old EXCEPT !.lease = None, !.quality = quality, !.status = status]
  BY DEF SettledRow
<1>3. quality \in {CleanResult("verify", old.payload, old.code), None}
  BY <1>0, HardFailureMeans, RowParts
<1>4. status \in {"pending", "attention", "blocked", "needs_review"}
      /\ status \in Statuses
  BY DEF Statuses
<1>5. status = "needs_review" => AllSucceeded(old) /\ ~HardFailure(old)
  OBVIOUS
<1>6. Verified(old) => quality = old.nodes["verify"].result
  OBVIOUS
<1> HIDE DEF quality, status, row
<1>7. row \in RowsOf(old.payload, old.code)
  BY <1>1, <1>2, <1>3, <1>4, Zenon DEF RowsOf
<1>8. /\ row.payload = old.payload /\ row.code = old.code
      /\ row.revision = old.revision /\ row.lease = None
      /\ row.status = status /\ row.approval = old.approval
      /\ row.nodes = old.nodes /\ row.quality = quality
  BY <1>1, <1>2 DEF RowsOf
<1>9. RowTyped(row)
  BY <1>0, <1>7, <1>8 DEF RowTyped
<1>10. RowSound(row)
  BY <1>0, <1>8 DEF RowSound, Succeeded
<1>11. RowOrdered(row)
  BY <1>0, <1>8 DEF RowOrdered, Verified, Succeeded
<1>12. RowLeased(row)
  BY <1>4, <1>8 DEF RowLeased, NoneRunning, LeaseHeld
<1>13. status = "needs_review" =>
         /\ \A n \in NodesFor(old.payload.workflow) : Succeeded(old, n)
         /\ quality = old.nodes["verify"].result
         /\ CanReview(quality)
         /\ PassesChecks(old.payload)
  <2> SUFFICES ASSUME status = "needs_review"
               PROVE  /\ \A n \in NodesFor(old.payload.workflow) : Succeeded(old, n)
                      /\ quality = old.nodes["verify"].result
                      /\ CanReview(quality)
                      /\ PassesChecks(old.payload)
    OBVIOUS
  <2>1. \A n \in NodesFor(old.payload.workflow) : Succeeded(old, n)
    BY <1>0, <1>5, RowParts DEF AllSucceeded
  <2>2. Verified(old)
    BY <2>1 DEF Verified, NodesFor
  <2> QED BY <1>0, <1>5, <1>6, <2>1, <2>2, HardFailureMeans DEF HardFailure
<1>14. RowReviewed(row)
  BY <1>0, <1>4, <1>8, <1>13 DEF RowReviewed, UpForReview, Decided, Succeeded
<1>15. RowOK(row)
  BY <1>9, <1>10, <1>11, <1>12, <1>14 DEF RowOK
<1> QED BY <1>4, <1>8, <1>13, <1>15 DEF row

DecidedRow(row, who, d) ==
  [row EXCEPT !.approval = Approval(row, who, d),
              !.status = IF d = "approve" THEN "approved" ELSE "rejected"]

\* A reviewer decides on a row that is up for review.
LEMMA ReviewedRowOK ==
  ASSUME NEW old, RowOK(old), old.status = "needs_review",
         NEW who \in Principals, NEW d \in {"approve", "reject"}
  PROVE  LET row == DecidedRow(old, who, d) IN
         /\ RowOK(row)
         /\ row.lease = None
         /\ row.payload = old.payload /\ row.code = old.code
         /\ row.revision = old.revision /\ row.nodes = old.nodes
         /\ row.status = IF d = "approve" THEN "approved" ELSE "rejected"
         /\ row.approval = Approval(old, who, d) /\ row.approval # None
<1> DEFINE status == IF d = "approve" THEN "approved" ELSE "rejected"
           approval == Approval(old, who, d)
           row == DecidedRow(old, who, d)
<1>0. RowTyped(old) /\ RowSound(old) /\ RowOrdered(old) /\ RowLeased(old)
      /\ RowReviewed(old)
  BY DEF RowOK
<1>1. old \in RowsOf(old.payload, old.code)
  BY <1>0 DEF RowTyped
<1>2. status \in Statuses /\ status \in Decided
      /\ ((d = "approve") <=> (status = "approved"))
  BY DEF Statuses, Decided
<1>3. old.nodes["report"].result = CleanResult("report", old.payload, old.code)
      /\ old.revision \in 1..MaxRevision /\ old.payload \in Payloads
  BY <1>0, RowParts DEF RowSound, RowReviewed, UpForReview
<1>4. /\ approval.revision = old.revision /\ approval.decision = d
      /\ approval \in Approvals(old.payload, old.code)
  BY <1>3 DEF Approval, Approvals
<1>14. approval # None
  BY <1>3, <1>4, <1>0, RowParts, NoneAssumption
<1> HIDE DEF status, approval, row
<1>5. row \in RowsOf(old.payload, old.code)
  BY <1>1, <1>2, <1>4, Zenon DEF RowsOf, row, DecidedRow, status, approval
<1>6. /\ row.payload = old.payload /\ row.code = old.code
      /\ row.revision = old.revision /\ row.lease = old.lease
      /\ row.status = status /\ row.approval = approval
      /\ row.nodes = old.nodes /\ row.quality = old.quality
  BY <1>1 DEF RowsOf, row, DecidedRow, status, approval
<1>7. RowTyped(row)
  BY <1>0, <1>5, <1>6 DEF RowTyped
<1>8. RowSound(row)
  BY <1>0, <1>6 DEF RowSound, Succeeded
<1>9. RowOrdered(row)
  BY <1>0, <1>6 DEF RowOrdered, Verified, Succeeded
<1>10. old.lease = None /\ NoneRunning(old)
  BY <1>0 DEF RowReviewed, UpForReview, NoneRunning, Succeeded
<1>11. RowLeased(row)
  BY <1>2, <1>6, <1>10 DEF RowLeased, NoneRunning, LeaseHeld, Decided
<1>12. RowReviewed(row)
  BY <1>0, <1>2, <1>4, <1>6 DEF RowReviewed, UpForReview, Succeeded
<1>13. RowOK(row)
  BY <1>7, <1>8, <1>9, <1>11, <1>12 DEF RowOK
<1> QED BY <1>6, <1>10, <1>13, <1>14 DEF row, status, approval

TickedRow(row) == [row EXCEPT !.lease.left = @ - 1]

\* Time passes on a lease that is held.
LEMMA TickedRowOK ==
  ASSUME NEW old, RowOK(old), LeaseHeld(old)
  PROVE  LET row == TickedRow(old) IN
         /\ RowOK(row)
         /\ row.payload = old.payload /\ row.code = old.code
         /\ row.revision = old.revision /\ row.nodes = old.nodes
         /\ row.status = old.status /\ row.approval = old.approval
         /\ row.quality = old.quality
         /\ row.lease # None /\ row.lease.id = old.lease.id
<1> DEFINE lease == [old.lease EXCEPT !.left = @ - 1]
           row == TickedRow(old)
<1>0. RowTyped(old) /\ RowSound(old) /\ RowOrdered(old) /\ RowLeased(old)
      /\ RowReviewed(old)
  BY DEF RowOK
<1>1. old \in RowsOf(old.payload, old.code)
  BY <1>0 DEF RowTyped
<1>2. old.lease \in Leases /\ old.lease # None /\ old.lease.left > 0
  BY <1>0, RowParts DEF LeaseHeld
<1>3. old.lease.left - 1 \in 0..LeaseSeconds
  BY <1>2, NumbersAssumption DEF Leases
<1>4. lease \in Leases
  BY <1>2, <1>3, Zenon DEF Leases
<1>5. lease # None /\ lease.id = old.lease.id
  BY <1>2, <1>4, NoneAssumption DEF Leases
<1>6. row = [old EXCEPT !.lease = lease]
  BY DEF TickedRow
<1> HIDE DEF lease, row
<1>7. row \in RowsOf(old.payload, old.code)
  BY <1>1, <1>4, <1>6, Zenon DEF RowsOf
<1>8. /\ row.payload = old.payload /\ row.code = old.code
      /\ row.revision = old.revision /\ row.lease = lease
      /\ row.status = old.status /\ row.approval = old.approval
      /\ row.nodes = old.nodes /\ row.quality = old.quality
  BY <1>1, <1>6 DEF RowsOf
<1>9. RowTyped(row)
  BY <1>0, <1>7, <1>8 DEF RowTyped
<1>10. RowSound(row)
  BY <1>0, <1>8 DEF RowSound, Succeeded
<1>11. RowOrdered(row)
  BY <1>0, <1>8 DEF RowOrdered, Verified, Succeeded
<1>12. old.status = "running"
  BY <1>0 DEF RowLeased
<1>13. RowLeased(row)
  BY <1>5, <1>8, <1>12 DEF RowLeased
<1>14. RowReviewed(row)
  BY <1>0, <1>8, <1>12 DEF RowReviewed, UpForReview, Decided, Succeeded
<1>15. RowOK(row)
  BY <1>9, <1>10, <1>11, <1>13, <1>14 DEF RowOK
<1> QED BY <1>5, <1>8, <1>15 DEF row
-----------------------------------------------------------------------------
(* The inductive invariant.                                                *)

\* What a batch computes from, and hands to whom.
BatchSound(b) ==
  /\ IsBatch(b)
  /\ \A n \in DOMAIN b.completed : b.completed[n] = CleanResult(n, b.payload, b.code)
  /\ "verify" \in DOMAIN b.completed =>
       ToolsOf[b.payload.workflow] \subseteq DOMAIN b.completed
  /\ \A n \in b.todo : Depends(n, b.payload.workflow) \subseteq DOMAIN b.completed

\* The row lets the batch of handler h through its fence.
Lets(row, b, h) ==
  row # None /\ row.revision = b.revision /\ row.lease # None /\ row.lease.id = h

\* A row that lets a batch through is the row the batch was claimed on: the
\* batch computes what the row needs, and no other node of the row is running.
BatchFits(row, b) ==
  /\ b.payload = row.payload
  /\ b.code = row.code
  /\ \A n \in DOMAIN b.completed :
       Succeeded(row, n) /\ row.nodes[n].result = b.completed[n]
  /\ \A n \in b.todo : ~Succeeded(row, n)
  /\ \A n \in NodesFor(row.payload.workflow) :
       row.nodes[n].status = "running" => n \in b.todo \/ b.raised

BatchOK(h) ==
  batch[h] # None =>
    /\ BatchSound(batch[h])
    /\ Lets(runs[batch[h].run], batch[h], h) =>
         BatchFits(runs[batch[h].run], batch[h])

\* A verdict is never the author's own.
Independent(k, row) == row.approval # None => row.approval.reviewer # k.author

IInv ==
  /\ DOMAIN runs = Keys
  /\ \A k \in Keys : Present(k) => RowOK(runs[k]) /\ Independent(k, runs[k])
  /\ DOMAIN batch = Handlers
  /\ \A h \in Handlers : BatchOK(h)

\* A row that lets no batch through that its predecessor would not, and fits
\* every batch its predecessor fitted.
Follows(old, row) ==
  row # None /\ row.lease # None =>
    /\ old # None /\ old.lease # None
    /\ row.lease.id = old.lease.id
    /\ row.revision = old.revision
    /\ row.payload = old.payload /\ row.code = old.code
    /\ DOMAIN row.nodes = DOMAIN old.nodes
    /\ \A n \in NodesFor(old.payload.workflow) :
         /\ Succeeded(row, n) <=> Succeeded(old, n)
         /\ Succeeded(old, n) => row.nodes[n].result = old.nodes[n].result
         /\ row.nodes[n].status = "running" => old.nodes[n].status = "running"

LEMMA FollowsFits ==
  ASSUME NEW old, NEW row, NEW b, NEW h, Follows(old, row),
         old # None => DOMAIN old.nodes = NodesFor(old.payload.workflow),
         BatchSound(b), Lets(old, b, h) => BatchFits(old, b), Lets(row, b, h)
  PROVE  BatchFits(row, b)
<1>1. Lets(old, b, h)
  BY DEF Follows, Lets
<1>2. BatchFits(old, b) /\ old # None
  BY <1>1 DEF Lets
<1>3. DOMAIN b.completed \subseteq NodesFor(old.payload.workflow)
      /\ b.todo \subseteq NodesFor(old.payload.workflow)
  BY <1>2 DEF BatchSound, IsBatch, BatchFits
<1> QED BY <1>2, <1>3 DEF Follows, Lets, BatchFits

\* A step that changes one row only, to one in order that follows it.
LEMMA RowStep ==
  ASSUME IInv, NEW k \in Keys, NEW row,
         runs' = [runs EXCEPT ![k] = row], batch' = batch,
         row # None => RowOK(row) /\ Independent(k, row),
         Follows(runs[k], row)
  PROVE  IInv'
<1>1. /\ DOMAIN runs' = Keys
      /\ runs'[k] = row
      /\ \A j \in Keys : j # k => runs'[j] = runs[j]
  BY DEF IInv
<1>2. \A j \in Keys : Present(j)' => RowOK(runs'[j]) /\ Independent(j, runs'[j])
  BY <1>1 DEF IInv, Present
<1>3. \A h \in Handlers : BatchOK(h)'
  <2> SUFFICES ASSUME NEW h \in Handlers, batch[h] # None
               PROVE  /\ BatchSound(batch[h])
                      /\ Lets(runs'[batch[h].run], batch[h], h) =>
                           BatchFits(runs'[batch[h].run], batch[h])
    BY DEF BatchOK
  <2>1. /\ BatchSound(batch[h])
        /\ Lets(runs[batch[h].run], batch[h], h) =>
             BatchFits(runs[batch[h].run], batch[h])
    BY DEF IInv, BatchOK
  <2>2. batch[h].run \in Keys
    BY <2>1 DEF BatchSound, IsBatch
  <2>3. CASE batch[h].run # k
    BY <1>1, <2>1, <2>2, <2>3
  <2>4. CASE batch[h].run = k
    <3>1. runs[k] # None => DOMAIN runs[k].nodes = NodesFor(runs[k].payload.workflow)
      BY RowParts DEF IInv, Present, RowOK
    <3> QED BY <1>1, <2>1, <2>4, <3>1, FollowsFits
  <2> QED BY <2>3, <2>4
<1> QED BY <1>1, <1>2, <1>3 DEF IInv

LEMMA InitIInv == Init => IInv
BY DEF Init, IInv, Present, BatchOK

LEMMA KeyOfInKeys ==
  ASSUME NEW who \in Principals, NEW r \in Requests
  PROVE  KeyOf(who, r) \in Keys
BY DEF Keys

LEMMA CreateIInv ==
  ASSUME IInv, NEW who \in Principals, NEW r \in Requests,
         NEW p \in Payloads, NEW c \in Codes, Create(who, r, p, c)
  PROVE  IInv'
<1>1. KeyOf(who, r) \in Keys
  BY KeyOfInKeys
<1>2. RowOK(NewRow(p, c))
  BY NewRowOK
<1>3. NewRow(p, c).lease = None /\ NewRow(p, c).approval = None
  BY DEF NewRow
<1>4. runs' = [runs EXCEPT ![KeyOf(who, r)] = NewRow(p, c)] /\ batch' = batch
  BY DEF Create
<1>5. Follows(runs[KeyOf(who, r)], NewRow(p, c))
      /\ Independent(KeyOf(who, r), NewRow(p, c))
  BY <1>3 DEF Follows, Independent
<1> HIDE DEF NewRow
<1> QED BY <1>1, <1>2, <1>4, <1>5, RowStep

LEMMA EditIInv ==
  ASSUME IInv, NEW who \in Principals, NEW k \in Keys,
         NEW p \in Payloads, NEW c \in Codes, Edit(who, k, p, c)
  PROVE  IInv'
<1>1. RowOK(runs[k]) /\ RowTyped(runs[k])
  BY DEF IInv, Edit, Owns, RowOK
<1>2. RowOK(EditedRow(runs[k], p, c))
  BY <1>1, EditedRowOK DEF Edit
<1>3. runs[k] \in RowsOf(runs[k].payload, runs[k].code)
  BY <1>1 DEF RowTyped
<1>4. EditedRow(runs[k], p, c).lease = None
      /\ EditedRow(runs[k], p, c).approval = None
  BY <1>3 DEF EditedRow, RowsOf
<1>5. runs' = [runs EXCEPT ![k] = EditedRow(runs[k], p, c)] /\ batch' = batch
  BY DEF Edit
<1>6. Follows(runs[k], EditedRow(runs[k], p, c))
      /\ Independent(k, EditedRow(runs[k], p, c))
  BY <1>4 DEF Follows, Independent
<1> QED BY <1>2, <1>5, <1>6, RowStep

LEMMA DeleteIInv ==
  ASSUME IInv, NEW who \in Principals, NEW k \in Keys, Delete(who, k)
  PROVE  IInv'
<1>1. runs' = [runs EXCEPT ![k] = None] /\ batch' = batch
  BY DEF Delete
<1>2. Follows(runs[k], None)
  BY DEF Follows
<1> QED BY <1>1, <1>2, RowStep

LEMMA ReviewIInv ==
  ASSUME IInv, NEW who \in Principals, NEW k \in Keys,
         NEW d \in {"approve", "reject"}, NEW c \in Codes, Review(who, k, d, c)
  PROVE  IInv'
<1> DEFINE row == DecidedRow(runs[k], who, d)
<1>1. Present(k) /\ runs[k].status = "needs_review" /\ k.author # who.username
  BY DEF Review, MayRead, Owns
<1>2. RowOK(runs[k])
  BY <1>1 DEF IInv
<1>3. RowOK(row) /\ row.lease = None /\ row.approval = Approval(runs[k], who, d)
  BY <1>1, <1>2, ReviewedRowOK
<1>4. runs' = [runs EXCEPT ![k] = row] /\ batch' = batch
  BY DEF Review, IInv, DecidedRow
<1> HIDE DEF row
<1>5. Follows(runs[k], row) /\ Independent(k, row)
  BY <1>1, <1>3 DEF Follows, Independent, Approval
<1> QED BY <1>3, <1>4, <1>5, RowStep

\* What every claim finds.
LEMMA ClaimFinds ==
  ASSUME IInv, NEW who \in Principals, NEW k \in Keys, NEW c \in Codes,
         Claimable(who, k, c)
  PROVE  LET row == Resumed(runs[k]) IN
         /\ Present(k) /\ RowOK(runs[k]) /\ runs[k].status \notin UpForReview
         /\ ~LeaseHeld(runs[k])
         /\ RowOK(row) /\ NoneRunning(row) /\ ~LeaseHeld(row)
         /\ row.status \notin UpForReview
         /\ row.approval = runs[k].approval
         /\ Independent(k, row)
         /\ row.code = c
<1>1. /\ Present(k) /\ RowOK(runs[k]) /\ runs[k].status \notin UpForReview
      /\ ~LeaseHeld(runs[k]) /\ runs[k].code = c /\ Independent(k, runs[k])
  BY DEF IInv, Claimable, Owns, UpForReview, Decided
<1> QED BY <1>1, ResumedRowOK DEF LeaseHeld, Independent

LEMMA ClaimBlocksIInv ==
  ASSUME IInv, NEW who \in Principals, NEW k \in Keys, NEW c \in Codes,
         ClaimBlocks(who, k, c)
  PROVE  IInv'
<1> DEFINE old == Resumed(runs[k])
           row == [old EXCEPT !.status = "blocked", !.lease = None]
<1>1. /\ RowOK(old) /\ NoneRunning(old) /\ ~LeaseHeld(old)
      /\ old.status \notin UpForReview /\ Independent(k, old)
  BY ClaimFinds DEF ClaimBlocks
<1>2. runs' = [runs EXCEPT ![k] = row] /\ batch' = batch
  BY DEF ClaimBlocks
<1>3. old \in RowsOf(old.payload, old.code)
  BY <1>1 DEF RowOK, RowTyped
<1> HIDE DEF old
<1>4. row.lease = None /\ row.approval = old.approval
  BY <1>3 DEF RowsOf
<1> HIDE DEF row
<1>5. RowOK(row)
  BY <1>1, RestingRowOK DEF row
<1>6. Follows(runs[k], row) /\ Independent(k, row)
  BY <1>1, <1>4 DEF Follows, Independent
<1> QED BY <1>2, <1>5, <1>6, RowStep

LEMMA ClaimSettlesIInv ==
  ASSUME IInv, NEW who \in Principals, NEW k \in Keys, NEW c \in Codes,
         ClaimSettles(who, k, c)
  PROVE  IInv'
<1> DEFINE old == Resumed(runs[k])
           row == [old EXCEPT !.status = "needs_review", !.lease = None]
<1>1. /\ RowOK(old) /\ old.status \notin UpForReview /\ Independent(k, old)
  BY ClaimFinds DEF ClaimSettles
<1>2. /\ runs' = [runs EXCEPT ![k] = row] /\ batch' = batch
      /\ AllSucceeded(old) /\ ~HardFailure(old)
  BY DEF ClaimSettles
<1>3. old \in RowsOf(old.payload, old.code) /\ RowTyped(old)
  BY <1>1 DEF RowOK, RowTyped
<1>4. old.quality = old.nodes["verify"].result
  <2>1. /\ RowOK(runs[k]) /\ RowTyped(runs[k])
        /\ runs[k].status \notin UpForReview /\ ~LeaseHeld(runs[k])
    BY ClaimFinds DEF ClaimSettles, RowOK
  <2>2. Succeeded(old, "verify")
    BY <1>2, <1>3, RowParts DEF AllSucceeded
  <2>3. "verify" \in NodesFor(runs[k].payload.workflow)
    BY DEF NodesFor
  <2>4. Succeeded(runs[k], "verify") /\ old.nodes["verify"] = runs[k].nodes["verify"]
    BY <2>1, <2>2, <2>3, ResumedRowOK
  <2>5. runs[k] \in RowsOf(runs[k].payload, runs[k].code)
    BY <2>1 DEF RowTyped
  <2>6. old.quality = IF Verified(runs[k]) THEN runs[k].nodes["verify"].result
                      ELSE runs[k].quality
    BY <2>5 DEF Resumed, RowsOf
  <2> QED BY <2>4, <2>6 DEF Verified
<1> HIDE DEF old
<1>5. row.lease = None /\ row.approval = old.approval
  BY <1>3 DEF RowsOf
<1>6. RowOK(row)
  BY <1>1, <1>2, <1>4, PresentedRowOK
<1> HIDE DEF row
<1>7. Follows(runs[k], row) /\ Independent(k, row)
  BY <1>1, <1>5 DEF Follows, Independent
<1> QED BY <1>2, <1>6, <1>7, RowStep

LEMMA ClaimStallsIInv ==
  ASSUME IInv, NEW who \in Principals, NEW k \in Keys, NEW c \in Codes,
         ClaimStalls(who, k, c)
  PROVE  IInv'
<1> DEFINE old == Resumed(runs[k])
           row == [old EXCEPT !.status = "attention"]
<1>1. /\ RowOK(old) /\ NoneRunning(old) /\ ~LeaseHeld(old)
      /\ old.status \notin UpForReview /\ Independent(k, old)
      /\ RowOK(runs[k]) /\ runs[k].status \notin UpForReview
      /\ ~LeaseHeld(runs[k]) /\ Present(k)
  BY ClaimFinds DEF ClaimStalls
<1>2. runs' = [runs EXCEPT ![k] = row] /\ batch' = batch
  BY DEF ClaimStalls
<1>3. /\ old \in RowsOf(old.payload, old.code)
      /\ RowTyped(old) /\ RowTyped(runs[k])
  BY <1>1 DEF RowOK, RowTyped
<1>4. /\ old.payload = runs[k].payload /\ old.code = runs[k].code
      /\ old.revision = runs[k].revision /\ old.lease = runs[k].lease
      /\ \A n \in NodesFor(runs[k].payload.workflow) :
           /\ Succeeded(old, n) <=> Succeeded(runs[k], n)
           /\ Succeeded(runs[k], n) => old.nodes[n] = runs[k].nodes[n]
  BY <1>1, ResumedRowOK
<1> HIDE DEF old
<1>5. /\ row.lease = old.lease /\ row.approval = old.approval
      /\ row.payload = old.payload /\ row.code = old.code
      /\ row.revision = old.revision /\ row.nodes = old.nodes
  BY <1>3 DEF RowsOf
<1>6. RowOK(row)
  BY <1>1, RestingRowOK
<1> HIDE DEF row
<1>7. DOMAIN old.nodes = DOMAIN runs[k].nodes
  BY <1>3, <1>4, RowParts
<1>8. \A n \in NodesFor(runs[k].payload.workflow) :
        /\ Succeeded(row, n) <=> Succeeded(runs[k], n)
        /\ Succeeded(runs[k], n) => row.nodes[n].result = runs[k].nodes[n].result
        /\ row.nodes[n].status # "running"
  BY <1>1, <1>4, <1>5 DEF Succeeded, NoneRunning
<1>9. Follows(runs[k], row)
  BY <1>1, <1>4, <1>5, <1>7, <1>8 DEF Follows, Present
<1>10. Independent(k, row)
  BY <1>1, <1>5 DEF Independent
<1> QED BY <1>2, <1>6, <1>9, <1>10, RowStep

\* A claim that starts a batch hands it what the row holds.
LEMMA ClaimBatchIInv ==
  ASSUME IInv, NEW h \in Handlers, NEW who \in Principals, NEW k \in Keys,
         NEW c \in Codes, ClaimBatch(h, who, k, c)
  PROVE  IInv'
<1> DEFINE old == Resumed(runs[k])
           row == Started(old, Candidates(old), h)
           w == old.payload.workflow
           done == {m \in DOMAIN old.nodes : Succeeded(old, m)}
           b == [run |-> k, revision |-> old.revision, payload |-> old.payload,
                 code |-> c, todo |-> Candidates(old), raised |-> FALSE,
                 completed |-> [n \in done |-> old.nodes[n].result]]
<1>1. /\ RowOK(old) /\ NoneRunning(old) /\ old.status \notin UpForReview
      /\ Independent(k, old) /\ old.code = c
  BY ClaimFinds DEF ClaimBatch
<1>2. /\ runs' = [runs EXCEPT ![k] = row]
      /\ batch' = [batch EXCEPT ![h] = b]
      /\ batch[h] = None
  BY DEF ClaimBatch
<1>3. RowTyped(old) /\ RowSound(old) /\ RowOrdered(old)
  BY <1>1 DEF RowOK
<1> HIDE DEF old
<1>4. /\ RowOK(row)
      /\ row.payload = old.payload /\ row.code = old.code
      /\ row.revision = old.revision /\ row.approval = old.approval
      /\ row.lease = [id |-> h, left |-> LeaseSeconds]
      /\ \A n \in Candidates(old) :
           /\ n \in NodesFor(w)
           /\ ~Succeeded(row, n)
           /\ \A d \in Depends(n, w) : Succeeded(old, d)
      /\ \A n \in NodesFor(w) : Succeeded(old, n) => row.nodes[n] = old.nodes[n]
  BY <1>1, StartedRowOK
<1>5. \A n \in NodesFor(w) : row.nodes[n].status = "running" => n \in Candidates(old)
  <2>1. DOMAIN old.nodes = NodesFor(w) /\ old \in RowsOf(old.payload, old.code)
    BY <1>3, RowParts DEF RowTyped
  <2>2. row.nodes = [n \in DOMAIN old.nodes |->
                       IF n \in Candidates(old)
                       THEN [old.nodes[n] EXCEPT !.status = "running",
                                                 !.attempts = @ + 1]
                       ELSE old.nodes[n]]
    BY <2>1 DEF Started, RowsOf
  <2>3. \A n \in NodesFor(w) : n \notin Candidates(old) => row.nodes[n] = old.nodes[n]
    BY <2>1, <2>2
  <2> QED BY <1>1, <2>3 DEF NoneRunning
<1> HIDE DEF row
<1>6. /\ old.payload \in Payloads /\ w \in Workflows
      /\ old.revision \in 1..MaxRevision
      /\ DOMAIN old.nodes = NodesFor(w)
  BY <1>3, RowParts
<1>7. DOMAIN b.completed = done /\ done \subseteq NodesFor(w)
  BY <1>6
<1>8. \A n \in done : /\ Succeeded(old, n)
                      /\ b.completed[n] = old.nodes[n].result
                      /\ b.completed[n] = CleanResult(n, b.payload, b.code)
  BY <1>1, <1>3, <1>6 DEF RowSound
<1>9. \A n \in NodesFor(w) : Succeeded(old, n) => n \in done
  BY <1>6
<1>10. BatchSound(b)
  <2>1. IsBatch(b)
    BY <1>4, <1>6, <1>7 DEF IsBatch
  <2>2. "verify" \in done => ToolsOf[w] \subseteq done
    BY <1>3, <1>8, <1>9 DEF RowOrdered, Verified, NodesFor
  <2>3. \A n \in b.todo : Depends(n, w) \subseteq done
    BY <1>4, <1>6, <1>9, NodesOfWorkflow
  <2> QED BY <1>7, <1>8, <2>1, <2>2, <2>3 DEF BatchSound
<1>11. BatchFits(row, b)
  <2>1. \A n \in done : Succeeded(row, n) /\ row.nodes[n].result = b.completed[n]
    BY <1>4, <1>7, <1>8 DEF Succeeded
  <2> QED BY <1>1, <1>4, <1>5, <1>7, <2>1 DEF BatchFits
<1>12. b.run = k
  OBVIOUS
<1> HIDE DEF b
<1>13. /\ DOMAIN runs' = Keys /\ DOMAIN batch' = Handlers
       /\ runs'[k] = row /\ batch'[h] = b
       /\ \A j \in Keys : j # k => runs'[j] = runs[j]
       /\ \A g \in Handlers : g # h => batch'[g] = batch[g]
  BY <1>2 DEF IInv
<1>14. Independent(k, row)
  BY <1>1, <1>4 DEF Independent
<1>15. \A j \in Keys : Present(j)' => RowOK(runs'[j]) /\ Independent(j, runs'[j])
  BY <1>4, <1>13, <1>14 DEF IInv, Present
<1>16. \A g \in Handlers : BatchOK(g)'
  <2> SUFFICES ASSUME NEW g \in Handlers, batch'[g] # None
               PROVE  /\ BatchSound(batch'[g])
                      /\ Lets(runs'[batch'[g].run], batch'[g], g) =>
                           BatchFits(runs'[batch'[g].run], batch'[g])
    BY DEF BatchOK
  <2>1. CASE g = h
    BY <1>10, <1>11, <1>12, <1>13, <2>1
  <2>2. CASE g # h
    <3>1. /\ batch'[g] = batch[g] /\ BatchSound(batch[g])
          /\ Lets(runs[batch[g].run], batch[g], g) =>
               BatchFits(runs[batch[g].run], batch[g])
      BY <1>13, <2>2 DEF IInv, BatchOK
    <3>2. batch[g].run \in Keys
      BY <3>1 DEF BatchSound, IsBatch
    <3>3. CASE batch[g].run = k
      <4>1. ~Lets(row, batch[g], g)
        BY <1>4, <2>2 DEF Lets
      <4> QED BY <1>13, <3>1, <3>3, <4>1
    <3>4. CASE batch[g].run # k
      BY <1>13, <3>1, <3>2, <3>4
    <3> QED BY <3>3, <3>4
  <2> QED BY <2>1, <2>2
<1> QED BY <1>13, <1>15, <1>16 DEF IInv

\* A step that changes what one handler holds, and no row.
LEMMA HandlerStep ==
  ASSUME IInv, NEW h \in Handlers, NEW b,
         runs' = runs, batch' = [batch EXCEPT ![h] = b],
         b # None => /\ BatchSound(b)
                     /\ Lets(runs[b.run], b, h) => BatchFits(runs[b.run], b)
  PROVE  IInv'
<1>1. DOMAIN batch' = Handlers /\ batch'[h] = b
      /\ \A g \in Handlers : g # h => batch'[g] = batch[g]
  BY DEF IInv
<1>2. \A g \in Handlers : BatchOK(g)'
  BY <1>1 DEF IInv, BatchOK
<1> QED BY <1>1, <1>2 DEF IInv, Present

\* A step of the handler that holds the lease of a row, on that row.
LEMMA HolderStep ==
  ASSUME IInv, NEW h \in Handlers, NEW b, NEW k \in Keys, NEW row,
         runs' = [runs EXCEPT ![k] = row], batch' = [batch EXCEPT ![h] = b],
         row # None => RowOK(row) /\ Independent(k, row),
         row # None => row.lease = None \/ row.lease.id = h,
         b # None => /\ BatchSound(b)
                     /\ b.run = k
                     /\ Lets(row, b, h) => BatchFits(row, b)
  PROVE  IInv'
<1>1. /\ DOMAIN runs' = Keys /\ DOMAIN batch' = Handlers
      /\ runs'[k] = row /\ batch'[h] = b
      /\ \A j \in Keys : j # k => runs'[j] = runs[j]
      /\ \A g \in Handlers : g # h => batch'[g] = batch[g]
  BY DEF IInv
<1>2. \A j \in Keys : Present(j)' => RowOK(runs'[j]) /\ Independent(j, runs'[j])
  BY <1>1 DEF IInv, Present
<1>3. \A g \in Handlers : BatchOK(g)'
  <2> SUFFICES ASSUME NEW g \in Handlers, batch'[g] # None
               PROVE  /\ BatchSound(batch'[g])
                      /\ Lets(runs'[batch'[g].run], batch'[g], g) =>
                           BatchFits(runs'[batch'[g].run], batch'[g])
    BY DEF BatchOK
  <2>1. CASE g = h
    BY <1>1, <2>1
  <2>2. CASE g # h
    <3>1. /\ batch'[g] = batch[g] /\ BatchSound(batch[g])
          /\ Lets(runs[batch[g].run], batch[g], g) =>
               BatchFits(runs[batch[g].run], batch[g])
      BY <1>1, <2>2 DEF IInv, BatchOK
    <3>2. batch[g].run \in Keys
      BY <3>1 DEF BatchSound, IsBatch
    <3>3. CASE batch[g].run = k
      <4>1. ~Lets(row, batch[g], g)
        BY <2>2 DEF Lets
      <4> QED BY <1>1, <3>1, <3>3, <4>1
    <3>4. CASE batch[g].run # k
      BY <1>1, <3>1, <3>2, <3>4
    <3> QED BY <3>3, <3>4
  <2> QED BY <2>1, <2>2
<1> QED BY <1>1, <1>2, <1>3 DEF IInv

\* What a handler that passes the fence finds: the row its batch was claimed
\* on, still running.
LEMMA FencedFinds ==
  ASSUME IInv, NEW h \in Handlers, batch[h] # None, Fenced(h)
  PROVE  LET b   == batch[h]
             row == runs[b.run]
         IN
         /\ b.run \in Keys /\ BatchSound(b) /\ Lets(row, b, h)
         /\ BatchFits(row, b) /\ RowOK(row) /\ Independent(b.run, row)
         /\ row.status \notin UpForReview
         /\ DOMAIN row.nodes = NodesFor(row.payload.workflow)
<1>1. BatchSound(batch[h]) /\ Lets(runs[batch[h].run], batch[h], h)
  BY DEF IInv, BatchOK, Fenced, Lets
<1>2. batch[h].run \in Keys
  BY <1>1 DEF BatchSound, IsBatch
<1>3. /\ BatchFits(runs[batch[h].run], batch[h])
      /\ RowOK(runs[batch[h].run])
      /\ Independent(batch[h].run, runs[batch[h].run])
  BY <1>1, <1>2 DEF IInv, BatchOK, Present, Fenced
<1>4. runs[batch[h].run].status \notin UpForReview
  BY <1>1, <1>3 DEF RowOK, RowReviewed, Lets
<1>5. DOMAIN runs[batch[h].run].nodes = NodesFor(runs[batch[h].run].payload.workflow)
  BY <1>3, RowParts DEF RowOK
<1> QED BY <1>1, <1>2, <1>3, <1>4, <1>5

LEMMA FinishNodeIInv ==
  ASSUME IInv, NEW h \in Handlers, NEW n, NEW fails \in BOOLEAN,
         NEW acked \in BOOLEAN, FinishNode(h, n, fails, acked)
  PROVE  IInv'
<1> DEFINE b == batch[h]
           old == runs[b.run]
           w == old.payload.workflow
           result == IF fails THEN None
                     ELSE RunNode(n, b.payload, b.code, b.completed)
           row == SavedRow(old, n, result)
           rest == [b EXCEPT !.todo = @ \ {n}, !.raised = @ \/ ~acked]
<1>1. /\ b # None /\ n \in b.todo /\ Fenced(h)
      /\ runs' = [runs EXCEPT ![b.run].nodes[n] = SavedNode(@, result)]
      /\ batch' = [batch EXCEPT ![h].todo = @ \ {n},
                                ![h].raised = @ \/ ~acked]
  BY DEF FinishNode
<1>2. /\ b.run \in Keys /\ BatchSound(b) /\ Lets(old, b, h)
      /\ BatchFits(old, b) /\ RowOK(old) /\ Independent(b.run, old)
      /\ old.status \notin UpForReview
      /\ DOMAIN old.nodes = NodesFor(w)
  BY <1>1, FencedFinds
<1>3. /\ runs' = [runs EXCEPT ![b.run] = row]
      /\ batch' = [batch EXCEPT ![h] = rest]
  BY <1>1, <1>2 DEF SavedRow, IInv
<1>4. /\ n \in NodesFor(w) /\ ~Succeeded(old, n)
      /\ b.payload = old.payload /\ b.code = old.code
      /\ b.payload \in Payloads
      /\ DOMAIN b.completed \subseteq NodesFor(w)
      /\ Depends(n, w) \subseteq DOMAIN b.completed
  BY <1>1, <1>2 DEF BatchSound, IsBatch, BatchFits
<1>5. result \in {None, CleanResult(n, old.payload, old.code)}
  BY <1>2, <1>4, RunNodeIsClean DEF BatchSound
<1>6. n = "verify" => \A t \in ToolsOf[w] : Succeeded(old, t)
  BY <1>2, <1>4 DEF BatchFits, Depends
<1> HIDE DEF result
<1>7. /\ RowOK(row)
      /\ row.payload = old.payload /\ row.code = old.code
      /\ row.approval = old.approval
      /\ row.lease = old.lease
      /\ \A m \in NodesFor(w) : m # n => row.nodes[m] = old.nodes[m]
  BY <1>2, <1>4, <1>5, <1>6, SavedRowOK
<1>8. row.nodes[n].status # "running"
  <2>1. old \in RowsOf(old.payload, old.code) /\ RowTyped(old)
    BY <1>2 DEF RowOK, RowTyped
  <2>2. old.nodes[n] \in NodeOf(old.payload, old.code)
    BY <1>4, <2>1, RowParts
  <2>3. row.nodes[n] = SavedNode(old.nodes[n], result)
    BY <1>2, <1>4, <2>1 DEF SavedRow, RowsOf
  <2> QED BY <2>2, <2>3 DEF SavedNode, NodeOf
<1> HIDE DEF row
<1>9. /\ DOMAIN b = {"run", "revision", "payload", "code", "todo", "raised",
                     "completed"}
      /\ b.raised \in BOOLEAN
  BY <1>2 DEF BatchSound, IsBatch
<1>10. /\ DOMAIN rest = DOMAIN b
       /\ rest.run = b.run /\ rest.revision = b.revision
       /\ rest.payload = b.payload /\ rest.code = b.code
       /\ rest.completed = b.completed
       /\ rest.todo = b.todo \ {n} /\ rest.raised = (b.raised \/ ~acked)
  BY <1>9
<1> HIDE DEF rest
<1>11. BatchSound(rest)
  <2>1. rest.todo \subseteq b.todo /\ rest.raised \in BOOLEAN
    BY <1>10
  <2>2. IsBatch(rest)
    BY <1>2, <1>10, <2>1 DEF BatchSound, IsBatch
  <2> QED BY <1>2, <1>10, <2>1, <2>2 DEF BatchSound
<1>12. BatchFits(row, rest)
  <2>1. \A m \in DOMAIN b.completed : m # n
    BY <1>2, <1>4 DEF BatchFits
  <2>2. \A m \in DOMAIN b.completed :
          Succeeded(row, m) /\ row.nodes[m].result = b.completed[m]
    BY <1>2, <1>4, <1>7, <2>1 DEF BatchFits, Succeeded
  <2>3. \A m \in rest.todo : m \in NodesFor(w) /\ m # n /\ ~Succeeded(old, m)
    BY <1>2, <1>4, <1>10 DEF BatchFits, BatchSound, IsBatch
  <2>4. \A m \in rest.todo : ~Succeeded(row, m)
    BY <1>7, <2>3 DEF Succeeded
  <2>5. \A m \in NodesFor(w) : row.nodes[m].status = "running" =>
          m \in rest.todo \/ rest.raised
    BY <1>2, <1>7, <1>8, <1>10 DEF BatchFits
  <2> QED BY <1>4, <1>7, <1>10, <2>2, <2>4, <2>5 DEF BatchFits
<1>13. Independent(b.run, row) /\ row.lease.id = h
  BY <1>2, <1>7 DEF Independent, Lets
<1> HIDE DEF b, old
<1> QED BY <1>2, <1>3, <1>7, <1>10, <1>11, <1>12, <1>13, HolderStep

LEMMA DropResultIInv ==
  ASSUME IInv, NEW h \in Handlers, NEW n, DropResult(h, n)
  PROVE  IInv'
<1> DEFINE b == batch[h]
           rest == [b EXCEPT !.todo = @ \ {n}, !.raised = TRUE]
<1>1. /\ b # None /\ runs' = runs
      /\ batch' = [batch EXCEPT ![h].todo = @ \ {n}, ![h].raised = TRUE]
  BY DEF DropResult
<1>2. batch' = [batch EXCEPT ![h] = rest]
  BY <1>1 DEF IInv
<1>3. /\ BatchSound(b)
      /\ Lets(runs[b.run], b, h) => BatchFits(runs[b.run], b)
  BY <1>1 DEF IInv, BatchOK
<1>4. DOMAIN b = {"run", "revision", "payload", "code", "todo", "raised",
                  "completed"}
  BY <1>3 DEF BatchSound, IsBatch
<1>5. /\ DOMAIN rest = DOMAIN b
      /\ rest.run = b.run /\ rest.revision = b.revision
      /\ rest.payload = b.payload /\ rest.code = b.code
      /\ rest.completed = b.completed
      /\ rest.todo \subseteq b.todo /\ rest.raised = TRUE
  BY <1>4
<1> HIDE DEF rest, b
<1>6. BatchSound(rest)
  <2>1. IsBatch(rest)
    BY <1>3, <1>5 DEF BatchSound, IsBatch
  <2> QED BY <1>3, <1>5, <2>1 DEF BatchSound
<1>7. Lets(runs[rest.run], rest, h) => BatchFits(runs[rest.run], rest)
  BY <1>3, <1>5 DEF Lets, BatchFits
<1> QED BY <1>1, <1>2, <1>6, <1>7, HandlerStep

LEMMA SettleIInv ==
  ASSUME IInv, NEW h \in Handlers, Settle(h)
  PROVE  IInv'
<1> DEFINE k == batch[h].run
           old == runs[k]
           row == SettledRow(old)
<1>1. /\ batch[h] # None /\ batch[h].todo = {} /\ ~batch[h].raised /\ Fenced(h)
      /\ runs' = [runs EXCEPT ![k] = row]
      /\ batch' = [batch EXCEPT ![h] = None]
  BY DEF Settle, IInv
<1>2. /\ k \in Keys /\ BatchFits(old, batch[h]) /\ RowOK(old)
      /\ Independent(k, old) /\ old.status \notin UpForReview
  BY <1>1, FencedFinds
<1>3. NoneRunning(old)
  BY <1>1, <1>2 DEF BatchFits, NoneRunning
<1>4. RowOK(row) /\ row.lease = None /\ row.approval = old.approval
  BY <1>2, <1>3, SettledRowOK
<1>5. Independent(k, row)
  BY <1>2, <1>4 DEF Independent
<1> HIDE DEF row, k
<1> QED BY <1>1, <1>2, <1>4, <1>5, HolderStep

\* Whatever a handler ends by, it holds nothing afterwards.
LEMMA EndIInv ==
  ASSUME IInv, NEW h \in Handlers, GiveUp(h) \/ Crash(h)
  PROVE  IInv'
BY HandlerStep DEF GiveUp, Crash

LEMMA TickIInv ==
  ASSUME IInv, Tick
  PROVE  IInv'
<1> DEFINE held(k) == Present(k) /\ LeaseHeld(runs[k])
<1>1. /\ batch' = batch
      /\ runs' = [k \in Keys |-> IF held(k) THEN TickedRow(runs[k]) ELSE runs[k]]
  BY DEF Tick, TickedRow
<1>2. DOMAIN runs' = Keys
  BY <1>1
<1>3. \A k \in Keys : held(k) =>
        /\ runs'[k] = TickedRow(runs[k])
        /\ RowOK(runs'[k])
        /\ runs'[k].payload = runs[k].payload /\ runs'[k].code = runs[k].code
        /\ runs'[k].revision = runs[k].revision /\ runs'[k].nodes = runs[k].nodes
        /\ runs'[k].approval = runs[k].approval
        /\ runs[k].lease # None
        /\ runs'[k].lease # None /\ runs'[k].lease.id = runs[k].lease.id
  BY <1>1, TickedRowOK DEF IInv, LeaseHeld
<1>4. \A k \in Keys : ~held(k) => runs'[k] = runs[k]
  BY <1>1
<1>5. \A k \in Keys : Follows(runs[k], runs'[k])
  <2> SUFFICES ASSUME NEW k \in Keys
               PROVE  Follows(runs[k], runs'[k])
    OBVIOUS
  <2>1. CASE held(k)
    BY <1>3, <2>1 DEF Follows, Succeeded, Present
  <2>2. CASE ~held(k)
    BY <1>4, <2>2 DEF Follows
  <2> QED BY <2>1, <2>2
<1>6. \A k \in Keys : Present(k)' => RowOK(runs'[k]) /\ Independent(k, runs'[k])
  <2> SUFFICES ASSUME NEW k \in Keys, runs'[k] # None
               PROVE  RowOK(runs'[k]) /\ Independent(k, runs'[k])
    BY DEF Present
  <2>1. CASE held(k)
    BY <1>3, <2>1 DEF IInv, Independent
  <2>2. CASE ~held(k)
    BY <1>4, <2>2 DEF IInv, Present
  <2> QED BY <2>1, <2>2
<1>7. \A h \in Handlers : BatchOK(h)'
  <2> SUFFICES ASSUME NEW h \in Handlers, batch[h] # None
               PROVE  /\ BatchSound(batch[h])
                      /\ Lets(runs'[batch[h].run], batch[h], h) =>
                           BatchFits(runs'[batch[h].run], batch[h])
    BY <1>1 DEF BatchOK
  <2>1. /\ BatchSound(batch[h]) /\ batch[h].run \in Keys
        /\ Lets(runs[batch[h].run], batch[h], h) =>
             BatchFits(runs[batch[h].run], batch[h])
    BY DEF IInv, BatchOK, BatchSound, IsBatch
  <2>2. runs[batch[h].run] # None =>
          DOMAIN runs[batch[h].run].nodes =
            NodesFor(runs[batch[h].run].payload.workflow)
    BY <2>1, RowParts DEF IInv, Present, RowOK
  <2> QED BY <1>5, <2>1, <2>2, FollowsFits
<1> HIDE DEF held
<1> QED BY <1>1, <1>2, <1>6, <1>7 DEF IInv

LEMMA NextIInv ==
  ASSUME IInv, [Next]_vars
  PROVE  IInv'
<1>1. CASE OwnerStep
  <2>1. PICK who \in Principals, c \in Codes :
          \/ \E r \in Requests, p \in Payloads : Create(who, r, p, c)
          \/ \E k \in Keys : \/ \E p \in Payloads : Edit(who, k, p, c)
                             \/ ClaimBlocks(who, k, c)
                             \/ ClaimSettles(who, k, c)
                             \/ ClaimStalls(who, k, c)
                             \/ \E h \in Handlers : ClaimBatch(h, who, k, c)
    BY <1>1 DEF OwnerStep
  <2> QED BY <2>1, CreateIInv, EditIInv, ClaimBlocksIInv, ClaimSettlesIInv,
             ClaimStallsIInv, ClaimBatchIInv
<1>2. CASE DeleteStep
  BY <1>2, DeleteIInv DEF DeleteStep
<1>3. CASE ReviewStep
  BY <1>3, ReviewIInv DEF ReviewStep
<1>4. CASE BatchStep
  BY <1>4, FinishNodeIInv, DropResultIInv, SettleIInv, EndIInv DEF BatchStep
<1>5. CASE Tick
  BY <1>5, TickIInv
<1>6. CASE UNCHANGED vars
  BY <1>6 DEF vars, IInv, Present, BatchOK
<1> QED BY <1>1, <1>2, <1>3, <1>4, <1>5, <1>6 DEF Next

\* Every reachable state satisfies the inductive invariant.
THEOREM Invariance == Spec => []IInv
<1>1. Init => IInv
  BY InitIInv
<1>2. IInv /\ [Next]_vars => IInv'
  BY NextIInv
<1> QED BY <1>1, <1>2, PTL DEF Spec
-----------------------------------------------------------------------------
(* The invariants the runs check.                                          *)

\* Rows and batches hold what the code writes in them; no node is ever run
\* more often than MAX_ATTEMPTS.
THEOREM TypeCorrect == Spec => []TypeOK
<1>1. IInv => TypeOK
  BY DEF IInv, TypeOK, RowOK, RowTyped, BatchOK, BatchSound
<1> QED BY <1>1, Invariance, PTL

\* Saved checkpoints are the results of the current input and code.
THEOREM SoundCheckpoints == Spec => []CheckpointsSound
<1>1. IInv => CheckpointsSound
  <2> SUFFICES ASSUME IInv, NEW k \in Keys, Present(k),
                      NEW n \in DOMAIN runs[k].nodes
               PROVE  runs[k].nodes[n].result =
                        IF Succeeded(runs[k], n)
                        THEN CleanResult(n, runs[k].payload, runs[k].code)
                        ELSE None
    BY DEF CheckpointsSound
  <2>1. RowTyped(runs[k]) /\ RowSound(runs[k])
    BY DEF IInv, RowOK
  <2>2. n \in NodesFor(runs[k].payload.workflow)
    BY <2>1, RowParts
  <2> QED BY <2>1, <2>2 DEF RowSound
<1> QED BY <1>1, Invariance, PTL

\* No node is left marked running without a lease that will expire, and no
\* lease is held on a run at rest.
THEOREM LeasedWhileRunning == Spec => []RunningIsLeased
<1>1. IInv => RunningIsLeased
  <2> SUFFICES ASSUME IInv, NEW k \in Keys, Present(k)
               PROVE  /\ (\E n \in DOMAIN runs[k].nodes :
                            runs[k].nodes[n].status = "running")
                           => runs[k].status = "running"
                      /\ runs[k].status = "running" => runs[k].lease # None
                      /\ LeaseHeld(runs[k]) => runs[k].status = "running"
    BY DEF RunningIsLeased
  <2>1. RowTyped(runs[k]) /\ RowLeased(runs[k])
    BY DEF IInv, RowOK
  <2>2. DOMAIN runs[k].nodes = NodesFor(runs[k].payload.workflow)
    BY <2>1, RowParts
  <2> QED BY <2>1, <2>2 DEF RowLeased, NoneRunning
<1> QED BY <1>1, Invariance, PTL

\* What is up for review, or decided, is complete and passed the checks.
THEOREM CompleteWhenReviewable == Spec => []ReviewableIsComplete
<1>1. IInv => ReviewableIsComplete
  <2> SUFFICES ASSUME IInv, NEW k \in Keys, Present(k),
                      runs[k].status \in UpForReview
               PROVE  /\ AllSucceeded(runs[k])
                      /\ runs[k].lease = None
                      /\ runs[k].quality = runs[k].nodes["verify"].result
                      /\ CanReview(runs[k].quality)
    BY DEF ReviewableIsComplete, UpForReview, Decided
  <2>1. RowTyped(runs[k]) /\ RowReviewed(runs[k])
    BY DEF IInv, RowOK
  <2>2. DOMAIN runs[k].nodes = NodesFor(runs[k].payload.workflow)
    BY <2>1, RowParts
  <2> QED BY <2>1, <2>2 DEF RowReviewed, AllSucceeded
<1> QED BY <1>1, Invariance, PTL

\* What can be exported was approved by somebody else, at this revision, and
\* is the report of an input that passes the hard checks.
THEOREM ReviewedExports == Spec => []ExportIsReviewed
<1>1. IInv => ExportIsReviewed
  <2> SUFFICES ASSUME IInv, NEW k \in Keys, NEW c \in Codes, Exportable(k, c)
               PROVE
         /\ runs[k].approval.decision = "approve"
         /\ runs[k].approval.reviewer # k.author
         /\ runs[k].approval.revision = runs[k].revision
         /\ runs[k].nodes["report"].result = CleanResult("report", runs[k].payload, c)
         /\ PassesChecks(runs[k].payload)
    BY DEF ExportIsReviewed, PassesChecks
  <2>1. /\ Present(k) /\ runs[k].code = c /\ runs[k].status = "approved"
        /\ runs[k].approval # None
    BY DEF Exportable
  <2>2. /\ RowTyped(runs[k]) /\ RowSound(runs[k]) /\ RowReviewed(runs[k])
        /\ Independent(k, runs[k])
    BY <2>1 DEF IInv, RowOK
  <2>3. /\ \A n \in NodesFor(runs[k].payload.workflow) : Succeeded(runs[k], n)
        /\ CanReview(runs[k].nodes["verify"].result)
        /\ runs[k].approval.decision = "approve"
        /\ runs[k].approval.revision = runs[k].revision
    BY <2>1, <2>2 DEF RowReviewed, UpForReview, Decided
  <2>4. "report" \in NodesFor(runs[k].payload.workflow) /\ Verified(runs[k])
    BY <2>3 DEF NodesFor, Verified
  <2>5. PassesChecks(runs[k].payload)
    BY <2>2, <2>3, <2>4, HardFailureMeans
  <2> QED BY <2>1, <2>2, <2>3, <2>4, <2>5 DEF RowSound, Independent
<1> QED BY <1>1, Invariance, PTL

\* Whoever passes the fence computes from what the row holds.
THEOREM CurrentBatches == Spec => []FencedBatchIsCurrent
<1>1. IInv => FencedBatchIsCurrent
  BY FencedFinds DEF FencedBatchIsCurrent, BatchFits
<1> QED BY <1>1, Invariance, PTL
-----------------------------------------------------------------------------
(* The ways a row can change.                                              *)

\* A row that only grows older: nothing but what is left of its lease.
Aged(old, row) ==
  /\ old # None /\ row # None
  /\ row.payload = old.payload /\ row.code = old.code
  /\ row.revision = old.revision /\ row.nodes = old.nodes
  /\ row.status = old.status /\ row.approval = old.approval
  /\ row.quality = old.quality
  /\ old.lease # None /\ row.lease # None /\ row.lease.id = old.lease.id

Submitted(old, row) ==
  old = None /\ \E p \in Payloads, c \in Codes : row = NewRow(p, c)

Revised(old, row) ==
  /\ old # None /\ row # None
  /\ row.payload \in Payloads /\ row.code \in Codes
  /\ row.payload.workflow = old.payload.workflow
  /\ row.revision = old.revision + 1
  /\ row.status = "pending" /\ row.approval = None /\ row.quality = None
  /\ row.lease = None

\* A claim, a saved result or a settlement.
Worked(old, row) ==
  /\ old # None /\ row # None
  /\ old.status \notin UpForReview /\ row.status \notin Decided
  /\ row.payload = old.payload /\ row.code = old.code
  /\ row.revision = old.revision /\ row.approval = old.approval
  /\ \A n \in NodesFor(old.payload.workflow) :
       Succeeded(old, n) => row.nodes[n] = old.nodes[n]
  /\ LeaseHeld(old) => row.lease = None \/ row.lease.id = old.lease.id

Judged(k, old, row) ==
  /\ old # None /\ old.status = "needs_review"
  /\ \E who \in Principals, d \in {"approve", "reject"} :
       k.author # who.username /\ row = DecidedRow(old, who, d)

Withdrawn(old, row) == old # None /\ ~LeaseHeld(old) /\ row = None

Changed(k, old, row) ==
  \/ Submitted(old, row)
  \/ Revised(old, row)
  \/ Worked(old, row)
  \/ Judged(k, old, row)
  \/ Withdrawn(old, row)

StepShape ==
  /\ DOMAIN runs' = Keys
  /\ \/ \A k \in Keys : runs'[k] = runs[k] \/ Aged(runs[k], runs'[k])
     \/ \E k \in Keys : /\ \A j \in Keys : j # k => runs'[j] = runs[j]
                        /\ Changed(k, runs[k], runs'[k])

LEMMA OneRow ==
  ASSUME IInv, NEW k \in Keys, NEW row, runs' = [runs EXCEPT ![k] = row],
         Changed(k, runs[k], row)
  PROVE  StepShape
BY DEF IInv, StepShape

LEMMA NoRow ==
  ASSUME IInv, runs' = runs
  PROVE  StepShape
BY DEF IInv, StepShape

\* A row as the claim leaves it, whichever way the claim goes.
LEMMA ClaimWorks ==
  ASSUME IInv, NEW who \in Principals, NEW k \in Keys, NEW c \in Codes,
         Claimable(who, k, c),
         NEW row, row # None, row.status \notin Decided,
         row.payload = Resumed(runs[k]).payload,
         row.code = Resumed(runs[k]).code,
         row.revision = Resumed(runs[k]).revision,
         row.approval = Resumed(runs[k]).approval,
         \A n \in NodesFor(Resumed(runs[k]).payload.workflow) :
           Succeeded(Resumed(runs[k]), n) =>
             row.nodes[n] = Resumed(runs[k]).nodes[n]
  PROVE  Worked(runs[k], row)
<1>1. /\ Present(k) /\ RowOK(runs[k]) /\ runs[k].status \notin UpForReview
      /\ ~LeaseHeld(runs[k])
  BY ClaimFinds
<1>2. /\ Resumed(runs[k]).payload = runs[k].payload
      /\ Resumed(runs[k]).code = runs[k].code
      /\ Resumed(runs[k]).revision = runs[k].revision
      /\ Resumed(runs[k]).approval = runs[k].approval
      /\ \A n \in NodesFor(runs[k].payload.workflow) :
           /\ Succeeded(Resumed(runs[k]), n) <=> Succeeded(runs[k], n)
           /\ Succeeded(runs[k], n) => Resumed(runs[k]).nodes[n] = runs[k].nodes[n]
  BY <1>1, ResumedRowOK
<1> QED BY <1>1, <1>2 DEF Worked, Present

\* No row in order is None.
LEMMA RowsAreSome ==
  ASSUME NEW row, RowTyped(row)
  PROVE  row # None
BY NoneAssumption DEF RowTyped

\* A claim that starts no batch leaves the row at rest.
LEMMA ClaimRests ==
  ASSUME IInv, NEW who \in Principals, NEW k \in Keys, NEW c \in Codes,
         Claimable(who, k, c),
         NEW s \in {"blocked", "needs_review", "attention"}, NEW row,
         \/ row = [Resumed(runs[k]) EXCEPT !.status = s]
         \/ row = [Resumed(runs[k]) EXCEPT !.status = s, !.lease = None]
  PROVE  Worked(runs[k], row)
<1> DEFINE old == Resumed(runs[k])
<1>1. RowTyped(old)
  BY ClaimFinds DEF RowOK
<1>2. old \in RowsOf(old.payload, old.code)
  BY <1>1 DEF RowTyped
<1> HIDE DEF old
<1>3. row = [old EXCEPT !.status = s] \/ row = [old EXCEPT !.status = s, !.lease = None]
  BY DEF old
<1>4. /\ row.payload = old.payload /\ row.code = old.code
      /\ row.revision = old.revision /\ row.approval = old.approval
      /\ row.nodes = old.nodes /\ row.status = s
  BY <1>2, <1>3 DEF RowsOf
<1>5. row \in RowsOf(old.payload, old.code)
  BY <1>2, <1>3, Zenon DEF RowsOf, Statuses
<1>6. row # None
  BY <1>1, <1>5, RowParts, NoneAssumption
<1> QED BY <1>4, <1>6, ClaimWorks DEF Decided, old

LEMMA ClaimShape ==
  ASSUME IInv, NEW who \in Principals, NEW k \in Keys, NEW c \in Codes,
         \/ ClaimBlocks(who, k, c)
         \/ ClaimSettles(who, k, c)
         \/ ClaimStalls(who, k, c)
         \/ \E h \in Handlers : ClaimBatch(h, who, k, c)
  PROVE  StepShape
<1> DEFINE old == Resumed(runs[k])
<1>1. Claimable(who, k, c)
  BY DEF ClaimBlocks, ClaimSettles, ClaimStalls, ClaimBatch
<1>2. CASE ClaimBlocks(who, k, c)
  <2> DEFINE row == [old EXCEPT !.status = "blocked", !.lease = None]
  <2>1. runs' = [runs EXCEPT ![k] = row]
    BY <1>2 DEF ClaimBlocks
  <2>2. Worked(runs[k], row)
    BY <1>1, ClaimRests
  <2> HIDE DEF row
  <2> QED BY <2>1, <2>2, OneRow DEF Changed
<1>3. CASE ClaimSettles(who, k, c)
  <2> DEFINE row == [old EXCEPT !.status = "needs_review", !.lease = None]
  <2>1. runs' = [runs EXCEPT ![k] = row]
    BY <1>3 DEF ClaimSettles
  <2>2. Worked(runs[k], row)
    BY <1>1, ClaimRests
  <2> HIDE DEF row
  <2> QED BY <2>1, <2>2, OneRow DEF Changed
<1>4. CASE ClaimStalls(who, k, c)
  <2> DEFINE row == [old EXCEPT !.status = "attention"]
  <2>1. runs' = [runs EXCEPT ![k] = row]
    BY <1>4 DEF ClaimStalls
  <2>2. Worked(runs[k], row)
    BY <1>1, ClaimRests
  <2> HIDE DEF row
  <2> QED BY <2>1, <2>2, OneRow DEF Changed
<1>5. CASE \E h \in Handlers : ClaimBatch(h, who, k, c)
  <2>1. PICK h \in Handlers : ClaimBatch(h, who, k, c)
    BY <1>5
  <2> DEFINE row == Started(old, Candidates(old), h)
  <2>2. runs' = [runs EXCEPT ![k] = row]
    BY <2>1 DEF ClaimBatch
  <2>3. RowOK(old) /\ NoneRunning(old) /\ old.status \notin UpForReview
    BY <1>1, ClaimFinds
  <2> HIDE DEF old
  <2>4. /\ RowOK(row)
        /\ row.payload = old.payload /\ row.code = old.code
        /\ row.revision = old.revision /\ row.approval = old.approval
        /\ row.status = "running"
        /\ \A n \in NodesFor(old.payload.workflow) :
             Succeeded(old, n) => row.nodes[n] = old.nodes[n]
    BY <2>3, StartedRowOK
  <2> HIDE DEF row
  <2>5. row # None
    BY <2>4, RowsAreSome DEF RowOK
  <2>6. Worked(runs[k], row)
    BY <1>1, <2>4, <2>5, ClaimWorks DEF Decided, old
  <2> QED BY <2>2, <2>6, OneRow DEF Changed
<1> QED BY <1>2, <1>3, <1>4, <1>5

LEMMA EditShape ==
  ASSUME IInv, NEW who \in Principals, NEW k \in Keys,
         NEW p \in Payloads, NEW c \in Codes, Edit(who, k, p, c)
  PROVE  StepShape
<1> DEFINE row == EditedRow(runs[k], p, c)
<1>1. /\ Present(k) /\ p.workflow = runs[k].payload.workflow
      /\ runs[k].revision < MaxRevision
      /\ runs' = [runs EXCEPT ![k] = row]
  BY DEF Edit, Owns
<1>2. RowOK(runs[k])
  BY <1>1 DEF IInv
<1>3. runs[k] \in RowsOf(runs[k].payload, runs[k].code)
  BY <1>2 DEF RowOK, RowTyped
<1>4. /\ row.payload = p /\ row.code = c /\ row.status = "pending"
      /\ row.lease = None /\ row.approval = None /\ row.quality = None
      /\ row.revision = runs[k].revision + 1
  BY <1>3 DEF EditedRow, RowsOf
<1>5. row # None
  BY <1>1, <1>2, EditedRowOK, RowsAreSome DEF RowOK
<1> HIDE DEF row
<1>6. Revised(runs[k], row)
  BY <1>1, <1>4, <1>5 DEF Revised, Present
<1> QED BY <1>1, <1>6, OneRow DEF Changed

LEMMA FinishNodeShape ==
  ASSUME IInv, NEW h \in Handlers, NEW n, NEW fails \in BOOLEAN,
         NEW acked \in BOOLEAN, FinishNode(h, n, fails, acked)
  PROVE  StepShape
<1> DEFINE b == batch[h]
           old == runs[b.run]
           w == old.payload.workflow
           result == IF fails THEN None
                     ELSE RunNode(n, b.payload, b.code, b.completed)
           row == SavedRow(old, n, result)
<1>1. /\ b # None /\ n \in b.todo /\ Fenced(h)
      /\ runs' = [runs EXCEPT ![b.run].nodes[n] = SavedNode(@, result)]
  BY DEF FinishNode
<1>2. /\ b.run \in Keys /\ BatchSound(b) /\ BatchFits(old, b) /\ RowOK(old)
      /\ old.status \notin UpForReview
      /\ old # None
  BY <1>1, FencedFinds DEF Lets
<1>3. runs' = [runs EXCEPT ![b.run] = row]
  BY <1>1, <1>2 DEF SavedRow, IInv
<1>4. /\ n \in NodesFor(w) /\ ~Succeeded(old, n)
      /\ b.payload = old.payload /\ b.code = old.code
      /\ b.payload \in Payloads
      /\ DOMAIN b.completed \subseteq NodesFor(w)
      /\ Depends(n, w) \subseteq DOMAIN b.completed
  BY <1>1, <1>2 DEF BatchSound, IsBatch, BatchFits
<1>5. result \in {None, CleanResult(n, old.payload, old.code)}
  BY <1>2, <1>4, RunNodeIsClean DEF BatchSound
<1>6. n = "verify" => \A t \in ToolsOf[w] : Succeeded(old, t)
  BY <1>2, <1>4 DEF BatchFits, Depends
<1> HIDE DEF result
<1>7. /\ RowOK(row)
      /\ row.payload = old.payload /\ row.code = old.code
      /\ row.revision = old.revision /\ row.approval = old.approval
      /\ row.status = old.status /\ row.lease = old.lease
      /\ \A m \in NodesFor(w) : m # n => row.nodes[m] = old.nodes[m]
  BY <1>2, <1>4, <1>5, <1>6, SavedRowOK
<1> HIDE DEF row
<1>8. row # None
  BY <1>7, RowsAreSome DEF RowOK
<1> HIDE DEF old
<1>9. Worked(old, row)
  BY <1>2, <1>4, <1>7, <1>8 DEF Worked, UpForReview
<1> QED BY <1>2, <1>3, <1>9, OneRow DEF Changed, old

LEMMA SettleShape ==
  ASSUME IInv, NEW h \in Handlers, Settle(h)
  PROVE  StepShape
<1> DEFINE k == batch[h].run
           old == runs[k]
           row == SettledRow(old)
<1>1. /\ batch[h] # None /\ batch[h].todo = {} /\ ~batch[h].raised /\ Fenced(h)
      /\ runs' = [runs EXCEPT ![k] = row]
  BY DEF Settle, IInv
<1>2. /\ k \in Keys /\ BatchFits(old, batch[h]) /\ RowOK(old)
      /\ old.status \notin UpForReview /\ old # None
  BY <1>1, FencedFinds DEF Lets
<1>3. NoneRunning(old)
  BY <1>1, <1>2 DEF BatchFits, NoneRunning
<1>4. /\ RowOK(row) /\ row.lease = None /\ row.approval = old.approval
      /\ row.payload = old.payload /\ row.code = old.code
      /\ row.revision = old.revision /\ row.nodes = old.nodes
      /\ row.status \notin Decided
  BY <1>2, <1>3, SettledRowOK DEF Decided
<1> HIDE DEF row
<1>5. row # None
  BY <1>4, RowsAreSome DEF RowOK
<1>6. Worked(old, row)
  BY <1>2, <1>4, <1>5 DEF Worked
<1> QED BY <1>1, <1>2, <1>6, OneRow DEF Changed

LEMMA TickShape ==
  ASSUME IInv, Tick
  PROVE  StepShape
<1>1. runs' = [k \in Keys |-> IF Present(k) /\ LeaseHeld(runs[k])
                              THEN TickedRow(runs[k]) ELSE runs[k]]
  BY DEF Tick, TickedRow
<1>2. \A k \in Keys : runs'[k] = runs[k] \/ Aged(runs[k], runs'[k])
  <2> SUFFICES ASSUME NEW k \in Keys, Present(k), LeaseHeld(runs[k])
               PROVE  Aged(runs[k], runs'[k])
    BY <1>1
  <2>1. RowOK(runs[k]) /\ runs'[k] = TickedRow(runs[k])
    BY <1>1 DEF IInv
  <2>2. runs'[k] # None
    BY <2>1, TickedRowOK, RowsAreSome DEF RowOK
  <2> QED BY <2>1, <2>2, TickedRowOK DEF Aged, Present, LeaseHeld
<1> QED BY <1>1, <1>2 DEF StepShape

\* Every step changes at most one row, in one of the ways above, or lets all
\* of them grow older.
LEMMA NextShape ==
  ASSUME IInv, [Next]_vars
  PROVE  StepShape
<1>1. ASSUME NEW who \in Principals, NEW c \in Codes, NEW r \in Requests,
             NEW p \in Payloads, Create(who, r, p, c)
      PROVE  StepShape
  <2>1. Submitted(runs[KeyOf(who, r)], NewRow(p, c))
    BY <1>1 DEF Create, Present, Submitted
  <2>2. runs' = [runs EXCEPT ![KeyOf(who, r)] = NewRow(p, c)]
    BY <1>1 DEF Create
  <2> QED BY <2>1, <2>2, KeyOfInKeys, OneRow DEF Changed
<1>2. ASSUME NEW who \in Principals, NEW k \in Keys, Delete(who, k)
      PROVE  StepShape
  <2>1. Present(k) /\ RowLeased(runs[k]) /\ ~LeaseHeld(runs[k])
    BY <1>2 DEF Delete, Owns, IInv, RowOK, RowLeased
  <2>2. Withdrawn(runs[k], None) /\ runs' = [runs EXCEPT ![k] = None]
    BY <1>2, <2>1 DEF Withdrawn, Present, Delete
  <2> QED BY <2>2, OneRow DEF Changed
<1>3. ASSUME NEW who \in Principals, NEW k \in Keys, NEW c \in Codes,
             NEW d \in {"approve", "reject"}, Review(who, k, d, c)
      PROVE  StepShape
  <2>1. /\ Present(k) /\ runs[k].status = "needs_review"
        /\ k.author # who.username
        /\ runs' = [runs EXCEPT ![k] = DecidedRow(runs[k], who, d)]
    BY <1>3 DEF Review, MayRead, Owns, IInv, DecidedRow
  <2>2. Judged(k, runs[k], DecidedRow(runs[k], who, d))
    BY <2>1 DEF Judged, Present
  <2> QED BY <2>1, <2>2, OneRow DEF Changed
<1>4. CASE OwnerStep
  <2>1. PICK who \in Principals, c \in Codes :
          \/ \E r \in Requests, p \in Payloads : Create(who, r, p, c)
          \/ \E k \in Keys : \/ \E p \in Payloads : Edit(who, k, p, c)
                             \/ ClaimBlocks(who, k, c)
                             \/ ClaimSettles(who, k, c)
                             \/ ClaimStalls(who, k, c)
                             \/ \E h \in Handlers : ClaimBatch(h, who, k, c)
    BY <1>4 DEF OwnerStep
  <2> QED BY <1>1, <2>1, EditShape, ClaimShape
<1>5. CASE DeleteStep
  BY <1>2, <1>5 DEF DeleteStep
<1>6. CASE ReviewStep
  BY <1>3, <1>6 DEF ReviewStep
<1>7. CASE BatchStep
  BY <1>7, FinishNodeShape, SettleShape, NoRow
     DEF BatchStep, DropResult, GiveUp, Crash
<1>8. CASE Tick
  BY <1>8, TickShape
<1>9. CASE UNCHANGED vars
  BY <1>9, NoRow DEF vars
<1> QED BY <1>4, <1>5, <1>6, <1>7, <1>8, <1>9 DEF Next
-----------------------------------------------------------------------------
(* What a step may never do.                                               *)

\* What a step does to a row that is there before and after it.
LEMMA SurvivingRow ==
  ASSUME IInv, StepShape, NEW k \in Keys, Present(k), runs'[k] # None
  PROVE  \/ runs'[k] = runs[k] \/ Aged(runs[k], runs'[k])
         \/ Revised(runs[k], runs'[k]) \/ Worked(runs[k], runs'[k])
         \/ Judged(k, runs[k], runs'[k])
BY DEF StepShape, Changed, Submitted, Withdrawn, Present

\* A verdict changes the status and the verdict of a row, nothing else.
LEMMA JudgedRow ==
  ASSUME IInv, NEW k \in Keys, Present(k), NEW row, Judged(k, runs[k], row)
  PROVE  /\ row.payload = runs[k].payload /\ row.code = runs[k].code
         /\ row.revision = runs[k].revision /\ row.nodes = runs[k].nodes
         /\ runs[k].approval = None
         /\ runs[k].lease = None
<1>1. RowOK(runs[k]) /\ RowReviewed(runs[k]) /\ runs[k].status = "needs_review"
  BY DEF IInv, RowOK, Judged
<1> QED BY <1>1, ReviewedRowOK DEF Judged, RowReviewed, UpForReview, Decided

\* Within a revision no saved checkpoint is lost, changed or run again.
THEOREM KeepsCheckpoints == Spec => CheckpointsKept
<1>1. ASSUME IInv, [Next]_vars
      PROVE  [\A k \in Keys :
                Stays(k) /\ runs'[k].revision = runs[k].revision =>
                  \A n \in DOMAIN runs[k].nodes :
                    Succeeded(runs[k], n) => runs'[k].nodes[n] = runs[k].nodes[n]]_vars
  <2> SUFFICES ASSUME NEW k \in Keys, Present(k), runs'[k] # None,
                      runs'[k].revision = runs[k].revision,
                      NEW n \in DOMAIN runs[k].nodes, Succeeded(runs[k], n)
               PROVE  runs'[k].nodes[n] = runs[k].nodes[n]
    BY DEF Stays
  <2>1. RowTyped(runs[k])
    BY <1>1 DEF IInv, RowOK
  <2>2. DOMAIN runs[k].nodes = NodesFor(runs[k].payload.workflow)
        /\ runs[k].revision \in 1..MaxRevision
    BY <2>1, RowParts
  <2>3. ~Revised(runs[k], runs'[k])
    BY <2>2, NumbersAssumption DEF Revised
  <2>4. \/ runs'[k] = runs[k] \/ Aged(runs[k], runs'[k])
        \/ Worked(runs[k], runs'[k]) \/ Judged(k, runs[k], runs'[k])
    BY <1>1, <2>3, NextShape, SurvivingRow
  <2> QED BY <1>1, <2>2, <2>4, JudgedRow DEF Aged, Worked
<1> QED BY <1>1, Invariance, PTL DEF Spec, CheckpointsKept

\* A change of input or code makes a new revision without the verdict of the
\* old one, and only that takes a verdict away.
THEOREM VerdictsStand == Spec => VerdictsFollowInput
<1>1. ASSUME IInv, [Next]_vars
      PROVE  [\A k \in Keys : Stays(k) =>
                \/ /\ runs'[k].revision = runs[k].revision + 1
                   /\ runs'[k].approval = None
                   /\ runs'[k].quality = None
                \/ /\ runs'[k].revision = runs[k].revision
                   /\ runs'[k].payload = runs[k].payload
                   /\ runs'[k].code = runs[k].code
                   /\ runs[k].approval # None =>
                        /\ runs'[k].approval = runs[k].approval
                        /\ runs'[k].status = runs[k].status]_vars
  <2> SUFFICES ASSUME NEW k \in Keys, Present(k), runs'[k] # None
               PROVE
                \/ /\ runs'[k].revision = runs[k].revision + 1
                   /\ runs'[k].approval = None
                   /\ runs'[k].quality = None
                \/ /\ runs'[k].revision = runs[k].revision
                   /\ runs'[k].payload = runs[k].payload
                   /\ runs'[k].code = runs[k].code
                   /\ runs[k].approval # None =>
                        /\ runs'[k].approval = runs[k].approval
                        /\ runs'[k].status = runs[k].status
    BY DEF Stays
  <2>1. RowReviewed(runs[k])
    BY <1>1 DEF IInv, RowOK
  <2>2. \/ runs'[k] = runs[k] \/ Aged(runs[k], runs'[k])
        \/ Revised(runs[k], runs'[k]) \/ Worked(runs[k], runs'[k])
        \/ Judged(k, runs[k], runs'[k])
    BY <1>1, NextShape, SurvivingRow
  <2>3. CASE Worked(runs[k], runs'[k])
    BY <2>1, <2>3 DEF Worked, RowReviewed, UpForReview
  <2>4. CASE Judged(k, runs[k], runs'[k])
    BY <1>1, <2>4, JudgedRow
  <2> QED BY <2>2, <2>3, <2>4 DEF Aged, Revised
<1> QED BY <1>1, Invariance, PTL DEF Spec, VerdictsFollowInput

\* A run under a lease not yet expired is neither deleted nor claimed anew.
THEOREM BatchesAreExclusive == Spec => LiveBatchIsExclusive
<1>1. ASSUME IInv, [Next]_vars
      PROVE  [\A k \in Keys : Present(k) /\ LeaseHeld(runs[k]) =>
                /\ runs'[k] # None
                /\ runs'[k].lease = None \/ runs'[k].lease.id = runs[k].lease.id]_vars
  <2> SUFFICES ASSUME NEW k \in Keys, Present(k), LeaseHeld(runs[k])
               PROVE  /\ runs'[k] # None
                      /\ \/ runs'[k].lease = None
                         \/ runs'[k].lease.id = runs[k].lease.id
    OBVIOUS
  <2>1. StepShape
    BY <1>1, NextShape
  <2>2. \/ runs'[k] = runs[k] \/ Aged(runs[k], runs'[k])
        \/ Changed(k, runs[k], runs'[k])
    BY <2>1 DEF StepShape
  <2>3. runs[k] # None /\ runs[k].lease # None
    BY DEF Present, LeaseHeld
  <2>4. ~Submitted(runs[k], runs'[k]) /\ ~Withdrawn(runs[k], runs'[k])
    BY <2>3 DEF Submitted, Withdrawn
  <2>5. ~Judged(k, runs[k], runs'[k])
    BY <1>1, <2>3, JudgedRow
  <2>6. CASE runs'[k] = runs[k] \/ Aged(runs[k], runs'[k])
    BY <2>3, <2>6 DEF Aged
  <2>7. CASE Revised(runs[k], runs'[k])
    BY <2>7 DEF Revised
  <2>8. CASE Worked(runs[k], runs'[k])
    BY <2>8 DEF Worked
  <2> QED BY <2>2, <2>4, <2>5, <2>6, <2>7, <2>8 DEF Changed
<1> QED BY <1>1, Invariance, PTL DEF Spec, LiveBatchIsExclusive
-----------------------------------------------------------------------------
(* Workflow implements ReviewedTask.                                       *)

TaskAt(row) == IF row = None THEN None ELSE TaskOf(row)

\* The report a task shows, and that a task is not None.
LEMMA TaskParts ==
  ASSUME NEW row, RowOK(row)
  PROVE  /\ row # None /\ TaskOf(row) # None
         /\ row.status \in UpForReview =>
              /\ row.nodes["report"].result =
                   CleanResult("report", row.payload, row.code)
              /\ PassesChecks(row.payload)
<1>1. RowTyped(row) /\ RowSound(row) /\ RowReviewed(row)
  BY DEF RowOK
<1>2. row # None
  BY <1>1, RowsAreSome
<1>3. row.status \in UpForReview =>
        /\ row.nodes["report"].result =
             CleanResult("report", row.payload, row.code)
        /\ PassesChecks(row.payload)
  <2> SUFFICES ASSUME row.status \in UpForReview
               PROVE  /\ row.nodes["report"].result =
                           CleanResult("report", row.payload, row.code)
                      /\ PassesChecks(row.payload)
    OBVIOUS
  <2>1. /\ Succeeded(row, "report") /\ Verified(row)
        /\ CanReview(row.nodes["verify"].result)
    BY <1>1 DEF RowReviewed, NodesFor, Verified
  <2>2. PassesChecks(row.payload)
    BY <1>1, <2>1, HardFailureMeans
  <2> QED BY <1>1, <2>1, <2>2 DEF RowSound, NodesFor
<1>4. /\ row.payload \in Payloads /\ row.code \in Codes
      /\ row.revision \in 1..MaxRevision /\ row.status \in Statuses
      /\ row.approval \in Approvals(row.payload, row.code) \cup {None}
  BY <1>1, RowParts
<1>5. Stage(row) \in {"draft", "presented", "approved", "rejected"}
      /\ (Stage(row) # "draft" => row.status \in UpForReview)
  BY DEF Stage, UpForReview, Decided
<1>6. (IF Stage(row) = "draft" THEN None ELSE row.nodes["report"].result)
        \in {CleanResult("report", row.payload, row.code), None}
  BY <1>3, <1>5
<1>7. (IF row.approval = None THEN None ELSE row.approval.reviewer)
        \in {who.username : who \in Principals} \cup {None}
  BY <1>4 DEF Approvals
<1>8. TaskOf(row) \in
        [payload : {row.payload}, code : {row.code}, revision : 1..MaxRevision,
         stage : {"draft", "presented", "approved", "rejected"},
         report : {CleanResult("report", row.payload, row.code), None},
         reviewer : {who.username : who \in Principals} \cup {None}]
  BY <1>4, <1>5, <1>6, <1>7 DEF TaskOf
<1> QED BY <1>2, <1>3, <1>4, <1>8, TaskAssumption

LEMMA TasksOfRows ==
  ASSUME IInv
  PROVE  \A k \in Keys : Tasks[k] = TaskAt(runs[k])
BY DEF Tasks, TaskAt

\* A task moves with the only row that changed.
LEMMA TaskMoves ==
  ASSUME DOMAIN runs' = Keys, NEW k \in Keys,
         \A j \in Keys : j # k => runs'[j] = runs[j]
  PROVE  Tasks' = [Tasks EXCEPT ![k] = TaskAt(runs'[k])]
<1>1. Tasks = [j \in Keys |-> TaskAt(runs[j])]
  BY DEF Tasks, TaskAt
<1>2. Tasks' = [j \in Keys |-> TaskAt(runs'[j])]
  BY DEF Tasks, TaskAt
<1> QED BY <1>1, <1>2

\* Nothing a user can see changes when leases grow older.
LEMMA AgedTask ==
  ASSUME NEW old, NEW row, Aged(old, row)
  PROVE  TaskAt(row) = TaskAt(old)
BY DEF Aged, TaskAt, TaskOf, Stage

\* A row short of review, or up for it, carries no verdict.
LEMMA NoVerdictYet ==
  ASSUME NEW row, RowOK(row), row.status \notin Decided
  PROVE  row.approval = None
BY DEF RowOK, RowReviewed

\* Each change of a row is a step of its task.
LEMMA ChangedTask ==
  ASSUME IInv, IInv', NEW k \in Keys, DOMAIN runs' = Keys,
         \A j \in Keys : j # k => runs'[j] = runs[j],
         Changed(k, runs[k], runs'[k])
  PROVE  Promise!Next \/ Tasks' = Tasks
<1> DEFINE old == runs[k]
           row == runs'[k]
<1>1. Tasks' = [Tasks EXCEPT ![k] = TaskAt(row)]
  BY TaskMoves
<1>2. Tasks[k] = TaskAt(old)
  BY TasksOfRows
<1>3. old # None => RowOK(old) /\ TaskOf(old) # None
  BY TaskParts DEF IInv, Present
<1>4. row # None => RowOK(row) /\ TaskOf(row) # None
  BY TaskParts DEF IInv, Present
<1>5. CASE Submitted(old, row)
  <2>1. PICK p \in Payloads, c \in Codes : row = NewRow(p, c)
    BY <1>5 DEF Submitted
  <2>2. row # None
    BY <2>1, NewRowOK, TaskParts
  <2>3. TaskAt(row) = Promise!Draft(p, c, 1)
    BY <2>1, <2>2 DEF TaskAt, TaskOf, Stage, NewRow, Promise!Draft
  <2>4. Promise!Submit(k)
    BY <1>1, <1>2, <1>5, <2>3 DEF Submitted, TaskAt, Promise!Submit
  <2> QED BY <2>4 DEF Promise!Next
<1>6. CASE Revised(old, row)
  <2>1. /\ old # None /\ row # None
        /\ row.payload \in Payloads /\ row.code \in Codes
        /\ row.payload.workflow = old.payload.workflow
        /\ row.revision = old.revision + 1
        /\ row.status = "pending" /\ row.approval = None
    BY <1>6 DEF Revised
  <2>2. TaskAt(row) = Promise!Draft(row.payload, row.code, row.revision)
    BY <2>1 DEF TaskAt, TaskOf, Stage, Promise!Draft
  <2>3. /\ Tasks[k] # None /\ Tasks[k].payload = old.payload
        /\ Tasks[k].revision = old.revision
    BY <1>2, <1>3, <2>1 DEF TaskAt, TaskOf
  <2> HIDE DEF old, row
  <2>4. Promise!Revise(k)
    BY <1>1, <2>1, <2>2, <2>3 DEF Promise!Revise, WorkflowOf
  <2> QED BY <2>4 DEF Promise!Next
<1>7. CASE Worked(old, row)
  <2>1. /\ old # None /\ row # None
        /\ old.status \notin UpForReview /\ row.status \notin Decided
        /\ row.payload = old.payload /\ row.code = old.code
        /\ row.revision = old.revision /\ row.approval = old.approval
    BY <1>7 DEF Worked
  <2>2. TaskAt(old) =
          [payload |-> old.payload, code |-> old.code,
           revision |-> old.revision, stage |-> "draft", report |-> None,
           reviewer |-> IF old.approval = None THEN None
                        ELSE old.approval.reviewer]
    BY <2>1 DEF TaskAt, TaskOf, Stage, UpForReview, Decided
  <2>3. CASE row.status = "needs_review"
    <3>1. /\ row.nodes["report"].result = CleanReport(old.payload, old.code)
          /\ PassesChecks(old.payload)
      BY <1>4, <2>1, <2>3, TaskParts DEF UpForReview, CleanReport
    <3>2. TaskAt(row) =
            [payload |-> old.payload, code |-> old.code,
             revision |-> old.revision, stage |-> "presented",
             report |-> CleanReport(old.payload, old.code),
             reviewer |-> IF old.approval = None THEN None
                          ELSE old.approval.reviewer]
      BY <2>1, <2>3, <3>1 DEF TaskAt, TaskOf, Stage
    <3>3. Tasks[k] # None
      BY <1>2, <1>3, <2>1 DEF TaskAt
    <3> HIDE DEF old, row
    <3>4. TaskAt(row) = [TaskAt(old) EXCEPT !.stage = "presented",
                                            !.report = CleanReport(old.payload, old.code)]
      <4> DEFINE t == TaskAt(old)
                 report == CleanReport(old.payload, old.code)
                 staged == [t EXCEPT !.stage = "presented"]
      <4>1. [t EXCEPT !.stage = "presented", !.report = report] =
              [staged EXCEPT !.report = report]
        BY Zenon
      <4>2. staged = [payload |-> old.payload, code |-> old.code,
                      revision |-> old.revision, stage |-> "presented",
                      report |-> None,
                      reviewer |-> IF old.approval = None THEN None
                                   ELSE old.approval.reviewer]
        BY <2>2
      <4> HIDE DEF staged
      <4>3. [staged EXCEPT !.report = report] = TaskAt(row)
        BY <3>2, <4>2
      <4> QED BY <4>1, <4>3
    <3>5. TaskAt(old).payload = old.payload /\ TaskAt(old).code = old.code
          /\ TaskAt(old).stage = "draft"
      BY <2>2
    <3>6. DOMAIN Tasks = Keys
      BY DEF Tasks
    <3>7. Tasks' = [Tasks EXCEPT ![k].stage = "presented",
                                 ![k].report = CleanReport(Tasks[k].payload, Tasks[k].code)]
      BY <1>1, <1>2, <3>4, <3>5, <3>6
    <3>8. Promise!Present(k)
      BY <1>2, <3>1, <3>3, <3>5, <3>7 DEF Promise!Present
    <3> QED BY <3>8 DEF Promise!Next
  <2>4. CASE row.status # "needs_review"
    <3>1. TaskAt(row) = TaskAt(old)
      BY <2>1, <2>2, <2>4 DEF TaskAt, TaskOf, Stage, Decided
    <3> QED BY <1>1, <1>2, <3>1 DEF Tasks
  <2> QED BY <2>3, <2>4
<1>8. CASE Judged(k, old, row)
  <2>1. PICK who \in Principals, d \in {"approve", "reject"} :
          k.author # who.username /\ row = DecidedRow(old, who, d)
    BY <1>8 DEF Judged
  <2>2. /\ old # None /\ old.status = "needs_review" /\ RowOK(old)
        /\ old.approval = None
    BY <1>3, <1>8, NoVerdictYet DEF Judged, Decided
  <2> DEFINE verdict == IF d = "approve" THEN "approved" ELSE "rejected"
  <2>3. /\ RowOK(row)
        /\ row.payload = old.payload /\ row.code = old.code
        /\ row.revision = old.revision /\ row.nodes = old.nodes
        /\ row.status = verdict
        /\ row.approval = Approval(old, who, d) /\ row.approval # None
    BY <2>1, <2>2, ReviewedRowOK
  <2>4. row # None /\ row.approval.reviewer = who.username
    BY <2>3, TaskParts DEF Approval
  <2>5. TaskAt(old) =
          [payload |-> old.payload, code |-> old.code,
           revision |-> old.revision, stage |-> "presented",
           report |-> old.nodes["report"].result, reviewer |-> None]
    BY <2>2 DEF TaskAt, TaskOf, Stage
  <2>6. TaskAt(row) =
          [payload |-> old.payload, code |-> old.code,
           revision |-> old.revision, stage |-> verdict,
           report |-> old.nodes["report"].result, reviewer |-> who.username]
    BY <2>3, <2>4 DEF TaskAt, TaskOf, Stage
  <2>7. Tasks[k] # None /\ DOMAIN Tasks = Keys
    BY <1>2, <1>3, <2>2 DEF TaskAt, Tasks
  <2> HIDE DEF old, row
  <2>8. TaskAt(row) = [TaskAt(old) EXCEPT !.stage = verdict,
                                          !.reviewer = who.username]
    <3> DEFINE t == TaskAt(old)
               staged == [t EXCEPT !.stage = verdict]
    <3>1. [t EXCEPT !.stage = verdict, !.reviewer = who.username] =
            [staged EXCEPT !.reviewer = who.username]
      BY Zenon
    <3>2. staged = [payload |-> old.payload, code |-> old.code,
                    revision |-> old.revision, stage |-> verdict,
                    report |-> old.nodes["report"].result, reviewer |-> None]
      BY <2>5
    <3> HIDE DEF staged
    <3>3. [staged EXCEPT !.reviewer = who.username] = TaskAt(row)
      BY <2>6, <3>2
    <3> QED BY <3>1, <3>3
  <2>9. Tasks' = [Tasks EXCEPT ![k].stage = verdict,
                               ![k].reviewer = who.username]
    BY <1>1, <1>2, <2>7, <2>8
  <2>10. /\ TaskAt(old).stage = "presented"
         /\ verdict \in {"approved", "rejected"}
         /\ who.username \in {w.username : w \in Principals} \ {AuthorOf(k)}
    BY <2>1, <2>5 DEF AuthorOf
  <2> HIDE DEF verdict
  <2>11. Promise!Decide(k)
    BY <1>2, <2>7, <2>9, <2>10 DEF Promise!Decide
  <2> QED BY <2>11 DEF Promise!Next
<1>9. CASE Withdrawn(old, row)
  <2>1. old # None /\ TaskAt(row) = None
    BY <1>9 DEF Withdrawn, TaskAt
  <2>2. Tasks[k] # None
    BY <1>2, <1>3, <2>1 DEF TaskAt
  <2>3. Promise!Withdraw(k)
    BY <1>1, <2>1, <2>2 DEF Promise!Withdraw
  <2> QED BY <2>3 DEF Promise!Next
<1> QED BY <1>5, <1>6, <1>7, <1>8, <1>9 DEF Changed

\* The checkpointed workflows implement ReviewedTask: whatever the leases,
\* batches, retries, reuse and crashes, their users see tasks presented as
\* the report of their current input, decided once, by somebody else.
THEOREM Implements == Spec => KeepsPromise
<1>1. Init => Promise!Init
  BY DEF Init, Promise!Init, Tasks
<1>2. IInv /\ IInv' /\ [Next]_vars => [Promise!Next]_Tasks
  <2> SUFFICES ASSUME IInv, IInv', [Next]_vars
               PROVE  Promise!Next \/ Tasks' = Tasks
    OBVIOUS
  <2>1. StepShape
    BY NextShape
  <2>2. CASE \A k \in Keys : runs'[k] = runs[k] \/ Aged(runs[k], runs'[k])
    <3>1. \A k \in Keys : TaskAt(runs'[k]) = TaskAt(runs[k])
      BY <2>2, AgedTask
    <3> QED BY <3>1 DEF Tasks, TaskAt
  <2>3. CASE \E k \in Keys : /\ \A j \in Keys : j # k => runs'[j] = runs[j]
                             /\ Changed(k, runs[k], runs'[k])
    BY <2>1, <2>3, ChangedTask DEF StepShape
  <2> QED BY <2>1, <2>2, <2>3 DEF StepShape
<1> QED BY <1>1, <1>2, Invariance, PTL DEF Spec, KeepsPromise, Promise!Spec
=============================================================================
