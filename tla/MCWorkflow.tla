----------------------------- MODULE MCWorkflow -----------------------------
(***************************************************************************)
(* Small instances of Workflow: one for liveness, of an owner alone; and one *)
(* with two foci, each run being of one.  There, on the workflow of two      *)
(* tools two requests advance over an edit that relabels its data; on the    *)
(* issuance one request at a time advances, while three people review and    *)
(* two versions of the code serve.                                          *)
(***************************************************************************)
EXTENDS Workflow, TLC

Wealth == [wealth_review |-> {"weekly_report", "wealth_benchmark"}]
Issuance == [issuance |-> {"issuance"}]

\* The data a tool can be given: clean, doubtful or failing a hard check.
AllData == {"clean", "doubtful", "broken"}
Grades == [d \in AllData |-> CASE d = "clean" -> "KEEP"
                               [] d = "doubtful" -> "REVIEW"
                               [] d = "broken" -> "REWRITE"]

WealthInput(weekly, bench, synthetic) ==
  [workflow |-> "wealth_review", synthetic |-> synthetic, mode |-> "user",
   data |-> [t \in Wealth["wealth_review"] |->
               IF t = "weekly_report" THEN weekly ELSE bench]]

IssuanceInput(d, mode) ==
  [workflow |-> "issuance", synthetic |-> TRUE, mode |-> mode,
   data |-> [t \in {"issuance"} |-> d]]

\* An edit that changes no data of a tool, only the synthetic flag.
RelabelledData ==
  {WealthInput("clean", "doubtful", FALSE), WealthInput("clean", "doubtful", TRUE)}

\* The bundled calendar and the same calendar sent in by the user: the key of
\* the tool does not change, those of the other nodes do.
SameCalendar ==
  {IssuanceInput("doubtful", "example"), IssuanceInput("doubtful", "user")}

AnyCalendar == SameCalendar \cup {IssuanceInput("broken", "user")}

\* An editor; a reviewer; the same editor logged in as a reviewer elsewhere.
Alice == [owner |-> "o1", username |-> "alice", role |-> "editor"]
Alice2 == [owner |-> "o2", username |-> "alice", role |-> "reviewer"]
Bob == [owner |-> "o2", username |-> "bob", role |-> "reviewer"]

AnyInput == RelabelledData \cup AnyCalendar

HandlerSymmetry == Permutations(Handlers)

\* The owner alone, whose one input stays as it is: liveness is asked of the
\* requests that advance one revision.
LiveNext ==
  /\ OwnerStep \/ DeleteStep \/ BatchStep \/ Tick
  /\ \A k \in Keys : Present(k) /\ runs'[k] # None => runs'[k].payload = runs[k].payload

LiveSpec == Init /\ [][LiveNext]_vars /\ Fairness

OnlyAlice == {Alice}
Everyone == {Alice, Alice2, Bob}
AliceAndBob == {Alice, Bob}
-----------------------------------------------------------------------------
Both == Wealth @@ Issuance

Reuse(p) == p.workflow = "wealth_review"
IsReuse(k) == Present(k) /\ Reuse(runs[k].payload)
Takes(who, c, reuse) == reuse => who \in OnlyAlice /\ c = "v1"
\* A run of the other focus waits for the batches of a deleted run.
Follows(p) == \A h \in Handlers : batch[h] = None \/ (Reuse(batch[h].payload) /\ Reuse(p))
OneAtATime(k) == IsReuse(k) \/ \A h \in Handlers : batch[h] = None

FocusOwnerStep ==
  \E who \in Principals, c \in Codes :
    \/ \E r \in Requests, p \in {q \in Payloads : Takes(who, c, Reuse(q)) /\ Follows(q)} :
         Create(who, r, p, c)
    \/ \E k \in {j \in Keys : Takes(who, c, IsReuse(j))} :
         \/ \E p \in Payloads : Edit(who, k, p, c)
         \/ ClaimBlocks(who, k, c)
         \/ ClaimSettles(who, k, c)
         \/ ClaimStalls(who, k, c)
         \/ \E h \in {i \in Handlers : OneAtATime(k)} : ClaimBatch(h, who, k, c)

FocusReviewStep ==
  \E who \in Principals, k \in {j \in Keys : ~IsReuse(j)}, c \in Codes,
     d \in {"approve", "reject"} :
    Review(who, k, d, c)

MCNext == FocusOwnerStep \/ DeleteStep \/ FocusReviewStep \/ BatchStep \/ Tick

MCSpec == Init /\ [][MCNext]_vars
=============================================================================
