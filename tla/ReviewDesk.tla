----------------------------- MODULE ReviewDesk -----------------------------
(***************************************************************************)
(* Workflow together with the page a reviewer decides from                 *)
(* (core/web/workflows.js): load() fetches the run and shows its report;   *)
(* the decision is sent later, with the revision number of the page, while *)
(* the author goes on working.                                             *)
(***************************************************************************)
EXTENDS MCWorkflow

VARIABLE page     \* what each account has open: None, or a run it fetched

deskVars == <<runs, batch, page>>

DeskInit == Init /\ page = [who \in Principals |-> None]

\* load(id): the reviewer opens a run that is waiting for review.
OpenPage(who, k) ==
  /\ who.role = "reviewer"
  /\ MayRead(who, k)
  /\ runs[k].status = "needs_review"
  /\ page' = [page EXCEPT ![who] =
                [run |-> k, revision |-> runs[k].revision,
                 result |-> runs[k].nodes["report"].result]]
  /\ UNCHANGED <<runs, batch>>

\* The decision is taken on the page and reaches the server with its revision.
DecideOnPage(who, decision, c) ==
  /\ page[who] # None
  /\ Present(page[who].run)
  /\ runs[page[who].run].revision = page[who].revision
  /\ Review(who, page[who].run, decision, c)
  /\ UNCHANGED page

DeskNext ==
  \/ (OwnerStep \/ DeleteStep \/ BatchStep \/ Tick) /\ UNCHANGED page
  \/ \E who \in Principals :
       \/ \E k \in Keys : OpenPage(who, k)
       \/ \E d \in {"approve", "reject"}, c \in Codes : DecideOnPage(who, d, c)

DeskSpec == DeskInit /\ [][DeskNext]_deskVars

\* "Version review ... intercepts stale confirmations"
\* (docs/RESUME_PROJECT.md:17): a verdict taken on a page is not accepted for
\* a run that holds another report than the one the page shows.
VerdictOnWhatWasShown ==
  [][\A who \in Principals, d \in {"approve", "reject"}, c \in Codes :
       DecideOnPage(who, d, c) =>
         page[who].result = runs[page[who].run].nodes["report"].result]_deskVars
=============================================================================
