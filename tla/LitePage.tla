------------------------------- MODULE LitePage -------------------------------
(***************************************************************************)
(* The static workbench (lite/web/app.mjs, tasks.mjs, policy.mjs): one page  *)
(* whose state is saved as a whole to the store of the browser.  Handlers   *)
(* run to their next await; digests, the fetch of a draft, the making of a  *)
(* Word file and saving are awaited, and the visitor goes on clicking.      *)
(* Of the task, of the policy of a flow, and of the answer on display there  *)
(* is one each; they share no state.                                        *)
(***************************************************************************)
EXTENDS Integers, FiniteSets

CONSTANTS
  Clicks,        \* handlers that may be under way at once
  Params,        \* inputs of the tool
  Faulty,        \* those the tool raises an error on
  Unfinished,    \* those whose result lacks data
  Failing,       \* those whose result did not pass its checks
  Policies,      \* candidates
  Passing,       \* the replays that pass: <<candidate, corpus>>
  MaxRequests, MaxAsked,
  None

Base == "base"
Corpora == {"old", "new"}

VARIABLES
  \* the task
  task,      \* [params, input, request, status, result, approval]
  stored,    \* the task in IndexedDB
  doing,     \* of each click: the run, confirmation or export under way
  files,     \* what was handed out: [result, params, seen]
  \* the policy of a flow
  head,      \* the version in force
  policy,    \* of each candidate: [status, base, prints, previous]
  judging,   \* of each click: the proposal, replay or publication under way
  corpus,    \* the documents active in the page
  asked,     \* questions of this flow among the traces
  \* the answer on display
  traces,    \* answers given: [id, quotes]
  shown,     \* the one on display, or None
  epoch,     \* requestEpoch
  active,    \* the document the answers quote is active
  indexed,   \* and is so in the index
  saving,    \* changes of it whose save is awaited
  prompt,    \* of each click: the draft under way
  drafts     \* drafts attached: [to, onto, quoted]

tasks == <<task, stored, doing, files>>
policies == <<head, policy, judging, corpus, asked>>
answers == <<traces, shown, epoch, active, indexed, saving, prompt, drafts>>

NoTask(p) == [params |-> p, input |-> 1, request |-> 0, status |-> "draft",
              result |-> None, approval |-> None]

Init ==
  /\ \E p \in Params : task = NoTask(p) /\ stored = NoTask(p)
  /\ doing = [c \in Clicks |-> None]
  /\ files = {}
  /\ head = Base
  /\ policy = [c \in Policies |-> None]
  /\ judging = [c \in Clicks |-> None]
  /\ corpus = "old" /\ asked = 0
  /\ traces = {} /\ shown = None /\ epoch = 0
  /\ active = TRUE /\ indexed = TRUE /\ saving = 0
  /\ prompt = [c \in Clicks |-> None]
  /\ drafts = {}
-----------------------------------------------------------------------------
(* The task.  Who goes on after an await compares the request and the input  *)
(* with those it began with.                                               *)
Begun(op) == [op |-> op, at |-> "begun", request |-> task.request,
              input |-> task.input, params |-> task.params,
              result |-> task.result, seen |-> None]

Goes(c, at) == doing' = [doing EXCEPT ![c].at = at]
Ends(c) == doing' = [doing EXCEPT ![c] = None]

\* save() is awaited by the handlers and may fail; the page goes on.
Saved == stored' \in {stored, task'}

Same(c) == task.request = doing[c].request /\ task.input = doing[c].input

\* editTask(), from a field, the JSON text or a CSV file.
Edit(p) ==
  /\ task.request < MaxRequests
  /\ p # task.params
  /\ task' = [NoTask(p) EXCEPT !.input = task.input + 1, !.request = task.request + 1]
  /\ Saved
  /\ UNCHANGED <<doing, files>>

\* A key pressed in the JSON text, not parsed yet.
Type ==
  /\ task.request < MaxRequests
  /\ task' = [task EXCEPT !.request = @ + 1, !.status = "draft",
                          !.result = None, !.approval = None]
  /\ UNCHANGED <<stored, doing, files>>

Run(c) ==
  /\ doing[c] = None /\ task.request < MaxRequests
  /\ task' = [task EXCEPT !.request = @ + 1, !.status = "running",
                          !.approval = None, !.result = None]
  /\ doing' = [doing EXCEPT ![c] = [Begun("run") EXCEPT !.request = task'.request,
                                                        !.result = None]]
  /\ UNCHANGED <<stored, files>>

\* Mutant: what comes back is taken for the result of the task.
AnyRun(c) == TRUE

Current(c) == Same(c)

\* The digest of the input is there: the tool runs.
Execute(c) ==
  /\ doing[c] # None /\ doing[c].op = "run" /\ doing[c].at = "begun"
  /\ IF Current(c) /\ doing[c].params \notin Faulty
     THEN /\ doing' = [doing EXCEPT ![c].at = "executed", ![c].result = doing[c].params]
          /\ UNCHANGED <<task, stored>>
     ELSE /\ task' = IF Current(c) THEN [task EXCEPT !.status = "failed"] ELSE task
          /\ Ends(c)
          /\ Saved
  /\ UNCHANGED files

\* The digest of the result is there.
Finish(c) ==
  /\ doing[c] # None /\ doing[c].op = "run" /\ doing[c].at = "executed"
  /\ task' = IF Current(c)
             THEN [task EXCEPT !.result = doing[c].result,
                     !.status = IF doing[c].result \in Unfinished
                                THEN "incomplete" ELSE "needs_review"]
             ELSE task
  /\ Ends(c)
  /\ Saved
  /\ UNCHANGED files

\* The visitor ticks that this result is checked, and confirms.
Confirm(c) ==
  /\ doing[c] = None
  /\ task.status = "needs_review" /\ task.result \notin Failing
  /\ doing' = [doing EXCEPT ![c] = Begun("confirm")]
  /\ UNCHANGED <<task, stored, files>>

Approve(c) ==
  /\ doing[c] # None /\ doing[c].op = "confirm"
  /\ IF Same(c)
     THEN task' = [task EXCEPT !.status = "approved",
                               !.approval = [input |-> task.input, seen |-> doing[c].result]]
     ELSE UNCHANGED task
  /\ Ends(c)
  /\ Saved
  /\ UNCHANGED files

\* prepareExport(), to its digest ...
Prepared == task.status \in {"approved", "exported"} /\ task.approval.input = task.input

Export(c) ==
  /\ doing[c] = None
  /\ Prepared
  /\ doing' = [doing EXCEPT ![c] = [Begun("export") EXCEPT !.seen = task.approval.seen]]
  /\ UNCHANGED <<task, stored, files>>

\* ... after it, the ticket in hand; the file is made, a Word file in time.
Ticket(c) ==
  /\ doing[c] # None /\ doing[c].op = "export" /\ doing[c].at = "begun"
  /\ IF Same(c) /\ task.approval # None THEN Goes(c, "ticket") ELSE Ends(c)
  /\ UNCHANGED <<task, stored, files>>

\* Mutant: the ticket is honoured for a task that is confirmed, not this one.
HonouredAnyway(c) == task.approval # None

\* completeExport() prepares once more and compares.
Honoured(c) == task.approval # None /\ Same(c) /\ task.result = doing[c].result

HandOut(c) ==
  /\ doing[c] # None /\ doing[c].op = "export" /\ doing[c].at = "ticket"
  /\ IF Honoured(c)
     THEN /\ files' = files \cup {[result |-> doing[c].result, params |-> task.params,
                                   seen |-> doing[c].seen]}
          /\ task' = [task EXCEPT !.status = "exported"]
          /\ Saved
     ELSE UNCHANGED <<files, task, stored>>
  /\ Ends(c)

\* The page is opened anew: a run that was under way is known to be dead.
Reload ==
  /\ task.request < MaxRequests /\ stored.request < MaxRequests
  /\ task' = IF stored.status = "running"
             THEN [stored EXCEPT !.status = "failed", !.request = @ + 1] ELSE stored
  /\ doing' = [c \in Clicks |-> None]
  /\ UNCHANGED <<stored, files>>

Tasks ==
  \/ \E p \in Params : Edit(p)
  \/ Type \/ Reload
  \/ \E c \in Clicks : \/ Run(c) \/ Execute(c) \/ Finish(c) \/ Confirm(c) \/ Approve(c)
                       \/ Export(c) \/ Ticket(c) \/ HandOut(c)
-----------------------------------------------------------------------------
(* The policy.  A replay judges the candidate on the documents and questions *)
(* of the click, against the policy then in force, in one go; the           *)
(* fingerprints of the questions and of the policy are taken some awaits    *)
(* later, when another click may have changed them.                        *)
Replay(c, op) == [op |-> op, c |-> c, at |-> "judged", rows |-> corpus, traces |-> asked,
                  passed |-> <<c, corpus>> \in Passing,
                  cases |-> asked, expected |-> None]

Turns(k, row) == judging' = [judging EXCEPT ![k] = row]
Under(k, at) == judging[k] # None /\ judging[k].at = at

\* The button made from the feedback of the answer on display.
Propose(k, c) ==
  /\ judging[k] = None /\ policy[c] = None /\ asked > 0
  /\ Turns(k, Replay(c, "propose"))
  /\ policy' = [policy EXCEPT ![c] = [status |-> "pending", base |-> head,
                                      prints |-> None, previous |-> None]]
  /\ UNCHANGED <<head, corpus, asked>>

Reviewed(c) ==
  policy[c] # None /\ policy[c].status \in {"ready_for_review", "failed"}

Revalidate(k, c) ==
  /\ judging[k] = None /\ Reviewed(c) /\ head = policy[c].base
  /\ Turns(k, Replay(c, "revalidate"))
  /\ UNCHANGED <<head, policy, corpus, asked>>

Publish(k, c) ==
  /\ judging[k] = None /\ Reviewed(c)
  /\ policy[c].status = "ready_for_review" /\ head = policy[c].base
  /\ Turns(k, [Replay(c, "publish") EXCEPT !.at = "confirmed"])
  /\ UNCHANGED <<head, policy, corpus, asked>>

\* The digest of the configuration is there: what the visitor saw is to be
\* what a replay on the rows of the click shows again.
Rejudge(k) ==
  /\ Under(k, "confirmed")
  /\ Turns(k, [judging[k] EXCEPT !.at = "judged",
                 !.passed = <<judging[k].c, judging[k].rows>> \in Passing,
                 !.expected = policy[judging[k].c].prints])
  /\ UNCHANGED <<head, policy, corpus, asked>>

\* The list the click handed over takes one more question, the next is
\* pushed to a copy.
Sample(k) ==
  /\ Under(k, "judged")
  /\ Turns(k, [judging[k] EXCEPT !.at = "sampled",
                 !.cases = IF asked > judging[k].traces THEN judging[k].traces + 1 ELSE asked])
  /\ UNCHANGED <<head, policy, corpus, asked>>

Fingerprint(k) ==
  /\ Under(k, "sampled")
  /\ LET call == judging[k]
         prints == [corpus |-> call.rows, cases |-> call.cases, baseline |-> head]
     IN  IF call.op # "publish"
         THEN /\ policy' = [policy EXCEPT ![call.c].prints = prints,
                   ![call.c].status = IF call.passed THEN "ready_for_review" ELSE "failed"]
              /\ Turns(k, None)
         ELSE /\ Turns(k, IF call.passed /\ prints = call.expected
                          THEN [call EXCEPT !.at = "compared"] ELSE None)
              /\ UNCHANGED policy
  /\ UNCHANGED <<head, corpus, asked>>

\* Mutant: the policy in force is not looked at again before it is replaced.
AnyBase(c) == TRUE

StillBase(c) == head = policy[c].base

\* Mutant: the candidate that was in force keeps its status.
Untouched(c) == policy

Replacing(c) ==
  [q \in Policies |-> IF policy[q] # None /\ policy[q].status = "active"
                      THEN [policy[q] EXCEPT !.status = "replaced"] ELSE policy[q]]

Deploy(k) ==
  /\ Under(k, "compared")
  /\ LET c == judging[k].c
     IN  IF StillBase(c)
         THEN /\ policy' = [Replacing(c) EXCEPT ![c].status = "active", ![c].previous = head]
              /\ head' = c
         ELSE UNCHANGED <<policy, head>>
  /\ Turns(k, None)
  /\ UNCHANGED <<corpus, asked>>

Rollback(c) ==
  /\ policy[c] # None /\ policy[c].status = "active" /\ head = c
  /\ head' = policy[c].previous
  /\ policy' = [q \in Policies |->
                  CASE q = c -> [policy[c] EXCEPT !.status = "rolled_back"]
                    [] q = policy[c].previous -> [policy[q] EXCEPT !.status = "active"]
                    [] OTHER -> policy[q]]
  /\ UNCHANGED <<judging, corpus, asked>>

Change ==
  /\ \/ corpus' \in Corpora \ {corpus} /\ UNCHANGED asked
     \/ asked < MaxAsked /\ asked' = asked + 1 /\ UNCHANGED corpus
  /\ UNCHANGED <<head, policy, judging>>

Deciding ==
  \/ \E k \in Clicks : \/ \E c \in Policies : Propose(k, c) \/ Revalidate(k, c) \/ Publish(k, c)
                       \/ Rejudge(k) \/ Sample(k) \/ Fingerprint(k) \/ Deploy(k)
  \/ \E c \in Policies : Rollback(c)
  \/ Change
-----------------------------------------------------------------------------
(* The answer on display, and the draft a model may write to it.            *)
NoPrompt == [c \in Clicks |-> None]

\* Answered from the active documents; what was fetched is aborted.
Ask ==
  /\ epoch < MaxRequests
  /\ epoch' = epoch + 1
  /\ shown' = [id |-> epoch', quotes |-> active]
  /\ traces' = traces \cup {shown'}
  /\ prompt' = NoPrompt
  /\ UNCHANGED <<active, indexed, saving, drafts>>

NewSession ==
  /\ epoch < MaxRequests
  /\ epoch' = epoch + 1
  /\ shown' = None
  /\ prompt' = NoPrompt
  /\ UNCHANGED <<traces, active, indexed, saving, drafts>>

\* An earlier answer is opened from the list; nothing is aborted.
View(t) ==
  /\ shown' = t
  /\ UNCHANGED <<traces, epoch, active, indexed, saving, prompt, drafts>>

\* With consent, the question and its sources are sent.
Prompt(c) ==
  /\ epoch < MaxRequests
  /\ shown # None /\ shown.quotes /\ indexed
  /\ epoch' = epoch + 1
  /\ prompt' = [NoPrompt EXCEPT ![c] = [to |-> shown.id, epoch |-> epoch']]
  /\ UNCHANGED <<traces, shown, active, indexed, saving, drafts>>

\* Mutant: a draft is attached whatever is on display by now.
OnAnyPage(c) == TRUE

Expected(c) == prompt[c].epoch = epoch /\ shown # None /\ shown.id = prompt[c].to

\* Mutant: the sources are not looked up again.
Unchecked == TRUE

StillCited == indexed

Arrive(c) ==
  /\ prompt[c] # None
  /\ drafts' = IF Expected(c) /\ StillCited
               THEN drafts \cup {[to |-> prompt[c].to,
                                  onto |-> IF shown = None THEN None ELSE shown.id,
                                  quoted |-> active \/ saving > 0]}
               ELSE drafts
  /\ prompt' = [prompt EXCEPT ![c] = None]
  /\ UNCHANGED <<traces, shown, epoch, active, indexed, saving>>

\* The document is disabled or enabled; the index follows when it is saved.
Toggle ==
  /\ saving < Cardinality(Clicks)
  /\ active' = ~active
  /\ saving' = saving + 1
  /\ UNCHANGED <<traces, shown, epoch, indexed, prompt, drafts>>

Refresh ==
  /\ saving > 0
  /\ saving' = saving - 1
  /\ indexed' = active
  /\ UNCHANGED <<traces, shown, epoch, active, prompt, drafts>>

Answering ==
  \/ Ask \/ NewSession \/ Toggle \/ Refresh
  \/ \E t \in traces : View(t)
  \/ \E c \in Clicks : Prompt(c) \/ Arrive(c)
-----------------------------------------------------------------------------
\* The tool is a function: its result stands for the input it was run on.
FilesAreConfirmed ==
  /\ \A f \in files : f.result = f.params /\ f.seen = f.result
  /\ task.status \in {"approved", "exported"} =>
       /\ task.result = task.params
       /\ task.approval.seen = task.result
       /\ task.result \notin Faulty \cup Unfinished \cup Failing

PoliciesStand ==
  \A c \in Policies : policy[c] # None =>
    /\ policy[c].status = "active" => head = c
    /\ policy[c].previous # None => policy[c].previous = policy[c].base

DraftsBelong == \A d \in drafts : d.to = d.onto /\ d.quoted

(* However clicks overtake what they wait for: a file that is handed out    *)
(* holds what the tool makes of the input on the page, and the result its   *)
(* visitor confirmed, across reloads too; the candidate marked as active is  *)
(* the one in force, and what it replaced is what it was proposed against;  *)
(* a draft is added to the answer it was asked for while that is on display  *)
(* and its source in use, or about to be taken out of use.                  *)
PageIsSound == FilesAreConfirmed /\ PoliciesStand /\ DraftsBelong
=============================================================================
