---------------------------- MODULE Orchestrator ----------------------------
(***************************************************************************)
(* How one question is answered (orchestrator.py): routed to departments by *)
(* the caller, its words, the model and the hooks, and answered by the hub  *)
(* from its own documents, or by the departments' agents, asked at once     *)
(* through dept_agent_client.py, which may fail or answer after the hub     *)
(* gave up on them.  An agent is the same program with one department, so   *)
(* the hub and the agents are workers that generate, verify and rewrite.    *)
(* Drafts are numbered; what they say, and memory, are left out.  What the   *)
(* code keeps as lists of departments are sets here: a department that a     *)
(* caller or the model names twice, which the code does not remove, and asks *)
(* twice, is not covered.                                                   *)
(***************************************************************************)
EXTENDS Naturals

CONSTANTS
  Departments,
  All,          \* "dept_all", which the model may name; it has no agent
  Hub,          \* the worker that was asked; no department
  MAX_VERIFY_RETRY,
  None

VARIABLES
  asking,   \* what the hub is at
  question, \* while it is routed: [named, words, calls, route, hooked, depts]
  hooks,    \* whether the hook on the question's words is in force
  asked,    \* the departments it was routed to
  job,      \* of each worker: [at, draft, attempt], or None before and after
  verdict,  \* of each worker: the drafts its verifier passed
  says,     \* what each worker answered: [content, passed], or None
  call,     \* of each department: "none", "sent", "answered" or "failed"
  merged    \* what the hub made of the calls, or None

hub == <<asking, question, hooks, asked>>
vars == <<hub, job, verdict, says, call, merged>>

Workers == Departments \cup {Hub}
Names == Departments \cup {All}
Refusal == 0

Init ==
  /\ asking = "idle"
  /\ question = None
  /\ hooks \in BOOLEAN
  /\ asked = {}
  /\ job = [w \in Workers |-> None]
  /\ verdict = [w \in Workers |-> {}]
  /\ says = [w \in Workers |-> None]
  /\ call = [d \in Names |-> "none"]
  /\ merged = None

At(w, stage) == job[w] # None /\ job[w].at = stage
Begun == [at |-> "generate", draft |-> 1, attempt |-> 0]
-----------------------------------------------------------------------------
\* The departments its words stand for, or else those the model finds, if any.
Routed(words, found) == IF words # {} THEN words ELSE found

Admit(named, words, calls, found) ==
  /\ asking = "idle"
  /\ asking' = "hooks"
  /\ question' = [named |-> named, words |-> words, calls |-> calls, hooked |-> FALSE,
                  route |-> IF named # {} THEN named ELSE Routed(words, found), depts |-> {}]
  /\ UNCHANGED <<hooks, asked, job, verdict, says, call, merged>>

\* An administrator's doing; it matters until the hooks are loaded.
ApproveHook ==
  /\ asking \in {"idle", "hooks"}
  /\ ~hooks
  /\ hooks' = TRUE
  /\ UNCHANGED <<asking, question, asked, job, verdict, says, call, merged>>

LoadHooks ==
  /\ asking = "hooks"
  /\ asking' = "intent"
  /\ question' = [question EXCEPT !.hooked = hooks]
  /\ UNCHANGED <<hooks, asked, job, verdict, says, call, merged>>

\* No department, or all of them, is each of them.
Inferred(said) == IF said = {} \/ said = {All} THEN Departments ELSE said

\* The departments the model says, or else the words.
Infer(said) ==
  /\ asking = "intent"
  /\ asking' = "resolve"
  /\ question' = [question EXCEPT !.depts = Inferred(said)]
  /\ UNCHANGED <<hooks, asked, job, verdict, says, call, merged>>

\* Mutant: what the model inferred goes before what the question was routed to.
ResolvedFromIntent(q) == q.depts \cup (IF q.hooked THEN q.calls ELSE {})

\* What was routed goes first; a hook then adds the departments its words call.
Resolved(q) == (IF q.route # {} THEN q.route ELSE q.depts) \cup (IF q.hooked THEN q.calls ELSE {})

Resolve ==
  /\ asking = "resolve"
  /\ asking' = "resolved"
  /\ asked' = Resolved(question)
  /\ UNCHANGED <<question, hooks, job, verdict, says, call, merged>>
-----------------------------------------------------------------------------
\* With agents and a department to ask, the question goes to all of them.
FanOut ==
  /\ asking = "resolved"
  /\ asked # {}
  /\ asking' = "gather"
  /\ question' = None
  /\ call' = [d \in Names |-> IF d \in asked THEN "sent" ELSE "none"]
  /\ UNCHANGED <<hooks, asked, job, verdict, says, merged>>

AnswerLocally ==
  /\ asking = "resolved"
  /\ asking' = "local"
  /\ question' = None
  /\ job' = [job EXCEPT ![Hub] = Begun]
  /\ UNCHANGED <<hooks, asked, verdict, says, call, merged>>

\* The request reaches the agent, in time or after the hub gave up.
Receive(d) ==
  /\ call[d] # "none"
  /\ job[d] = None /\ says[d] = None
  /\ job' = [job EXCEPT ![d] = Begun]
  /\ UNCHANGED <<hub, verdict, says, call, merged>>

Generate(w) ==
  /\ At(w, "generate")
  /\ job' = [job EXCEPT ![w].at = "verify"]
  /\ UNCHANGED <<hub, verdict, says, call, merged>>

Answered(w, content, passed) ==
  /\ job' = [job EXCEPT ![w] = None]
  /\ says' = [says EXCEPT ![w] = [content |-> content, passed |-> passed]]

Pass(w) ==
  /\ At(w, "verify")
  /\ verdict' = [verdict EXCEPT ![w] = @ \cup {job[w].draft}]
  /\ Answered(w, job[w].draft, TRUE)
  /\ UNCHANGED <<hub, call, merged>>

\* Mutant: the last draft is generated anew and returned as it is.
FailReturningLast(w) ==
  /\ At(w, "verify")
  /\ IF job[w].attempt = MAX_VERIFY_RETRY
     THEN Answered(w, job[w].draft + 1, FALSE)
     ELSE /\ job' = [job EXCEPT ![w] = [at |-> "generate", draft |-> job[w].draft + 1,
                                        attempt |-> job[w].attempt + 1]]
          /\ UNCHANGED says
  /\ UNCHANGED <<hub, verdict, call, merged>>

FailVerification(w) ==
  /\ At(w, "verify")
  /\ IF job[w].attempt = MAX_VERIFY_RETRY
     THEN Answered(w, Refusal, FALSE)
     ELSE /\ job' = [job EXCEPT ![w] = [at |-> "generate", draft |-> job[w].draft + 1,
                                        attempt |-> job[w].attempt + 1]]
          /\ UNCHANGED says
  /\ UNCHANGED <<hub, verdict, call, merged>>

\* An agent may fail or die with the question.
Fail(w) ==
  /\ job[w] # None /\ job[w].at # "failed"
  /\ job' = [job EXCEPT ![w].at = "failed"]
  /\ IF w = Hub
     THEN asking' = "error" /\ UNCHANGED call
     ELSE /\ call' = [call EXCEPT ![w] = IF @ = "sent" THEN "failed" ELSE @]
          /\ UNCHANGED asking
  /\ UNCHANGED <<question, hooks, asked, verdict, says, merged>>
-----------------------------------------------------------------------------
Return(d) ==
  /\ call[d] = "sent" /\ says[d] # None
  /\ call' = [call EXCEPT ![d] = "answered"]
  /\ UNCHANGED <<hub, job, verdict, says, merged>>

\* The request never arrives, or its answer is late or lost.
GiveUp(d) ==
  /\ call[d] = "sent"
  /\ call' = [call EXCEPT ![d] = "failed"]
  /\ UNCHANGED <<hub, job, verdict, says, merged>>

Calls(state) == {d \in Names : call[d] = state}

\* When every call has ended: if all failed, the hub answers by itself.
Gather ==
  /\ asking = "gather"
  /\ Calls("sent") = {}
  /\ CASE Calls("answered") = {} ->
            asking' = "local" /\ job' = [job EXCEPT ![Hub] = Begun]
       [] Calls("answered") # {} /\ Calls("failed") # {} ->
            asking' = "fallback" /\ UNCHANGED job
       [] OTHER -> asking' = "merge" /\ UNCHANGED job
  /\ UNCHANGED <<question, hooks, asked, verdict, says, call, merged>>

\* One answer, generated and not verified, stands for all that failed; without
\* any content they are named as failed.
Degraded(generated) == IF generated THEN Calls("failed") ELSE {}

Merge(generated) ==
  /\ asking \in {"fallback", "merge"}
  /\ asking' = "done"
  /\ merged' = [parts |-> [d \in Calls("answered") |-> says[d]],
                degraded |-> Degraded(generated),
                failed |-> Calls("failed") \ Degraded(generated),
                passed |-> TRUE]
  /\ UNCHANGED <<question, hooks, asked, job, verdict, says, call>>

FailFallback ==
  /\ asking = "fallback"
  /\ asking' = "error"
  /\ UNCHANGED <<question, hooks, asked, job, verdict, says, call, merged>>

Finish ==
  /\ asking = "local" /\ says[Hub] # None
  /\ asking' = "done"
  /\ UNCHANGED <<question, hooks, asked, job, verdict, says, call, merged>>

Next ==
  \/ \E named, words, calls, found \in SUBSET Departments : Admit(named, words, calls, found)
  \/ \E said \in SUBSET Names : Infer(said)
  \/ ApproveHook \/ LoadHooks \/ Resolve \/ FanOut \/ AnswerLocally \/ Gather \/ FailFallback \/ Finish
  \/ \E generated \in BOOLEAN : Merge(generated)
  \/ \E d \in Departments : Receive(d) \/ Return(d)
  \/ \E d \in Names : GiveUp(d)
  \/ \E w \in Workers : Generate(w) \/ Pass(w) \/ FailVerification(w) \/ Fail(w)

Spec == Init /\ [][Next]_vars
-----------------------------------------------------------------------------
Sound(w, answer) ==
  IF answer.passed THEN answer.content \in verdict[w] ELSE answer.content = Refusal

Due(q) == IF q.named # {} THEN q.named ELSE q.words

(* What the hub or an agent answers was passed by its verifier or is the    *)
(* refusal, never a draft written after the last verification; the           *)
(* departments the caller named, or else the question's words, are asked,    *)
(* and of the others only those a hook calls; and once the hub has merged,   *)
(* each department asked is answered for once, by what its agent said before *)
(* the hub gave up, by the fallback, or by its name, whatever arrives late.  *)
AnswersAreVerified ==
  /\ \A w \in Workers : says[w] # None => Sound(w, says[w])
  /\ asking = "resolved" /\ Due(question) # {} =>
       /\ Due(question) \subseteq asked
       /\ asked \subseteq Due(question) \cup question.calls
       /\ ~question.hooked => asked = Due(question)
  /\ merged # None =>
       /\ \A d \in DOMAIN merged.parts : Sound(d, merged.parts[d])
       /\ DOMAIN merged.parts \cup merged.degraded \cup merged.failed = asked
       /\ DOMAIN merged.parts \cap (merged.degraded \cup merged.failed) = {}
       /\ merged.degraded \cap merged.failed = {}
=============================================================================
