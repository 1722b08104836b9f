------------------------------ MODULE Pipeline ------------------------------
(***************************************************************************)
(* One question in the financial runtime (agents.py, memory.py,             *)
(* retrieval.py, budgets.py): its departments, the sources of what the      *)
(* organization remembers, the search, the hydration of what the indexes    *)
(* found, the draft, its verification and the rewrites, every stage under a *)
(* deadline with a fallback of its own, while documents are withdrawn.  A   *)
(* chunk stands for its document.  Which words are found and written is     *)
(* left out.  What leaves for a model is kept, of the deployment whose      *)
(* models are outside the institution (not JINSHU_MODEL_SCOPE local): as    *)
(* evidence, and in the memory context, which quotes earlier turns.         *)
(***************************************************************************)
EXTENDS Integers, FiniteSets

CONSTANTS
  Chunks,
  DeptOf,       \* [Chunks -> departments]
  Approved,     \* the chunks whose document is marked external_allowed
  Remembered,   \* those the memory context quotes, of whatever document
  MAX_VERIFY_RETRY,
  None

VARIABLES
  inforce,   \* the chunks valid_chunk returns
  allowed,   \* the departments of the user
  opted,     \* models_allowed(): a model may be called
  stage,
  depts,     \* where the question is searched
  recalled,  \* the sources of what the organization remembers
  hits,      \* what is being hydrated or checked
  chunks,    \* the evidence
  mode,      \* run_state["answer_mode"]
  draft,     \* [number, by] of the answer at hand, or None
  attempt,
  sent,      \* the chunks that left for a model as evidence; history
  told,      \* those that left in the memory context; history
  checked,   \* those found valid for the draft at hand; history
  judged     \* the drafts the model passed; history

vars == <<inforce, allowed, opted, stage, depts, recalled, hits, chunks, mode,
          draft, attempt, sent, told, checked, judged>>
run == <<allowed, opted>>
history == <<sent, told, checked, judged>>

Departments == {DeptOf[c] : c \in Chunks}
Written == {"pi_runtime", "llm"}

Init ==
  /\ inforce = Chunks
  /\ allowed \in SUBSET Departments /\ opted \in BOOLEAN
  /\ stage = "intent"
  /\ depts = {} /\ recalled = {} /\ hits = {} /\ chunks = {}
  /\ mode = "extractive_offline" /\ draft = None /\ attempt = 0
  /\ sent = {} /\ told = {} /\ checked = {} /\ judged = {}

Withdraw(c) ==
  /\ c \in inforce
  /\ inforce' = inforce \ {c}
  /\ UNCHANGED <<run, stage, depts, recalled, hits, chunks, mode, draft, attempt, history>>
-----------------------------------------------------------------------------
\* The memory context goes with the question to the model that is asked, what
\* it quotes approved or not.
Tell(asked) ==
  /\ asked => opted
  /\ told' = IF asked THEN told \cup Remembered ELSE told

\* What the classifier or the hooks add stays within the departments allowed.
Route(wanted, asked) ==
  /\ stage = "intent"
  /\ depts' = wanted \cap allowed
  /\ Tell(asked)
  /\ stage' = "recall"
  /\ UNCHANGED <<inforce, run, recalled, hits, chunks, mode, draft, attempt,
                 sent, checked, judged>>

Valid(c) == c \in inforce /\ DeptOf[c] \in depts

\* A memory brings the chunks it was drawn from, looked at before the search.
Recall(c) ==
  /\ stage = "recall" /\ Valid(c)
  /\ recalled' = recalled \cup {c}
  /\ UNCHANGED <<inforce, run, stage, depts, hits, chunks, mode, draft, attempt, history>>

Rewrite(asked) ==
  /\ stage = "recall"
  /\ Tell(asked)
  /\ stage' = "search"
  /\ UNCHANGED <<inforce, run, depts, recalled, hits, chunks, mode, draft, attempt,
                 sent, checked, judged>>

\* The indexes may lag behind and return chunks of documents withdrawn since.
Search(found) ==
  /\ stage = "search"
  /\ hits' = {c \in found : DeptOf[c] \in depts}
  /\ stage' = "hydrate"
  /\ UNCHANGED <<inforce, run, depts, recalled, chunks, mode, draft, attempt, history>>

Hydrate(c) ==
  /\ stage = "hydrate" /\ c \in hits
  /\ hits' = hits \ {c}
  /\ chunks' = IF Valid(c) THEN chunks \cup {c} ELSE chunks
  /\ UNCHANGED <<inforce, run, stage, depts, recalled, mode, draft, attempt, history>>

\* Mutant: what is not approved leaves too.
MayLeaveAtAll(evidence) == opted

\* evidence_allowed and models_allowed.
MayLeave(evidence) == opted /\ evidence \subseteq Approved

\* The reranker is asked if it may see what was found; when it fails or is
\* late, the order of the search stands.
Rerank(top) ==
  /\ stage = "hydrate" /\ hits = {}
  /\ sent' = IF MayLeave(chunks) THEN sent \cup chunks ELSE sent
  /\ hits' = top \cap chunks /\ chunks' = {}
  /\ stage' = "recheck"
  /\ UNCHANGED <<inforce, run, depts, recalled, mode, draft, attempt, told, checked, judged>>

Recheck(c) ==
  /\ stage = "recheck" /\ c \in hits
  /\ hits' = hits \ {c}
  /\ chunks' = IF Valid(c) THEN chunks \cup {c} ELSE chunks
  /\ UNCHANGED <<inforce, run, stage, depts, recalled, mode, draft, attempt, history>>

\* The remembered sources come first, then what was found, as far as there is
\* room; they are not looked at again.
Merged(found, kept) ==
  /\ kept \subseteq recalled \cup found
  /\ recalled \subseteq kept \/ kept \subseteq recalled
  /\ kept = {} => recalled \cup found = {}
  /\ chunks' = kept /\ recalled' = {}

Retrieved(kept) ==
  /\ stage = "recheck" /\ hits = {}
  /\ Merged(chunks, kept)
  /\ stage' = "generate"
  /\ UNCHANGED <<inforce, run, depts, hits, mode, draft, attempt, history>>

\* The deadline of the retrieval: nothing was found.
RetrievalLate(kept) ==
  /\ stage \in {"search", "hydrate", "recheck"}
  /\ Merged({}, kept)
  /\ hits' = {}
  /\ stage' = "generate"
  /\ UNCHANGED <<inforce, run, depts, mode, draft, attempt, history>>
-----------------------------------------------------------------------------
Drafted(by) ==
  /\ draft' = [number |-> attempt, by |-> by]
  /\ mode' = by
  /\ checked' = {}
  /\ hits' = chunks
  /\ stage' = "verify"

\* Without evidence the answer says so, and the mode is left as it was.
GenerateNothing ==
  /\ stage = "generate" /\ chunks = {}
  /\ draft' = [number |-> attempt, by |-> "nothing"]
  /\ hits' = {} /\ checked' = {}
  /\ stage' = "verify"
  /\ UNCHANGED <<inforce, run, depts, recalled, chunks, mode, attempt, sent, told, judged>>

\* Quotes: no model may be called, it fails, or it is late and BoundedNode has
\* the answer written without it.
Extract(called) ==
  /\ stage = "generate" /\ chunks # {}
  /\ called => MayLeave(chunks)
  /\ sent' = IF called THEN sent \cup chunks ELSE sent
  /\ Tell(called)
  /\ Drafted("extractive_offline")
  /\ UNCHANGED <<inforce, run, depts, recalled, chunks, attempt, judged>>

Compose(by) ==
  /\ stage = "generate" /\ chunks # {}
  /\ MayLeave(chunks)
  /\ sent' = sent \cup chunks
  /\ Tell(TRUE)
  /\ Drafted(by)
  /\ UNCHANGED <<inforce, run, depts, recalled, chunks, attempt, judged>>
-----------------------------------------------------------------------------
\* Verification: the sources one by one, then the model.
Fails ==
  /\ hits' = {}
  /\ IF attempt = MAX_VERIFY_RETRY
     THEN stage' = "refused" /\ UNCHANGED attempt
     ELSE stage' = "generate" /\ attempt' = attempt + 1

Check(c) ==
  /\ stage = "verify" /\ c \in hits
  /\ IF Valid(c)
     THEN /\ hits' = hits \ {c} /\ checked' = checked \cup {c}
          /\ UNCHANGED <<stage, attempt>>
     ELSE Fails /\ UNCHANGED checked
  /\ UNCHANGED <<inforce, run, depts, recalled, chunks, mode, draft, sent, told, judged>>

\* A citation or reference number that is not of the evidence, or no evidence.
Reject ==
  /\ stage = "verify"
  /\ Fails
  /\ UNCHANGED <<inforce, run, depts, recalled, chunks, mode, draft, history>>

Quoted ==
  /\ stage = "verify" /\ hits = {} /\ chunks # {}
  /\ mode = "extractive_offline"
  /\ stage' = "passed"
  /\ UNCHANGED <<inforce, run, depts, recalled, hits, chunks, mode, draft, attempt, history>>

Judge(passes) ==
  /\ stage = "verify" /\ hits = {} /\ chunks # {}
  /\ mode \in Written
  /\ sent' = sent \cup chunks
  /\ IF passes
     THEN /\ judged' = judged \cup {draft.number}
          /\ stage' = "passed" /\ UNCHANGED <<hits, attempt>>
     ELSE Fails /\ UNCHANGED judged
  /\ UNCHANGED <<inforce, run, depts, recalled, chunks, mode, draft, told, checked>>

\* Mutant: an answer whose verification is late is let through.
VerifyLateApproves ==
  /\ stage = "verify"
  /\ stage' = "passed"
  /\ UNCHANGED <<inforce, run, depts, recalled, hits, chunks, mode, draft, attempt, history>>

\* The deadline of the verification: no approval.
VerifyLate ==
  /\ stage = "verify"
  /\ Fails
  /\ UNCHANGED <<inforce, run, depts, recalled, chunks, mode, draft, history>>

Retrieval ==
  \/ \E asked \in BOOLEAN :
       Rewrite(asked) \/ \E wanted \in SUBSET Departments : Route(wanted, asked)
  \/ \E found \in SUBSET Chunks :
       Search(found) \/ Rerank(found) \/ Retrieved(found) \/ RetrievalLate(found)
  \/ \E c \in Chunks : Recall(c) \/ Hydrate(c) \/ Recheck(c)

Answering ==
  \/ GenerateNothing \/ \E called \in BOOLEAN : Extract(called)
  \/ \E by \in Written : Compose(by)
  \/ \E c \in Chunks : Check(c)
  \/ Reject \/ Quoted \/ VerifyLate \/ \E passes \in BOOLEAN : Judge(passes)

Next == Retrieval \/ Answering \/ \E c \in Chunks : Withdraw(c)

Spec == Init /\ [][Next]_vars
-----------------------------------------------------------------------------
(* An answer given as verified rests on evidence, all of it of departments   *)
(* of the user and each found in force after the answer was written, what    *)
(* was remembered and what was found alike; if a model wrote it, the judge   *)
(* passed this very draft, no earlier one; and no deadline that passed stands *)
(* for an approval.  No model is told anything without the user's consent,   *)
(* and none is given a document as evidence that is not approved for it.     *)
(* The memory context is told whatever documents it quotes: the approval     *)
(* covers evidence only (docs/PRODUCT_MANUAL.md:67).                         *)
PassedIsGrounded ==
  /\ stage = "passed" =>
       /\ chunks # {} /\ checked = chunks
       /\ \A c \in chunks : DeptOf[c] \in allowed
       /\ draft.by \in Written => draft.number \in judged
  /\ sent \cup told # {} => opted
  /\ sent \subseteq Approved
=============================================================================
