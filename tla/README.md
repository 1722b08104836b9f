# A verification of the Jinshu fintech agent

The repository holds an agent for the middle and back office of a securities
firm. `core/` is one FastAPI application with a fact store, deterministic tools,
document libraries, reviewed workflows and a chat. Behind it is an older
enterprise service with MongoDB and Redis: an engine for the knowledge of
departments (`engine/`), a financial runtime on top of it (`jinshu/`), and the
server that puts them together (`unified/`). `lite/` is a workbench that is a
static page. Several copies of a server may serve at once (serverless functions
or pods); what they share is what they store.

This project models the parts in which state outlives a step, checks the models
with TLC on small instances, and proves their main properties with TLAPS for
every value of their constants. Paths are relative to `src/`.

A module models one component: its state, one action per operation, handler or
step between two waits, and at its end the properties, each with a comment that
says what it means for the code. The `MC` modules put components together and
give them instances; `...Proofs` modules hold the theorems. A definition whose
comment begins with `Mutant:` is not part of any specification: it is a
plausible mistake in the definition after it, kept to show that the properties
notice it.

| Part of the system | Modules | Checked in | Proofs |
|---|---|---|---|
| checkpointed workflows (`core/workflows.py`) | `Workflow`, its promise `ReviewedTask`, the reviewer's page `ReviewDesk` | `MCWorkflow` | `WorkflowProofs` |
| governed workspace (`core/governance.py`, `core/workspace.py`) | `Workspace` | `MCGovernance` | `WorkspaceProofs` |
| fact store (`core/store.py`, `core/mongo_pool.py`) | `FactStore`, its promise `AtomicStore` | `MCServices` | `FactStoreProofs` |
| task service, server (`unified/`) | `TaskService`, `UnifiedApp` | `MCServices` | `ServicesProofs` |
| job queues (`engine/.../job_queue.py`, `jinshu/queue.py`) | `JobQueue` | `MCServices` | `ServicesProofs` (safety) |
| ticket outbox (`jinshu/operations.py`) | `Tickets` | `MCServices` | `ServicesProofs` |
| private, shared, local library (`core/*_library.py`) | `PrivateLibrary`, `ReferenceLibrary`, `LocalFolder`, `ChunkedUpload` | `MCLibraries` | `LibrariesProofs` |
| chat and its budget (`core/app.py`, `core/security.py`) | `Chat` | `MCLibraries` | `LibrariesProofs` |
| search of pages and documents (`core/rag.py`, `core/retrieval_query.py`) | `Retrieval` | `MCLibraries` | TLC only |
| static workbench (`lite/web/`) | `LitePage` | `MCLibraries` | `LibrariesProofs` |
| shared publisher (`jinshu/service_ops.py`, `jinshu/document_service.py`) | `SharedPublisher` | `MCEngine` | `SharedPublisherProofs` |
| roll-out and recovery ledger (`jinshu/loop.py`, `skills.py`, `operations.py`) | `Rollout` | `MCEngine` | `EngineProofs` |
| engine backend (`engine/backend/app/`) | `ReviewEngine`, `Ingest`, `Relations`, `EngineLoop`, `Orchestrator` | `MCEngine` | `EngineProofs` |
| memory and sessions (`engine/.../memory`, `jinshu/memory.py`) | `Session`, `Memory` | `MCAssistant` | `AssistantProofs` |
| financial runtime (`jinshu/runtime.py`, `agents.py`, `retrieval.py`) | `Pipeline`, `Staging` | `MCAssistant` | `AssistantProofs` |
| agent service (`engine/services/pi-agent`) | `PiAgent` | `MCAssistant` | `AssistantProofs` |
| chunking and keyword index (`engine/.../pipeline`, `retrieval`) | `Chunking`, `KeywordIndex` | `MCAssistant` | `AssistantProofs` (`KeywordIndex`) |
| model calls and gateway (`core/provider.py`, `engine/.../llm`, `services/model-gateway`) | `ModelCalls` | `MCAssistant` | TLC only |

## 1. Inventory

For each component: what it keeps, what changes it, what is hard about it, and
what makes it correct.

### Checkpointed workflows

*State.* Rows `workflow_runs` of the fact store: input snapshot and its hash,
code hash, revision, status, a graph of four or five nodes (validate, one or two
tools, verify, report) with key, status, attempts and result each, a lease, the
quality verdict and the approval.
*Operations.* `create`, `edit`, `delete`; `advance`, one request that claims a
batch of at most two ready nodes (`claim`), computes each in a thread, saves
each result (`execute_node`/`finish`) and settles the batch (`settle`);
`review`; `export`. All but the computing are `Store.mutate`.
*Hard.* Several requests on one run; requests that die between any two
mutations, time out, or lose the answer of the store; leases that run out while
a thread still computes; edits that reuse old results; several versions of the
code during a deployment.
*Correct when* a saved result is what the node yields for the current input and
code; nothing is saved by a batch that was overtaken; a saved result is neither
lost nor computed again within a revision; what is exported was approved by
somebody else for exactly this content; a run that is pressed on gets somewhere.

### Fact store

*State.* One value with a version: a private blob (ETag), a MongoDB document
(revision number) or a row of SQLite; an `asyncio.Lock` per process.
*Operations.* `mutate` (lock; read, apply, conditional write, five tries; or one
`BEGIN IMMEDIATE` transaction in a thread), `read`, `initial`.
*Hard.* Conflicts of processes, cancelled callers whose thread or request lives
on, lost answers, processes that die, read-only processes.
*Correct when* mutations are atomic, none is lost or applied twice, callers are
told the truth, the lock is given back on every path.

### Governed workspace

*State.* In the fact store: documents with topic, version, dates and status;
conversations with revision and turns; feedback; candidate skills with replay,
rollout and reviewer.
*Operations.* Submit, publish or reject a document; prepare and save an answer
around the call of the model; delete a conversation; give feedback; propose,
replay, canary, promote, roll back a candidate; the guardrail of feedback.
*Hard.* The call of the model lies between the read of sources, turns and policy
and the save of the answer; deletion races with it; versions are approved in any
order and expire; a replay is stale when its evidence goes.
*Correct when* one version of a topic is in force and only newer ones replace
it; an answer cites what is in force when it is saved; feedback goes with its
answer; only a reviewed candidate whose evidence exists is served, and one that
was stopped stays stopped.

### Libraries and chat

*State.* Upload records and parts, documents per browser, one-use handoff codes;
releases of the reference pack, the head with its expected predecessor, index
parts that expire, an index per process; a local folder with the rows of its
last scan; per process the slots and counts of model calls.
*Operations.* Start, part, finish, remove, hand off, claim; import, publish,
load the index; configure, scan, search, verify; ask, answer, check again; take
and release a slot.
*Hard.* Two finishes of one upload, the last free place, a claim made twice; two
imports on one head, an index saved by two processes at once; files rewritten
while they are scanned; sources that go while the model answers.
*Correct when* a document belongs to one browser, the caps hold, a code moves a
library once; each head follows the one its import was started on and its index
is whole; what is found and cited is what is there when the answer is given; a
slot stands for a call.

### Task service and server

*State.* Task rows with revision and status; the one runtime of a process; login
counters in Redis; accounts; the lease of a batch.
*Operations.* create, edit, run (two compare-and-swaps around a thread),
approve, export (read, render, read again); the first request starts the
runtime; login, setup; process a batch of jobs.
*Hard.* Edits during run or export; a start that is abandoned or fails while
others wait; a lease that is outlived.
*Correct when* a file shows the confirmed result of the current input; one open
runtime serves all; passwords compared are bounded; accounts are not written
over; one request works off jobs at a time.

### Job queues and tickets

*State.* Job rows, a Redis stream with a consumer group; two JSON files of one
process (recovery ledger, tickets).
*Operations.* enqueue, next_jobs (with reclaim after 120 s idle and three
attempts), finish, update_progress; draft, submit.
*Hard.* A crash between row and stream; two workers on one job; a receipt that
is late.
*Correct when* a published job is acknowledged at last, and only after it ended;
a ticket with a receipt is not sent again.

### Publication, roll-out and recovery

*State.* MongoDB rows: documents, `document_heads`, `publish_leases` (45 s),
`corpus_revisions`, `strategy_controls`; per process an index per department
with the revision it was built for, and the local ledger of frozen families.
*Operations.* `stage_file`; `review_and_publish`; the withdrawal
`POST /api/documents/{did}/archive`; `RevisionBM25.search`; propose, approve,
promote, monitor, roll back; `refresh`, `rollback`, `resume_shared`.
*Hard.* No transaction spans two rows. The lease may run out under its holder;
requests fail with or without having taken effect; the compensation of a failed
swap; the index rebuilt while a publisher works; the remote half of a rollback.
*Correct when* the head of a topic only advances, losers of a race take back what
they made active, what was withdrawn stays out, an index that counts as fresh is
complete; a frozen family stays frozen until the remote confirms.

### Engine backend

*State.* Rows written whole: departments with phase and statistics, documents,
chunks, relations, strategies, rules, feedback; vectors in a shared store.
*Operations.* Orders of test questions and their judgement; upload, ingestion,
comparison, activation; the cycle observe, mine, register, activate, replace,
take back; route, ask departments, generate, verify, rewrite, merge.
*Hard.* Read-modify-write of whole rows by submissions, cycles, requests and
workers at once; workers that die; departments that answer late.
*Correct when* people leave the loop only on evidence; a title that was answered
stays answered and contradicting documents are found; strategies give way only
to ones in force; feedback is consumed only by what saw it; each department
asked is accounted for, by words that passed a verifier.

### Financial runtime, memory, agents, models

*State.* Rows of sessions (working memory, numbered events, summary, traces),
memories of users and of the organization; the draft and evidence of one
question; runs of the agent service; the queue of the model gateway.
*Operations.* A turn, the deletion of a session; publish, archive, remember,
forget, recall; search, hydrate, draft, verify, rewrite, each under a deadline;
run an agent with a fallback; call a model.
*Hard.* Every operation is several requests to a store; deadlines cut steps
short; callers give up on what goes on.
*Correct when* a session remembers each turn once and none after its deletion;
withdrawn memories are not recalled; an answer called verified is the draft that
was judged, on evidence in force; a late run leaves nothing behind; results
reach the texts they are of.

### How the components interact

`workflows`, `workspace`, `governance` and the libraries call `Store.mutate` with
a function; each such call is atomic, which is what `FactStore` shows and why the
other modules make a mutation one action. `Chat` asks the libraries before the
model and again before the answer is returned. `unified` starts the runtime of
`jinshu`, forwards to it, and calls the same tools as the workflows. `jinshu` is
built on the engine: its publisher, loop, agents, memory and index replace or
wrap those of the engine. Both share MongoDB and Redis between processes and
have no mutation that spans rows, so their modules make each read or write of a
row a step. The backend and the agent service call each other.

## 2. The models

What each module leaves out is said with it; `PROJECT.json` maps every
definition to its lines.

*Conventions.* A hash or fingerprint is the record of what goes into it. A text
is told apart by what it was made from. Where the code awaits between a read and
a write, the read and the write are two actions and the row read is kept by the
actor; where it does not, they are one. A row that is written back whole is
modelled as such, stale fields included. A request that may die anywhere simply
takes no further step, unless its end changes something.

### Workflow, ReviewedTask, ReviewDesk

`runs` is the map of rows, by the key `create` derives from browser, account and
request identifier; `batch` is what each advance request in progress holds.

| Code | Actions |
|---|---|
| `create`, `edit`, `delete`, `review` | `Create`, `Edit`, `Delete`, `Review` |
| `claim`: settle from checkpoints, nothing ready, a batch | `ClaimSettles` / `ClaimBlocks`, `ClaimStalls`, `ClaimBatch` |
| `execute_node` with `finish` | `FinishNode` (success or failure, answered or not), `DropResult` (fenced off, timed out) |
| `settle` | `Settle`; `GiveUp` when a node raised |
| the process dies; the clock | `Crash`; `Tick` |
| `export` | `Exportable`, a state predicate: it changes nothing |

A claim that crashes after its mutation leaves a lease that runs out; the next
claim returns the running nodes to pending. A result is a record of the node, the
code and what it was computed from, so that a stale one is told from a fresh one;
`Grade` says what the hard checks make of a datum. `ReviewedTask` is what users
are promised: a draft is presented as THE report of its input under its code,
only if it passes the hard checks, and somebody else decides once. `KeepsPromise`
says that `Workflow` implements it. `ReviewDesk` adds the pages reviewers have
open.

### FactStore, AtomicStore

`stored` is the row (version and the sequence of mutations it went through),
`line` the lock of each process, `call` the coroutine of each caller, `work`
what a thread or the remote service was last asked to do. For a remote store:
`Write` (send), `Serve` (the service compares and writes), then `Return`,
`Stale` (try again) or `NoAnswer`, which leaves the write under way. For SQLite:
`StartThread`, `Begin`, `Commit` / `Rollback`, `Busy`, `Return`. `Cancel` frees
the lock while the thread goes on; `Die` kills a process. Blob and MongoDB are
one kind, for both write on condition of the version that was read. `AtomicStore`
is the promise: mutations one after another, and true answers.

### Workspace

The four tables, the date (`NextDay`), and for each chat request where it is and
what it read (`context`). `Prepare` reads sources, turns, revision and policy;
`SaveAnswer` runs the checks of `save_answer` again and appends; `Abandon` is
every other end. `Forget` deletes a conversation with its feedback: of the
feedback, that of `Others` stays, in the order it was in (`InOrder`). `Guarded` is
the look at the metrics every feedback takes. `MayFind` is what the search may
return, `Bucket` the hash that assigns owners to a rollout, both arbitrary. Ten
points of resolved share are compared as integers by cross-multiplication.

### The libraries and chat

`PrivateLibrary` has the requests of the chunked protocol (`ChunkedUpload`: a part
read before it is written), the record an upload was announced with, the owner of
each document and what is stored of it; `Begin`, `Finish`, `Remove`, handoff and
`Claim` are one mutation each. `ReferenceLibrary` is the import and the swap of
the head, and the servers that load an index from memory, snapshot or archive and
save what they rebuilt part by part. `LocalFolder` scans file by file
while other programs write; a stamp is size and time, and files rewritten within
the grain of the clock are left out. `Chat` has the four kinds of source as
versions that do not come back, the order of a request, and the budget: what of a client's queue is kept as the
clients are swept (`Kept`), what is left of it after trimming to the last minute
(`Remembered`), the hour, and the slots. `made` and `modelled` are histories of
all calls, so that a window may begin anywhere and not where a queue does. `Retrieval` is pure: what a search asks, the
pages of a pack with the footers that repeat, the index built or read back, the
two branches of `rank` and how they are joined. Scores are kept as their order
(in millionths where sums matter); what the page evidence rule does is modelled
for questions of at most three words, and a snapshot altered in a way its own
checks cannot see is left to the checksums of its parts.

### TaskService, UnifiedApp, JobQueue, Tickets

`TaskService`: one row with its revision; a request reads, and stores what it made
of it if the revision is still the one it read; tool and rendering lie between two
such steps. `UnifiedApp` has four independent parts: the start of the runtime
under its lock, the login with the counter of Redis (or of memory), the accounts
and the setup token, the lease of a batch. `JobQueue`: row, stream entry, what
each worker holds; `Idle` lets an entry be reclaimed. It is the queue as `jinshu/`
runs it; the engine's own worker is in `Relations`, the queue without Redis is
left out. `Tickets`: the file, the
copy in memory, the lock, the requests.

### SharedPublisher, Rollout, Staging

`SharedPublisher` is one topic. `review` says where each request is (the names are
those of the steps of `review_and_publish` and `publish`) and what it read;
`lease` is of an owner and live or expired; `Expire` may come at any time, as
nothing bounds how long a publisher takes. `Error` is a request to the database
that fails, `Unanswered` one that takes effect all the same; both go where
`except` and `finally` of the code lead (`Catch`). `ReadRevision` and `Refresh`
are the search. `update_document` writes the row back whole: the decision, which
does not set the status, is two steps; the others set it and are one, as all they
could write back stale is the mark of a withdrawal. `Rollout` is one family of
candidates and the ledgers of the instances, alone (`Offline`) or with the shared
row (`Joined`); a job is a request or an administrator's call with what it read.
`Staging` is the same life of documents in a process that keeps its rows in
memory, where a request runs until it waits for a lock, the vectors or a body.

### ReviewEngine, Ingest, Relations, EngineLoop, Orchestrator

`ReviewEngine`: the department row, read and written whole three times in a
submission. `Ingest`: versions of one title, the steps of `Indexer.ingest` with
their compensation, workers that die, administrators who change a status.
`Relations`: the way of an upload from its job to its comparison with the others.
Redis hands each job to one worker; a document is one chunk; what is near and what
the model calls a conflict are constants; a search that was cut off by its limits
or failed marks the document (`unsure`). `EngineLoop`: strategies under one name,
feedback, rules and hooks alike; the lines a cycle appends to the rubric of the
seed skill are left out. A rule is the text that feedback names (`RuleOf`), and a
cycle registers each text once, for the department of one who named it, and no
more than `MaxSuggestions` (fifty in the code) of them; it then consumes all it
observed. `CyclesAccount` therefore says that consumed feedback has its rule in
place or was consumed by a cycle that registered as many as it may.
`Orchestrator`: routing by caller, words, model and hooks; the hub and the agents
of departments as the same kind of worker; the gathering, the fallback that stands
for all that failed, and the merge. Departments are sets, where the code keeps
lists and removes no duplicates: a department named twice is asked twice, and that
is not covered.

### Session, Memory, Pipeline, PiAgent, ModelCalls, KeywordIndex, Chunking

`Session`: every read and write of a turn is a step, as is every step of
`clear_session`; of the working memory only its messages are kept, without the cut
at the last ten. `Memory`: rows of memories written whole by publication,
archiving, `_mark_stale` and the counting of uses, next to the readers that build
a context; relevance and scopes are left out. `Pipeline`: stages of one question
with the deadline and the fallback of each; the sources of memories, looked at
before the search and merged before what it found; and what leaves for a model, as
evidence (`sent`) and with the memory context of the intent, the rewrite and the
answer (`told`). Only the first asks whether the documents are approved; the
second asks for the user's consent alone, whatever documents a memory quotes.
`PiAgent`: runs that outlive the request that gave up on them, the loop's saved
strategies, the answer of the service's own. `ModelCalls`: the environment and the
endpoint it stands for; batches, retries and order of results; the gateway's one
place and its queue. `KeywordIndex`: the statistics corrected chunk by chunk, the
vectors beside it, and the search over both. `Chunking`: the four ways a document
is cut; a block has a kind, a length and places it may be cut at. The engine and
the corpus tool take a table as text and cut it inside its rows; the financial
runtime and the workspace cut it by rows, and the runtime once more under its
header. The page of a piece is that of the first text of its section or, in
the runtime, since the last table; tables there, and the pieces of the corpus tool,
have their own. Only the parser of the runtime finds tables in a PDF.

## 3. The runs

Components that share no state are checked in one run: a behavior has a `focus`,
chosen at its start, and is of one component; the others stay as they began.

| Run | What it shows | Instance |
|---|---|---|
| `workflow_review` | `CheckpointsSound`, `ReviewableIsComplete`, `ExportIsReviewed`, `CheckpointsKept`, and the refinement `KeepsPromise` | two requests on the workflow of two parallel tools with an edit that changes only the synthetic flag; an author, the same account logged in as reviewer elsewhere and a reviewer on the issuance, two versions of the code |
| `workflow_liveness` | `AdvanceConverges` under fairness, `LiveBatchIsExclusive` | two requests, two attempts, inputs that pass or fail the hard checks |
| `workspace` | `NewestVersionInForce`, `AnswersCiteCurrent`; `ActiveIsReviewed`, `NoOrphanedTreatment`, `RollbackIsFinal`; `GuardrailActs` | three chat requests of two browsers and three versions of a topic over two days; two candidates and feedback that is sent again or deleted; two browsers in treatment and control |
| `libraries` | `UploadsAreWhole`, `OnlyCodesMove`; `SourcesStand`; `SearchesHold`; `LimitsHold`; `PageIsSound` | two uploads, browsers and files, one code, caps of two and (`tight`) one; two servers and two slices of an index; two folders; two chats over two kinds of source; packs of up to four pages; two clicks, three inputs, two policies |
| `services` | `AnswersAreTrue`, `ConflictMeansProgress`, `CallsEnd`, the refinement `KeepsPromise`; `FilesAreCurrent`; `EntryIsOrderly`; `JobsAreNotLost`; `ReceiptEnds` | four calls of three processes, two tries, for both kinds of store; two requests on a task; two jobs and two workers, one death; three requests at the entry, a limit of two |
| `engine` | `HeadsAdvance`, `ArchivedGaveWay`, `LosersWithdraw`, `IndexIsComplete`; `FreezeHolds`; `PhaseIsEarned`; `TitleStaysAnswered`; `CyclesAccount`; `AnswersAreVerified` | two reviews of two versions in two processes, a search, a withdrawal, a fault; a candidate and two requests; two submissions; three documents of two files and two workers; two contradicting uploads; a cycle next to an approval, two with one feedback, and cycles one after the other that may suggest two rules when four feedback name three; a hub and two departments |
| `assistant` | `MemoryHolds`; `PassedIsGrounded`; `PiIsContained`; `TextsAreFound` | two turns of two users; two readers, notes and documents; three chunks of two departments, one of them not approved and one quoted by the memory context, two rewrites; two runs and a cycle; documents of three blocks, with tables that are all header, under one line and cut inside a row; four chunks; two model calls of three texts; two drafts and three people |
| `stale_confirmation`, `workspace_deletion`, `handed_over`, `publisher_withdrawal`, `unfrozen` | the five disagreements below | the smallest instance that shows each |

`TextsAreFound`, `SourcesStand` and the like are conjunctions: one conjunct
per component of the run, under its focus.

*Bounds, and why they are enough.* Two requests suffice for every race between a
step and what it overtakes, since rows are the only thing requests share; two
attempts make a node be retried and run out; two revisions make an edit overtake
a batch. A lease of one tick is held and then is not. In the fact store four
calls give a process with a queue at its lock and one that competes, and two
tries a call that meets one conflict and one that meets the limit. `MaxDocuments`,
`MaxTotal`, `MaxRounds`, `MaxFeedback`, `MaxSuggestions`, `Limit`, the limits of a minute and an
hour and the like stand for the caps of the code and are reached; `MinUsers`,
`MinCases` and `MinSamples` are 1 or 2 for the code's 5, 3 and more, so that small
samples count. `LastDay`, `LastTick`, `MaxStamp`, `MaxRevision`, `MaxVersion`,
`MaxClaims`, `MaxHeads`, `MaxSent`, `MaxUses`, `MaxArtifacts`, `MaxGuesses`,
`MaxCrashes` and `MaxFaults` bound what the code leaves unbounded; one crash or
fault is placed everywhere, and the proofs have no bound. In the engine run a
cycle of `learning` meets an approval and executions that turn against a strategy
only as a cycle deploys, a cycle of `consuming` meets feedback and another cycle,
cycles of `suggesting` meet more rules than they may register; administrators touch documents in `touching` and three documents meet in
`workers`. These are splits of one instance that would be too large, made in
`MCEngine`; the theorems are about the unsplit components.

Deadlock is not checked in any run: requests, calls, turns and reviews are each
made at most once and a finished instance stops.

*Symmetry.* Actors and values of one kind are interchangeable in the runs
`workflow_review` (`HandlerSymmetry`), `workspace` and `libraries` (`Symmetry`);
no run with a liveness property uses symmetry.
In `MCEngine` and `MCAssistant`, whose components have different actors, what is
interchangeable is ordered instead: the first strategy mined, turn taken, user and
document withdrawn are named ones.

*Fairness.* Safety assumes none. `AdvanceConverges` assumes (`LiveSpec`) that the
clock runs, that a thread ends or is timed out and its request then settles or
raises (`EndNode`, `Settle`, `GiveUp`: asyncio runs ready coroutines, and
`wait_for` bounds the wait), and that somebody keeps pressing advance (`Press`),
an assumption on users: the code has no scheduler of its own. A request may crash
at any point. `CallsEnd` assumes that a call which can proceed does (`Progress`):
requests to the service have timeouts, threads end, and the event loop runs what
is ready. `JobsAreNotLost` assumes that workers ask for jobs again and again (their
loop does), that time passes so that an entry becomes idle, that a worker that
does not die goes on, and, strongly, that a job ends at last however often it
reports progress. Nowhere is a step that fails or conflicts assumed to be fair.
`ReceiptEnds` and the other action properties need no fairness.

## 4. Where the code and what is said of it disagree

* `stale_confirmation`. A verdict carries the revision of the page it was made
  on, and nothing else. A run that is deleted and created again under the same
  request identifier has the same id and starts at revision 1, so that a verdict
  on the old page passes for the new report. The documents say that stale
  confirmations are intercepted. The bundled page draws a new identifier for each
  run; it takes another client.
* `workspace_deletion`. An answer that is being generated while its conversation
  is deleted is saved, and the conversation exists again under its id with that
  turn. The deleted turns do not come back, and no other browser is touched.
* `publisher_withdrawal`. The status of a document is checked when its review
  begins and on a row read before the lease; indexing in between may take three
  minutes. A document withdrawn meanwhile is made active again, although the
  administrator was told that it is no basis of answers any more.
* `handed_over`. The request that finishes an upload may be repeated for an hour.
  Repeated after another browser claimed the document, it writes it back under the
  first owner, who was told that this browser no longer has it.
* `unfrozen`. A rollback freezes the local ledger, then the shared row. If it
  fails in between and the shared row is that of an earlier resumption, the next
  request reads that row over the freeze and uses a candidate.

Noted while modelling, and not stated as properties: of two concurrent reviews of
one document in two processes the second may reset it to `pending_review` after
the first made it the head, and the topic then has no active document; a strategy
that is approved or deployed has no running experiment, so that the rollback of
failed experiments never looks at it (`loop_engine.py:365`); a job taken by a
worker that dies is delivered again only by the queue of `jinshu/`, not by that of
the engine, which reads new entries alone (`job_queue.py:42`); own documents among
the nearest eight can crowd out a document of another department in the search
for conflicts, and one put back in force is not compared anew
(`conflict_detector.py:117`); two reindexes of one document at once count its
chunks twice (`indexer.py:170`); two notes remembered at once under one key both
stay active (`user_semantic.py:37`); two tabs of the workbench overwrite each
other's workspace (`lite/web/app.mjs:17`).

A cycle of the engine that is given more than fifty rules registers fifty and
consumes all the feedback (`loop_engine.py:262`, `:118`), and a rule that two
departments name is registered for the first of them (`loop_engine.py:206`). The
memory context goes to a model under the user's consent alone (`agents.py:23`,
`:42`, `:57`), and may quote an answer drawn from a document not approved; the
manual says as much (`docs/PRODUCT_MANUAL.md:67`). The engine cuts a long table
inside its rows (`chunker.py:112`, `:140`), and notes the page of a section once
(`chunker.py:70`), so that a later piece is cited by an earlier page. Under a
header of one line, as the DOCX parser makes them, the live pieces of a table repeat
its first row (`live_chunker.py:12`); the runtime's upload routes take Markdown and
PDF, whose headers have two. A table of which only the header is
left yields no piece in the financial runtime (`ingestion.py:31`): for a PDF that
is any table of one row (`document_service.py:39`).

## 5. What is proved

The theorems hold for every value of the constants that satisfies the named
assumptions. Those of `Workflow`, `FactStore`, `Workspace` and `SharedPublisher`
are `ASSUME`s that TLC evaluates on its instances. The other proof modules extend
an `MC` module, so that a theorem is about the very definition a run checks; their
theorems have their hypotheses in the statement: that `None` is not a value of the
rows, turns or documents (`NoneIsNoRow`, `NoneIsNoJob` and the like: TLC's is a
model value of its own), that limits are numbers and finite sets finite, that
citations are of uploads, and in `FilesAreApart` that what a runtime starts with
was published one by one. `Staging` and `KeywordIndex` are proved for documents,
topics, versions and terms of any kind, of which the run has one instance.

Each proof has one inductive invariant: the initial states satisfy it, one step
per action keeps it, and it implies the property.

| Theorem | Property | The invariant, and why it is needed |
|---|---|---|
| `WorkflowProofs!Invariance`, `TypeCorrect`, `SoundCheckpoints`, `LeasedWhileRunning`, `CompleteWhenReviewable`, `ReviewedExports`, `CurrentBatches`; `KeepsCheckpoints`, `VerdictsStand`, `BatchesAreExclusive`; `Implements` | `CheckpointsSound`, `ReviewableIsComplete`, `ExportIsReviewed`, `CheckpointsKept`, `LiveBatchIsExclusive`, `KeepsPromise` | keys and results of a row are those of its input and code, a node is done after those it depends on, running nodes have a lease, a run up for review passed; and a batch the fence still lets through agrees with its row, without which a late batch could bring anything |
| `FactStoreProofs!StoreInvariance`, `StoreTypeCorrect`, `TrueAnswers`, `ProgressBehindConflict`, `KeptUpdates`, `StoreImplements` | `AnswersAreTrue`, `ConflictMeansProgress`, `KeepsPromise` | who stands at the lock, which write or thread may still take effect for a call in which state, that a version not newer than the stored one was read with its value, and that a call has seen as many other mutations as it failed tries |
| `WorkspaceProofs!WorkspaceInvariance`, `NewestInForce`, `AnswersInPlace`, `ReviewedWhenActive`, `StoppedForGood`, `CurrentCitations` | `NewestVersionInForce`, `ActiveIsReviewed`, `RollbackIsFinal`, `AnswersCiteCurrent` | what is archived was replaced by something newer (for when the active one expires); what a request remembers is a prefix it may append to only at its revision; which candidates were decided by whom |
| `SharedPublisherProofs!PublisherInvariance`, `PublisherTypeCorrect`, `ArchivedInOrder`, `LosersTakeBack`, `HeadsGrow`, `IndexesComplete` | `ArchivedGaveWay`, `LosersWithdraw`, `HeadsAdvance`, `IndexIsComplete` | the head a review read is older than its document; an active document is the head or some review will take it back; and a document an index lacks is one whose revision has yet to be raised by the review that owes it |
| `ServicesProofs!FilesShowTheTask` | `FilesAreCurrent` | `TasksInv`: a request holds a row that may be confirmed, of the revision it read; what is rendered is the present row or of an older revision |
| `ServicesProofs!EntryStaysOrderly` | `EntryIsOrderly` | `EntryInv`: whoever starts the runtime holds the lock and nobody is served before; an attempt is counted before its password is compared; an account in the making is in the table; whoever works in time has the lease |
| `EngineProofs!PhaseHasEvidence` | `PhaseIsEarned` | `ReviewInv`: statistics that do not bear the phase are there only until the submission that wrote them has compared the two |
| `EngineProofs!FrozenStaysUnused` | `FreezeHolds` | `RolloutInv`: the file of an instance says what its memory says; a job that froze its instance finds a record there; what any job holds to write back passed its replay if it is active |
| `EngineProofs!AskedAreAccounted` | `AnswersAreVerified` | `AgentsInv`: what was said is sound; calls stand for exactly the departments asked; the merged sets divide them |
| `EngineProofs!CyclesKeepAccount` | `CyclesAccount` | `LoopInv`: rows a cycle or a request holds to write back name a successor only if it left "pending", and are themselves not pending; what is about to be registered is reserved to one cycle; and what a cycle has still to register, with the rules there are, covers what it observed or reaches the cap |
| `EngineProofs!TitlesStayAnswered` | `TitleStaysAnswered` | `IngestInv`: there is an order of the ingestions such that a worker archives only what began before its own document, and the last that came to be is found whole; `UploadInv`: of two documents whose comparisons looked at the vectors, the later saw the other |
| `AssistantProofs!MemoryStaysTrue` | `MemoryHolds` | `SessionInv`: numbers of events are given out once per life of the counter; what a turn that was over left is listed by the deletion before it is deleted. `MemoryInv`: what was withdrawn is not live in any row, nor in what a reader that began later holds |
| `AssistantProofs!PassedStaysGrounded` | `PassedIsGrounded` | `AnswerInv`: evidence, remembered or found, is of the user's departments; the draft at hand is by the mode, and what was judged is its number; nothing is told without consent |
| `AssistantProofs!PiStaysContained` | `PiIsContained` | `PiInv`: no stage of the backend gave its run a tool; the draft is the one after the last that was judged and failed |
| `WorkspaceProofs!TreatmentKeepsItsCases`, `GuardrailAlwaysActs` | `NoOrphanedTreatment`, `GuardrailActs` | `ServedInv`: an answer was given under a candidate that exists and stands in one place; a record of feedback is of an answer that is there and bears its policy; a replay that passed has enough of its cases. Deleting a conversation then takes from a candidate the cases it bound, and the step that does stops it |
| `ServicesProofs!ReceiptIsTheEnd` | `ReceiptEnds` | `TicketInv`: whoever has the lock of the outbox holds a ticket without a receipt, in memory and in the file |
| `ServicesProofs!JobsEndBeforeTheirEntry` | the first half of `JobsAreNotLost` | `QueueInv`: a row that says completed was ended; what a worker is about to write on the way leaves the job running, though others took it over; and who is about to acknowledge has a job that was ended |
| `LibrariesProofs!UploadsStayWhole`, `CodesMoveAll` | `UploadsAreWhole`, `OnlyCodesMove` | `UploadsInv`: a row keeps the owner and hash it was announced with, and what a request found out of its upload still holds of it, so that one that goes on late stores the file announced; the caps count what is stored |
| `LibrariesProofs!SourcesAlwaysStand` | `SourcesStand` | `SourcesInv`: an import knows the head it expects and its archive is stored before the swap; parts a load wrote are stored; a row of the folder is not newer than its file; and what a request read is not newer than what the model answered from |
| `LibrariesProofs!LimitsAlwaysHold` | `LimitsHold` | `LimitsInv`: of all calls made, a queue holds the last, those it dropped have left every window that is still open, and a slot is of a call under way |
| `LibrariesProofs!PageStaysSound` | `PageIsSound` | `PageInv`: what a handler awaits for the task, the policy or the answer on display is of the present request, or of one it cannot disturb any more |
| `AssistantProofs!DecisionsStayWhole` | of `TextsAreFound`: `TopicStaysAnswered`, `DecisionIsWhole` | `PapersInv`: what is in force heads its topic and bears the decision of who published it; `ReviewsInv`: a review is by another person than brought the document in, and one is indexed at a time |
| `AssistantProofs!StatisticsStayExact` | of `TextsAreFound`: `Exact` | `IndexInv`: while no document was put there by two requests at once, each correction of the counts is the difference it makes to the set |

Two theorems needed the properties to be said more exactly. An ingestion that is
overtaken may be archived by a later one at any of its steps, so that no single
version stays in force: the invariant orders the ingestions. And that two uploads
which contradict each other are compared holds only if neither search failed or
was cut off by its limits, which the code does at eight nearest chunks; the model
marks these documents, and the property excepts them.

## 6. What is only checked

* Liveness (`AdvanceConverges`, `CallsEnd`, the second half of `JobsAreNotLost`)
  is beyond the prover, and so is `KeepsPromise` of any part that would need it.
* `SearchesHold`: what a search of pages returns is defined by sorting with
  `CHOOSE`, by folds over words and by joining two orders, that is by induction
  over data.
* The rest of `TextsAreFound`: that a document is cut whole (`PiecesAreWhole`, a
  recursive function over blocks), that the search of the keyword index is the
  best of a department (scores are folds, the order a `CHOOSE`), that results of
  models reach their texts (`ResultsAreTheirOwn` sorts answers), and which key
  goes where (`KeysStayHome`: the environments TLC enumerates are all there are).
* Theorems are about the components each for itself; that components which share
  no state do not disturb each other is in the form of the `MC` modules, whose
  steps leave the others' variables as they are.

## 7. What is not modelled

The tools (arithmetic over tables), parsing of files, prompts and wording, pages
other than the reviewer's and the static workbench, login sessions beyond their
limits, audit trails, administrative routes that edit single rows, demo data,
wiring and deployment. `PROJECT.json` lists them with their files.

## 8. What is left

The administrative routes of the engine (`engine/backend/app/api/routes/admin.py`)
and the queue without Redis would be the next components. Of the models here, the
parts of `TextsAreFound` that rest on sorting need lemmas on permutations and
sorted sequences which the library does not have.
