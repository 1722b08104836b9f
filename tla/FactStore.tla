------------------------------ MODULE FactStore ------------------------------
(***************************************************************************)
(* Store.mutate of core/store.py, called by the requests of several        *)
(* processes.  Every process serialises its calls with an asyncio lock.    *)
(* With a remote store ("cas": private blob or MongoDB) a call reads value *)
(* and version, applies its function and writes back on condition of the   *)
(* version, at most MaxTries times.  With SQLite a thread does it in one   *)
(* BEGIN IMMEDIATE transaction.  Requests are cancelled and time out,      *)
(* processes die, and what they sent or started may take effect later.     *)
(*                                                                         *)
(* A value is the sequence of the mutations it has been through.           *)
(***************************************************************************)
EXTENDS Naturals, Sequences

CONSTANTS
  Calls,           \* calls of mutate(), each made at most once
  Processes,
  ProcessOf,       \* the process each call is made in
  ReadOnly,        \* processes with JINSHU_STORE_READ_ONLY set
  Accepts(_, _),   \* Accepts(q, v): the function of q does not raise on v, and
                   \* what it makes of v stays within the bound of 8 MB
  MaxTries         \* 5 in the code

ASSUME CallAssumption == ProcessOf \in [Calls -> Processes]
ASSUME TriesAssumption == MaxTries \in Nat \ {0}

VARIABLES
  kind,     \* "sqlite" or "cas", the same for all processes
  stored,   \* the row of the store; revision 0 stands for no row yet
  line,     \* the lock of each process: its holder, then those who wait
  call,     \* each call: where it is, its tries, the revision it first read
  work      \* what a thread or the service was last asked to do for a call

vars == <<kind, stored, line, call, work>>

\* initial(), the value where there is no row; its first write is an insert
\* that fails on a row, as a replacement fails on another version.
Fresh == [revision |-> 0, value |-> <<>>]

Mutated(row, q) ==
  [revision |-> row.revision + 1, value |-> Append(row.value, q)]

Init ==
  /\ kind \in {"sqlite", "cas"}
  /\ stored = Fresh
  /\ line = [p \in Processes |-> <<>>]
  /\ call = [q \in Calls |-> [pc |-> "new", tries |-> 0, since |-> 0]]
  /\ work = [q \in Calls |-> [status |-> "none", read |-> Fresh]]
-----------------------------------------------------------------------------
(* The caller: the lock, and the end of a call.                            *)

Holds(q) ==
  /\ call[q].pc = "waiting"
  /\ line[ProcessOf[q]] # <<>>
  /\ Head(line[ProcessOf[q]]) = q

Without(q, calls) ==
  IF \E i \in 1..Len(calls) : calls[i] = q
  THEN LET i == CHOOSE i \in 1..Len(calls) : calls[i] = q
       IN  SubSeq(calls, 1, i - 1) \o SubSeq(calls, i + 1, Len(calls))
  ELSE calls

\* Mutant: the lock is not given back when the function raises.
EndKeepingLock(q, pc) ==
  /\ call' = [call EXCEPT ![q].pc = pc]
  /\ line' = [line EXCEPT ![ProcessOf[q]] =
                IF pc = "refused" THEN @ ELSE Without(q, @)]

\* The call ends, and leaves the lock or the line for it.
End(q, pc) ==
  /\ call' = [call EXCEPT ![q].pc = pc]
  /\ line' = [line EXCEPT ![ProcessOf[q]] = Without(q, @)]

Mutate(q) ==
  /\ call[q].pc = "new"
  /\ IF ProcessOf[q] \in ReadOnly
     THEN /\ call' = [call EXCEPT ![q].pc = "refused"]
          /\ UNCHANGED line
     ELSE /\ call' = [call EXCEPT ![q].pc = "waiting"]
          /\ line' = [line EXCEPT ![ProcessOf[q]] = Append(@, q)]
  /\ UNCHANGED <<kind, stored, work>>

\* A client that is gone cancels its request.  A thread or a write under way
\* goes on.
Cancel(q) ==
  /\ call[q].pc \in {"waiting", "trying"}
  /\ End(q, IF call[q].pc = "trying" THEN "unknown" ELSE "failed")
  /\ UNCHANGED <<kind, stored, work>>

\* The process dies with its calls and its threads; SQLite rolls back what
\* they had not committed, while the service may still get what was sent.
Die(p) ==
  LET mine(q) == ProcessOf[q] = p IN
  /\ \E q \in Calls : mine(q) /\ call[q].pc = "trying"
  /\ call' = [q \in Calls |->
       IF mine(q) /\ call[q].pc = "waiting" THEN [call[q] EXCEPT !.pc = "failed"]
       ELSE IF mine(q) /\ call[q].pc = "trying"
       THEN [call[q] EXCEPT !.pc = "unknown"] ELSE call[q]]
  /\ line' = [line EXCEPT ![p] = <<>>]
  /\ work' = [q \in Calls |->
       IF mine(q) /\ work[q].status \in {"queued", "begun"} THEN [work[q] EXCEPT !.status = "none"] ELSE work[q]]
  /\ UNCHANGED <<kind, stored>>
-----------------------------------------------------------------------------
(* The remote store: at most MaxTries conditional writes.                  *)

Tried(q) ==
  call' = [call EXCEPT ![q].pc = "trying", ![q].tries = @ + 1,
             ![q].since = IF call[q].tries = 0 THEN stored.revision ELSE @]

\* Mutant: the row is read once, before the tries.
WriteWhatWasReadFirst(q) ==
  /\ kind = "cas"
  /\ Holds(q)
  /\ Accepts(q, stored.value)
  /\ work' = [work EXCEPT ![q] =
       IF call[q].tries > 0 THEN [@ EXCEPT !.status = "sent"]
       ELSE [status |-> "sent", read |-> stored]]
  /\ Tried(q)
  /\ UNCHANGED <<kind, stored, line>>

\* _read(), the function, and the write sent on condition of the version.
Write(q) ==
  /\ kind = "cas"
  /\ Holds(q)
  /\ Accepts(q, stored.value)
  /\ work' = [work EXCEPT ![q] = [status |-> "sent", read |-> stored]]
  /\ Tried(q)
  /\ UNCHANGED <<kind, stored, line>>

\* Mutant: the row is replaced whatever its version.
ServeUnconditionally(q) ==
  /\ kind = "cas"
  /\ work[q].status = "sent"
  /\ stored' = Mutated(work[q].read, q)
  /\ work' = [work EXCEPT ![q].status = "saved"]
  /\ UNCHANGED <<kind, line, call>>

\* The service handles a conditional write that reached it.
Serve(q) ==
  /\ kind = "cas"
  /\ work[q].status = "sent"
  /\ IF stored.revision = work[q].read.revision
     THEN /\ stored' = Mutated(work[q].read, q)
          /\ work' = [work EXCEPT ![q].status = "saved"]
     ELSE /\ work' = [work EXCEPT ![q].status = "stale"]
          /\ UNCHANGED stored
  /\ UNCHANGED <<kind, line, call>>

\* Mutant: a write without an answer is tried again.
NoAnswerTriesAgain(q) ==
  /\ kind = "cas"
  /\ call[q].pc = "trying"
  /\ call' = [call EXCEPT ![q].pc = "waiting"]
  /\ UNCHANGED <<kind, stored, line, work>>

\* The write times out, or its answer is no answer to the condition.
NoAnswer(q) ==
  /\ kind = "cas"
  /\ call[q].pc = "trying"
  /\ End(q, "unknown")
  /\ UNCHANGED <<kind, stored, work>>

\* The function raises on what was read.
Raise(q) ==
  /\ kind = "cas"
  /\ Holds(q)
  /\ ~Accepts(q, stored.value)
  /\ End(q, "refused")
  /\ UNCHANGED <<kind, stored, work>>

\* The store cannot be read.
Unreadable(q) ==
  /\ kind = "cas"
  /\ Holds(q)
  /\ End(q, "failed")
  /\ UNCHANGED <<kind, stored, work>>

\* Mutant: that the row was not replaced goes unnoticed.
StaleUnnoticed(q) ==
  /\ call[q].pc = "trying"
  /\ work[q].status = "stale"
  /\ End(q, "ok")
  /\ UNCHANGED <<kind, stored, work>>

\* The version had changed: another try, or the end of the tries.
Stale(q) ==
  /\ call[q].pc = "trying"
  /\ work[q].status = "stale"
  /\ IF call[q].tries < MaxTries
     THEN call' = [call EXCEPT ![q].pc = "waiting"] /\ UNCHANGED line
     ELSE End(q, "conflict")
  /\ UNCHANGED <<kind, stored, work>>
-----------------------------------------------------------------------------
(* SQLite: a thread of the process, which survives its caller.             *)

StartThread(q) ==
  /\ kind = "sqlite"
  /\ Holds(q)
  /\ work' = [work EXCEPT ![q].status = "queued"]
  /\ call' = [call EXCEPT ![q].pc = "trying"]
  /\ UNCHANGED <<kind, stored, line>>

Locked == \E q \in Calls : work[q].status = "begun"

\* BEGIN IMMEDIATE, and the row read in the transaction.
Begin(q) ==
  /\ work[q].status = "queued"
  /\ ~Locked
  /\ work' = [work EXCEPT ![q] = [status |-> "begun", read |-> stored]]
  /\ UNCHANGED <<kind, stored, line, call>>

\* The file stays locked for the 10 seconds a connection waits.
Busy(q) ==
  /\ work[q].status = "queued"
  /\ Locked
  /\ work' = [work EXCEPT ![q].status = "failed"]
  /\ UNCHANGED <<kind, stored, line, call>>

\* Leaving `with self._db()` commits, or rolls back when the function raised
\* or the commit found the file locked by readers.
Commit(q) ==
  /\ work[q].status = "begun"
  /\ Accepts(q, work[q].read.value)
  /\ stored' = Mutated(work[q].read, q)
  /\ work' = [work EXCEPT ![q].status = "saved"]
  /\ UNCHANGED <<kind, line, call>>

Rollback(q) ==
  /\ work[q].status = "begun"
  /\ work' = [work EXCEPT ![q].status =
                IF Accepts(q, work[q].read.value) THEN "failed" ELSE "refused"]
  /\ UNCHANGED <<kind, stored, line, call>>
-----------------------------------------------------------------------------
\* The caller gets the answer.
Return(q) ==
  /\ call[q].pc = "trying"
  /\ work[q].status \in {"saved", "refused", "failed"}
  /\ End(q, IF work[q].status = "saved" THEN "ok" ELSE work[q].status)
  /\ UNCHANGED <<kind, stored, work>>

Progress(q) ==
  \/ Write(q) \/ NoAnswer(q) \/ Raise(q) \/ Stale(q)
  \/ StartThread(q) \/ Begin(q) \/ Busy(q) \/ Commit(q) \/ Rollback(q)
  \/ Return(q)

Next ==
  \/ \E q \in Calls : Mutate(q) \/ Progress(q) \/ Serve(q) \/ Unreadable(q)
                      \/ Cancel(q)
  \/ \E p \in Processes : Die(p)

Spec == Init /\ [][Next]_vars

\* Requests to the service time out, threads end and coroutines run on.
FairSpec == Spec /\ \A q \in Calls : WF_vars(Progress(q))
-----------------------------------------------------------------------------
(* Properties.                                                             *)

Values == Seq(Calls)
Rows == [revision : Nat, value : Values]

Works ==
  [status : {"none", "sent", "stale", "queued", "begun", "saved", "refused",
             "failed"},
   read : Rows]

\* The types of the state, with the tries of a call within their bound.
TypeOK ==
  /\ kind \in {"sqlite", "cas"}
  /\ stored \in Rows
  /\ line \in [Processes -> Values]
  /\ call \in [Calls -> [pc : {"new", "waiting", "trying", "ok", "refused",
                               "conflict", "failed", "unknown"},
                         tries : 0..MaxTries, since : Nat]]
  /\ work \in [Calls -> Works]

Applied(q) == \E i \in 1..Len(stored.value) : stored.value[i] = q

\* What a caller was told is true, and stays so whatever of its request is
\* still under way: success means the mutation is in the store, any answer
\* but success and silence that it is not and never will be.
AnswersAreTrue ==
  \A q \in Calls :
    /\ call[q].pc = "ok" => Applied(q)
    /\ call[q].pc \in {"refused", "conflict", "failed"} => ~Applied(q)

\* No mutation that took effect is lost or takes effect twice: the value is
\* only ever extended, by one mutation not yet in it, and the revision counts
\* them.
UpdatesKept ==
  [][stored' # stored =>
       \E q \in Calls : ~Applied(q) /\ stored' = Mutated(stored, q)]_vars

\* A call that gives up for conflicts has not been idle: at least as many
\* other mutations took effect since it first read as it made tries.
ConflictMeansProgress ==
  \A q \in Calls :
    call[q].pc = "conflict" => stored.revision >= call[q].since + MaxTries

\* Every call that asked for the lock ends, whatever other calls do: the lock
\* is given back on every path.
CallsEnd ==
  \A q \in Calls : call[q].pc = "waiting" ~>
    call[q].pc \in {"ok", "refused", "conflict", "failed", "unknown"}

Outcome(q) ==
  CASE call[q].pc \in {"new", "waiting", "trying"} -> "open"
    [] call[q].pc \in {"refused", "conflict", "failed"} -> "no"
    [] OTHER -> call[q].pc

Promise == INSTANCE AtomicStore WITH
  value <- stored.value,
  outcome <- [q \in Calls |-> Outcome(q)]

\* The store is a sequence of atomic mutations for those who use it.
KeepsPromise == Promise!Spec
=============================================================================
