------------------------------- MODULE Tickets -------------------------------
(***************************************************************************)
(* The ticket outbox of one instance (jinshu/operations.py): a ticket is    *)
(* drafted once for its text, saved, and sent by any number of requests,    *)
(* one after the other.  What is saved is what a restart finds.            *)
(***************************************************************************)
EXTENDS Naturals

CONSTANTS
  Requests,
  MaxSent,  \* bound of the model
  None

VARIABLES
  ticket,  \* the row in memory: "none", "pending_submission" or "submitted"
  saved,   \* the same in the file
  lock,    \* the request that has the lock, or None
  stage,   \* of each request: None, "wait", "call" or "answer"
  sent     \* how often the service took the ticket

vars == <<ticket, saved, lock, stage, sent>>

Init ==
  /\ ticket = "none"
  /\ saved = "none"
  /\ lock = None
  /\ stage = [r \in Requests |-> None]
  /\ sent = 0

Turn(r, s) == stage' = [stage EXCEPT ![r] = s]

\* The draft of the same text is found or made; one who retries found it.
Ask(r) ==
  /\ stage[r] = None
  /\ ticket' = IF ticket = "none" THEN "pending_submission" ELSE ticket
  /\ saved' = IF ticket = "none" THEN ticket' ELSE saved
  /\ Turn(r, "wait")
  /\ UNCHANGED <<lock, sent>>

\* Mutant: the ticket is looked at before the lock is asked for.
BeginUnlooked(r) ==
  /\ stage[r] = "wait"
  /\ lock = None
  /\ Turn(r, "call")
  /\ lock' = r
  /\ UNCHANGED <<ticket, saved, sent>>

Begin(r) ==
  /\ stage[r] = "wait"
  /\ lock = None
  /\ IF ticket = "submitted"
     THEN /\ Turn(r, None)
          /\ UNCHANGED lock
     ELSE /\ Turn(r, "call")
          /\ lock' = r
  /\ UNCHANGED <<ticket, saved, sent>>

\* The service takes the ticket; the answer is on its way.
Take(r) ==
  /\ stage[r] = "call"
  /\ sent < MaxSent
  /\ sent' = sent + 1
  /\ Turn(r, "answer")
  /\ UNCHANGED <<ticket, saved, lock>>

End(r, status) ==
  /\ ticket' = status
  /\ saved' = status
  /\ lock' = None
  /\ Turn(r, None)
  /\ UNCHANGED sent

Receipt(r) == stage[r] = "answer" /\ End(r, "submitted")

\* The call fails or times out, before or after the service took the ticket.
Fail(r) == stage[r] \in {"call", "answer"} /\ End(r, "pending_submission")

Restart ==
  /\ ticket' = saved
  /\ lock' = None
  /\ stage' = [r \in Requests |-> None]
  /\ UNCHANGED <<saved, sent>>

Next ==
  \/ \E r \in Requests : Ask(r) \/ Begin(r) \/ Take(r) \/ Receipt(r) \/ Fail(r)
  \/ Restart

Spec == Init /\ [][Next]_vars
-----------------------------------------------------------------------------
(* Once a receipt was saved the ticket is not sent again, whoever retries,   *)
(* drafts the same text, or restarts the instance.                          *)
ReceiptEnds == [][sent' # sent => "submitted" \notin {ticket, saved}]_vars
=============================================================================
