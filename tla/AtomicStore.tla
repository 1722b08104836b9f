----------------------------- MODULE AtomicStore -----------------------------
(***************************************************************************)
(* What Store.mutate (core/store.py) promises those who call it: mutations *)
(* take effect one after another, each on the value the one before left    *)
(* and only if that value accepts it, at most once; a call answered with   *)
(* success has taken effect, one answered with a refusal never does, and   *)
(* one whose answer is lost may or may not, now or later.                  *)
(***************************************************************************)
EXTENDS Naturals, Sequences

CONSTANTS
  Calls,           \* the calls of mutate(), each used once
  Accepts(_, _)    \* Accepts(q, v): the function of call q does not raise on v

VARIABLES
  value,    \* the mutations that took effect, in order
  outcome   \* what each caller knows

storeVars == <<value, outcome>>

Applied(q) == \E i \in 1..Len(value) : value[i] = q

StoreInit == value = <<>> /\ outcome = [q \in Calls |-> "open"]

Apply(q) ==
  /\ outcome[q] \in {"open", "unknown"}
  /\ ~Applied(q)
  /\ Accepts(q, value)
  /\ value' = Append(value, q)
  /\ UNCHANGED outcome

Succeed(q) ==
  /\ outcome[q] = "open"
  /\ Applied(q)
  /\ outcome' = [outcome EXCEPT ![q] = "ok"]
  /\ UNCHANGED value

\* Callers may be refused together, as when their process dies.
Fail(refused, lost) ==
  /\ \A q \in refused : outcome[q] = "open" /\ ~Applied(q)
  /\ \A q \in lost : outcome[q] = "open"
  /\ outcome' = [q \in Calls |-> IF q \in refused THEN "no"
                                 ELSE IF q \in lost THEN "unknown"
                                 ELSE outcome[q]]
  /\ UNCHANGED value

StoreNext ==
  \/ \E q \in Calls : Apply(q) \/ Succeed(q)
  \/ \E refused, lost \in SUBSET Calls : Fail(refused, lost)

Spec == StoreInit /\ [][StoreNext]_storeVars
=============================================================================
