----------------------------- MODULE UnifiedApp -----------------------------
(***************************************************************************)
(* The entry of the complete server (unified/app.py, unified/runtime.py):   *)
(* the runtime a process starts once, at its first request; the login and   *)
(* its limit; the accounts made with the setup token; and the lease under   *)
(* which one request at a time works off a batch of jobs.  Requests may be  *)
(* abandoned by their client, instances may die, services may be down.      *)
(***************************************************************************)
EXTENDS Integers

CONSTANTS
  Requests,
  Names,       \* user names
  Limit,       \* attempts per window: 10 with Redis, 5 in memory
  MaxGuesses,  \* bound on the passwords compared in a window;
               \* a refused attempt counts on no further than Limit + 2
  None

VARIABLES
  \* one process
  serving,     \* manager.runtime: the request that started it, or None
  open,        \* runtimes started and not closed
  holder,      \* of manager.lock
  cooling,     \* now < retry_after
  ready,       \* no configuration is missing
  get,         \* of each request: [at, got]
  \* one user name at the login
  profile,     \* "services" or "offline"
  counted,     \* the counter in Redis, or the failures in memory
  compared,    \* passwords compared since the counter was last reset
  login,       \* of each request: where it is
  \* the users collection
  users,       \* of each name: the request that made the account, or None
  setup,       \* of each request: [at, name]
  \* the lease in Redis
  lease,
  job          \* of each request: where it is

startup == <<serving, open, holder, cooling, ready, get>>
entrance == <<profile, counted, compared, login>>
accounts == <<users, setup>>
batch == <<lease, job>>
vars == <<startup, entrance, accounts, batch>>

Init ==
  /\ serving = None /\ open = {} /\ holder = None /\ cooling = FALSE
  /\ ready \in BOOLEAN
  /\ get = [r \in Requests |-> [at |-> "new", got |-> None]]
  /\ profile \in {"services", "offline"}
  /\ counted = 0 /\ compared = 0
  /\ login = [r \in Requests |-> "new"]
  /\ users = [n \in Names |-> None]
  /\ setup = [r \in Requests |-> [at |-> "new", name |-> None]]
  /\ lease = None
  /\ job = [r \in Requests |-> "new"]
-----------------------------------------------------------------------------
(* RuntimeManager.get(): without the lock, then again with it.              *)
Moved(r, to) == get' = [get EXCEPT ![r].at = to]
Served(r) == get' = [get EXCEPT ![r] = [at |-> "served", got |-> serving]]

\* guard(): what carries no signed token starts nothing.
Enter(r, signed) ==
  /\ get[r].at = "new"
  /\ \/ ~signed /\ Moved(r, "refused")
     \/ signed /\ serving # None /\ Served(r)
     \/ signed /\ serving = None /\ ~ready /\ Moved(r, "refused")
     \/ signed /\ serving = None /\ ready /\ Moved(r, "waiting")
  /\ UNCHANGED <<serving, open, holder, cooling, ready>>

\* Mutant: what another started while the request waited is not looked at.
StartedHereOnly == FALSE

\* The second look, with the lock held.
StartedMeanwhile == serving # None

\* Holding the lock: served, told to come back, or the one that starts.
Begin(r) ==
  /\ get[r].at = "waiting" /\ holder = None
  /\ \/ StartedMeanwhile /\ Served(r) /\ UNCHANGED <<open, holder>>
     \/ ~StartedMeanwhile /\ cooling /\ Moved(r, "refused") /\ UNCHANGED <<open, holder>>
     \/ /\ ~StartedMeanwhile /\ cooling = FALSE
        /\ Moved(r, "starting") /\ open' = open \cup {r} /\ holder' = r
  /\ UNCHANGED <<serving, cooling, ready>>

Start(r) ==
  /\ get[r].at = "starting"
  /\ get' = [get EXCEPT ![r] = [at |-> "served", got |-> r]]
  /\ serving' = r /\ holder' = None
  /\ UNCHANGED <<open, cooling, ready>>

\* A service is down or the 35 s are over; what was begun is closed, if that
\* does not fail or take 3 s.
FailToStart(r) ==
  /\ get[r].at = "starting"
  /\ Moved(r, "refused")
  /\ open' \in {open, open \ {r}}
  /\ cooling' = TRUE /\ holder' = None
  /\ UNCHANGED <<serving, ready>>

\* The client is gone.  A cancellation is no Exception: nothing is closed.
Abandon(r) ==
  /\ get[r].at \in {"waiting", "starting"}
  /\ Moved(r, "gone")
  /\ holder' = IF holder = r THEN None ELSE holder
  /\ UNCHANGED <<serving, open, cooling, ready>>

CoolDown ==
  /\ cooling /\ cooling' = FALSE
  /\ UNCHANGED <<serving, open, holder, ready, get>>
-----------------------------------------------------------------------------
(* login() of unified/app.py counts the attempt in Redis before it compares *)
(* the password; login() of jinshu/api.py looks at the failures in memory,   *)
(* compares, and counts the attempt once it failed.                         *)

\* Mutant: an attempt is counted once it failed.
CountedAfter(n) == n

\* INCR, whose answer counts this attempt too.
CountedFirst(n) == n + 1

Attempt(r) ==
  /\ login[r] = "new" /\ compared < MaxGuesses /\ counted <= Limit + 1
  /\ LET now == IF profile = "services" THEN CountedFirst(counted) ELSE counted
         within == IF profile = "services" THEN now <= Limit ELSE now < Limit
     IN  /\ counted' = now
         /\ login' = [login EXCEPT ![r] = IF within THEN "comparing" ELSE "limited"]
         /\ compared' = IF within THEN compared + 1 ELSE compared
  /\ UNCHANGED profile

Deny(r) ==
  /\ login[r] = "comparing"
  /\ login' = [login EXCEPT ![r] = "denied"]
  /\ counted' = IF profile = "offline" THEN counted + 1 ELSE counted
  /\ UNCHANGED <<profile, compared>>

\* The right password clears the counter.
Admit(r) ==
  /\ login[r] = "comparing"
  /\ login' = [login EXCEPT ![r] = "in"]
  /\ counted' = 0 /\ compared' = 0
  /\ UNCHANGED profile

Again(r) ==
  /\ login[r] \in {"denied", "limited", "in"}
  /\ login' = [login EXCEPT ![r] = "new"]
  /\ UNCHANGED <<profile, counted, compared>>

\* The key lives for 300 s from its first attempt.
WindowEnds ==
  /\ profile = "services" /\ counted > 0
  /\ counted' = 0 /\ compared' = 0
  /\ UNCHANGED <<profile, login>>

\* In memory each failure is forgotten 300 s after it.
FailureFades ==
  /\ profile = "offline" /\ counted > 0
  /\ counted' = counted - 1
  /\ UNCHANGED <<profile, compared, login>>
-----------------------------------------------------------------------------
(* setup(): looked up, then inserted under the unique key.                  *)
Register(r, n, authorized) ==
  /\ setup[r].at = "new"
  /\ setup' = [setup EXCEPT ![r] =
       [at |-> IF authorized /\ users[n] = None THEN "inserting" ELSE "refused",
        name |-> n]]
  /\ UNCHANGED users

\* Mutant: the account is written over the one there is.
Upserted(n) == TRUE

\* insert_one raises DuplicateKeyError otherwise.
Inserted(n) == users[n] = None

Create(r) ==
  /\ setup[r].at = "inserting"
  /\ LET n == setup[r].name
     IN  IF Inserted(n)
         THEN /\ users' = [users EXCEPT ![n] = r]
              /\ setup' = [setup EXCEPT ![r].at = "created"]
         ELSE /\ setup' = [setup EXCEPT ![r].at = "refused"]
              /\ UNCHANGED users
-----------------------------------------------------------------------------
(* process_jobs(): SET NX EX 240, 180 s of work, and the lease given back.   *)
Acquire(r) ==
  /\ job[r] = "new"
  /\ job' = [job EXCEPT ![r] = IF lease = None THEN "working" ELSE "refused"]
  /\ lease' = IF lease = None THEN r ELSE lease

\* Mutant: the lease is deleted, whoever has it.
DeletedBy(r) == None

\* The script that compares before it deletes.
LeftBy(r) == IF lease = r THEN None ELSE lease

\* The batch is done, failed, or its time is over.
Release(r) ==
  /\ job[r] \in {"working", "late"}
  /\ job' = [job EXCEPT ![r] = "done"]
  /\ lease' = LeftBy(r)

Die(r) ==
  /\ job[r] \in {"working", "late"}
  /\ job' = [job EXCEPT ![r] = "dead"]
  /\ UNCHANGED lease

\* Only an instance that stood still for a minute is still at work then.
LeaseExpires ==
  /\ lease # None /\ lease' = None
  /\ job' = [job EXCEPT ![lease] = IF @ = "working" THEN "late" ELSE @]

Startup ==
  \/ \E r \in Requests : \/ \E signed \in BOOLEAN : Enter(r, signed)
                         \/ Begin(r) \/ Start(r) \/ FailToStart(r) \/ Abandon(r)
  \/ CoolDown
Entrance ==
  \/ \E r \in Requests : Attempt(r) \/ Deny(r) \/ Admit(r) \/ Again(r)
  \/ WindowEnds \/ FailureFades
Accounts ==
  \E r \in Requests : \/ \E n \in Names, authorized \in BOOLEAN : Register(r, n, authorized)
                      \/ Create(r)
Batch == (\E r \in Requests : Acquire(r) \/ Release(r) \/ Die(r)) \/ LeaseExpires

Next ==
  \/ Startup /\ UNCHANGED <<entrance, accounts, batch>>
  \/ Entrance /\ UNCHANGED <<startup, accounts, batch>>
  \/ Accounts /\ UNCHANGED <<startup, entrance, batch>>
  \/ Batch /\ UNCHANGED <<startup, entrance, accounts>>

Spec == Init /\ [][Next]_vars
-----------------------------------------------------------------------------
OneRuntime ==
  /\ \A r \in Requests : get[r].at = "served" => get[r].got = serving /\ serving \in open
  /\ \A q, r \in Requests : get[q].at = "starting" /\ get[r].at = "starting" => q = r

AttemptsAreLimited == profile = "services" => compared <= Limit

AccountsStand ==
  \A r \in Requests : setup[r].at = "created" => users[setup[r].name] = r

OneWorker == \A q, r \in Requests : job[q] = "working" /\ job[r] = "working" => q = r

(* However requests meet: all are served by one runtime, which is open; with *)
(* Redis no more than ten passwords are compared between two resets of the  *)
(* counter; an account once announced is not written over; and no two       *)
(* requests work off jobs at once unless one outlived its lease.            *)
EntryIsOrderly == OneRuntime /\ AttemptsAreLimited /\ AccountsStand /\ OneWorker
=============================================================================
