------------------------------ MODULE LockPool ------------------------------
(***************************************************************************)
(* What requests of one server compete for: database connections, the      *)
(* repository locks that live in them, and slots for git processes.        *)
(* lockRepo() keeps one pooled connection, the session that owns the       *)
(* advisory lock, from the first attempt to lock until the request ends.   *)
(* The request's own queries each take a second connection from the same   *)
(* pool, and wait for it without any deadline.  A request that waits for   *)
(* the lock polls on its session and gives up after thirty seconds or when *)
(* its client goes away; a request that waits for a connection does not.   *)
(* A git command takes a slot or is refused; only the hook of a push waits *)
(* for one.  A transfer keeps its slot while git, and the hook git calls,  *)
(* run; transfers have slots of their own to bound their number.           *)
(***************************************************************************)
EXTENDS Integers, FiniteSets

CONSTANTS
  Request,      \* requests in progress at the same time
  Repo,         \* repositories they may lock
  PoolSize,     \* SetMaxOpenConns
  GitSlots,     \* git processes at the same time
  TransferSlots,  \* how many of them may be transfers
  MaxSteps,     \* bound: queries and commands of a request after its first query
  Nobody        \* holder of a free lock

ASSUME FiniteAssumption == IsFiniteSet(Request) /\ IsFiniteSet(Repo)
ASSUME PoolAssumption == PoolSize \in Nat \ {0}
ASSUME SlotAssumption == GitSlots \in Nat /\ TransferSlots \in Nat /\ TransferSlots < GitSlots
ASSUME StepsAssumption == MaxSteps \in Nat
ASSUME NobodyAssumption == Nobody \notin Request

VARIABLES
  pc,         \* pc[r]: where request r is
  target,     \* target[r]: the repository r locks, once it asks for a session
  session,    \* requests that keep a connection for their lock
  busy,       \* requests that use a connection for a query or a transaction
  owner,      \* owner[k]: holder of the advisory lock of repository k
  stale,      \* repositories still locked by an idle connection of the pool
  gitSlots,   \* requests that hold a process slot
  transferSlots,  \* requests that hold a transfer slot
  todo        \* todo[r]: queries and commands r may still want

lockVars == <<owner, stale>>
slotVars == <<gitSlots, transferSlots>>
vars == <<pc, target, session, busy, lockVars, slotVars, todo>>

-----------------------------------------------------------------------------
\* "ask" and "query" are a query outside the lock, "served" is what follows
\* it; "connect" and "wait" are lockRepo(); "hold", "askLocked" and
\* "queryLocked" are the body of a locked route.  "git" and "gitLocked" run a
\* git command; "hook" waits for a slot to run one; "transferAsk",
\* "transferQuery" and "transfer" are gitHTTP() once it has its slots.
Step == {"idle", "ask", "query", "served", "connect", "wait",
         "hold", "askLocked", "queryLocked",
         "git", "gitLocked", "hook", "transferAsk", "transferQuery", "transfer"}

Holding   == {"hold", "askLocked", "queryLocked", "gitLocked"}
Sessions  == {"wait"} \cup Holding
Asking    == {"ask", "askLocked", "transferAsk"}
Querying  == {"query", "queryLocked", "transferQuery"}
Commands  == {"git", "gitLocked"}
Transfers == {"transferAsk", "transferQuery", "transfer"}

Asked    == [ask |-> "query", askLocked |-> "queryLocked", transferAsk |-> "transferQuery"]
Resumed  == [query |-> "served", queryLocked |-> "hold", transferQuery |-> "transfer"]

TypeOK ==
  /\ pc \in [Request -> Step]
  /\ target \in [Request -> Repo]
  /\ session \subseteq Request
  /\ busy \subseteq Request
  /\ owner \in [Repo -> Request \cup {Nobody}]
  /\ stale \subseteq Repo
  /\ gitSlots \subseteq Request
  /\ transferSlots \subseteq Request
  /\ todo \in [Request -> 0..MaxSteps]

Init ==
  /\ pc = [r \in Request |-> "idle"]
  /\ target \in [Request -> Repo]
  /\ session = {}
  /\ busy = {}
  /\ owner = [k \in Repo |-> Nobody]
  /\ stale = {}
  /\ gitSlots = {}
  /\ transferSlots = {}
  /\ todo = [r \in Request |-> 0]

InUse == Cardinality(session) + Cardinality(busy)
Free  == InUse < PoolSize

SlotFree     == Cardinality(gitSlots) < GitSlots
TransferFree == Cardinality(transferSlots) < TransferSlots

Goto(r, step) == pc' = [pc EXCEPT ![r] = step]

\* The request ends, and what it may still have wanted is forgotten.
End(r) == Goto(r, "idle") /\ todo' = [todo EXCEPT ![r] = 0]

\* A handler has no loop that queries or runs git without end.
Spend(r) == todo[r] > 0 /\ todo' = [todo EXCEPT ![r] = @ - 1]

-----------------------------------------------------------------------------
(* Queries: rows(), exec(), insert() and transactions.                      *)

\* A request arrives and authenticates, which is its first query.
Arrive(r) ==
  /\ pc[r] = "idle"
  /\ Goto(r, "ask")
  /\ todo' = [todo EXCEPT ![r] = MaxSteps]
  /\ UNCHANGED <<target, session, busy, lockVars, slotVars>>

\* The pool hands a free connection to any one of those that wait.
Grant(r) ==
  /\ pc[r] \in Asking /\ Free
  /\ busy' = busy \cup {r}
  /\ Goto(r, Asked[pc[r]])
  /\ UNCHANGED <<target, session, lockVars, slotVars, todo>>

\* The rows are read and closed, whether the query succeeded or not.
Answered(r) ==
  /\ pc[r] \in Querying
  /\ busy' = busy \ {r}
  /\ Goto(r, Resumed[pc[r]])
  /\ UNCHANGED <<target, session, lockVars, slotVars, todo>>

\* One more query of the same request.
AskAgain(r) ==
  /\ pc[r] \in {"served", "hold"}
  /\ Goto(r, IF pc[r] = "served" THEN "ask" ELSE "askLocked")
  /\ Spend(r)
  /\ UNCHANGED <<target, session, busy, lockVars, slotVars>>

\* The request ends without locking anything.
Leave(r) ==
  /\ pc[r] = "served"
  /\ End(r)
  /\ UNCHANGED <<target, session, busy, lockVars, slotVars>>

-----------------------------------------------------------------------------
(* lockRepo().                                                              *)

WantLock(r, k) ==
  /\ pc[r] = "served"
  /\ target' = [target EXCEPT ![r] = k]
  /\ Goto(r, "connect")
  /\ UNCHANGED <<session, busy, lockVars, slotVars, todo>>

Connect(r) ==
  /\ pc[r] = "connect" /\ Free
  /\ session' = session \cup {r}
  /\ Goto(r, "wait")
  /\ UNCHANGED <<target, busy, lockVars, slotVars, todo>>

Acquire(r) ==
  /\ pc[r] = "wait" /\ owner[target[r]] = Nobody
  /\ owner' = [owner EXCEPT ![target[r]] = r]
  /\ Goto(r, "hold")
  /\ UNCHANGED <<target, session, busy, stale, slotVars, todo>>

\* pg_try_advisory_lock, tried every ten milliseconds.
TryLock(r) == target[r] \notin stale /\ Acquire(r)

\* A lock left behind on a connection is granted again to the request that
\* happens to get this connection, and to no other.
TryLockAgain(r) == target[r] \in stale /\ Acquire(r)

\* Mutants of GiveUp: the connection is not closed, and a waiting request has
\* no timeout.
GiveUpLeaks(r) ==
  /\ pc[r] = "wait"
  /\ End(r)
  /\ UNCHANGED <<target, session, busy, lockVars, slotVars>>

GiveUpNever(r) ==
  /\ pc[r] = "wait" /\ owner[target[r]] = r
  /\ session' = session \ {r}
  /\ End(r)
  /\ UNCHANGED <<target, busy, lockVars, slotVars>>

\* Thirty seconds are over, the client has gone, or the attempt failed.
GiveUp(r) ==
  /\ pc[r] = "wait"
  /\ session' = session \ {r}
  /\ End(r)
  /\ UNCHANGED <<target, busy, lockVars, slotVars>>

\* The deferred unlock, after an answer, a fail() or a panic.
Unlock(r) ==
  /\ pc[r] = "hold"
  /\ owner' = [owner EXCEPT ![target[r]] = Nobody]
  /\ session' = session \ {r}
  /\ End(r)
  /\ UNCHANGED <<target, busy, stale, slotVars>>

\* pg_advisory_unlock fails on a connection that is otherwise sound.  The error
\* is ignored: the connection goes back to the pool and keeps the lock.
UnlockFails(r) ==
  /\ pc[r] = "hold"
  /\ owner' = [owner EXCEPT ![target[r]] = Nobody]
  /\ stale' = stale \cup {target[r]}
  /\ session' = session \ {r}
  /\ End(r)
  /\ UNCHANGED <<target, busy, slotVars>>

\* The pool closes a connection that is an hour old, or one idle too many.
Expire(k) ==
  /\ k \in stale /\ owner[k] = Nobody
  /\ stale' = stale \ {k}
  /\ UNCHANGED <<pc, target, session, busy, owner, slotVars, todo>>

-----------------------------------------------------------------------------
(* Git commands and transfers.                                              *)

\* gitReadWaiting() without waiting.  With no slot free the command fails and
\* the request goes on to its error.
RunGit(r) ==
  /\ pc[r] \in {"served", "hold"} /\ SlotFree
  /\ gitSlots' = gitSlots \cup {r}
  /\ Goto(r, IF pc[r] = "served" THEN "git" ELSE "gitLocked")
  /\ Spend(r)
  /\ UNCHANGED <<target, session, busy, lockVars, transferSlots>>

\* The command ends or is killed after thirty seconds.
GitDone(r) ==
  /\ pc[r] \in Commands
  /\ gitSlots' = gitSlots \ {r}
  /\ Goto(r, IF pc[r] = "git" THEN "served" ELSE "hold")
  /\ UNCHANGED <<target, session, busy, lockVars, transferSlots, todo>>

\* The pre-receive hook wants to know whether the default branch is rewound.
Hook(r) ==
  /\ pc[r] = "served"
  /\ Goto(r, "hook")
  /\ Spend(r)
  /\ UNCHANGED <<target, session, busy, lockVars, slotVars>>

HookRuns(r) ==
  /\ pc[r] = "hook" /\ SlotFree
  /\ gitSlots' = gitSlots \cup {r}
  /\ Goto(r, "git")
  /\ UNCHANGED <<target, session, busy, lockVars, transferSlots, todo>>

\* Thirty seconds are over.  The hook's client, which has left after twenty, is
\* not noticed.
HookTimesOut(r) ==
  /\ pc[r] = "hook"
  /\ Goto(r, "served")
  /\ UNCHANGED <<target, session, busy, lockVars, slotVars, todo>>

\* Mutant of StartTransfer: transfers take process slots without a limit of
\* their own.
StartTransferUnreserved(r) ==
  /\ pc[r] = "served" /\ SlotFree
  /\ gitSlots' = gitSlots \cup {r}
  /\ transferSlots' = transferSlots \cup {r}
  /\ Goto(r, "transferAsk")
  /\ Spend(r)
  /\ UNCHANGED <<target, session, busy, lockVars>>

\* gitHTTP() takes both slots, then reads the token once more.
StartTransfer(r) ==
  /\ pc[r] = "served" /\ TransferFree /\ SlotFree
  /\ gitSlots' = gitSlots \cup {r}
  /\ transferSlots' = transferSlots \cup {r}
  /\ Goto(r, "transferAsk")
  /\ Spend(r)
  /\ UNCHANGED <<target, session, busy, lockVars>>

\* git has ended, or it is killed: after 120 seconds, when the client leaves or
\* when its answer cannot be used.
EndTransfer(r) ==
  /\ pc[r] = "transfer"
  /\ gitSlots' = gitSlots \ {r}
  /\ transferSlots' = transferSlots \ {r}
  /\ End(r)
  /\ UNCHANGED <<target, session, busy, lockVars>>

-----------------------------------------------------------------------------
Query(r) == Arrive(r) \/ Grant(r) \/ Answered(r) \/ AskAgain(r) \/ Leave(r)

Lock(r) ==
  \/ \E k \in Repo : WantLock(r, k)
  \/ Connect(r) \/ TryLock(r) \/ TryLockAgain(r) \/ GiveUp(r) \/ Unlock(r) \/ UnlockFails(r)

Process(r) ==
  \/ RunGit(r) \/ GitDone(r)
  \/ Hook(r) \/ HookRuns(r) \/ HookTimesOut(r)
  \/ StartTransfer(r) \/ EndTransfer(r)

Next ==
  \/ \E r \in Request : Query(r) \/ Lock(r) \/ Process(r)
  \/ \E k \in Repo : Expire(k)

Spec == Init /\ [][Next]_vars

\* What ends a step: PostgreSQL answers; handlers return; and timers fire, those
\* that kill git included.
Progress(r) ==
  \/ Answered(r) \/ TryLock(r) \/ GiveUp(r) \/ Leave(r) \/ Unlock(r) \/ UnlockFails(r)
  \/ GitDone(r) \/ EndTransfer(r) \/ HookRuns(r) \/ HookTimesOut(r)

\* database/sql picks at random among those that wait for a connection, so
\* nobody who waits is passed over for ever.
Fairness ==
  \A r \in Request : WF_vars(Progress(r)) /\ SF_vars(Grant(r) \/ Connect(r))

FairSpec == Spec /\ Fairness

-----------------------------------------------------------------------------
\* Who keeps which connection is decided by where a request is: none survives
\* its request, and none is taken twice.
Connections ==
  /\ busy = {r \in Request : pc[r] \in Querying}
  /\ session = {r \in Request : pc[r] \in Sessions}

\* The same of process slots; and there are never more than the channels hold.
Slots ==
  /\ gitSlots = {r \in Request : pc[r] \in Commands \cup Transfers}
  /\ transferSlots = {r \in Request : pc[r] \in Transfers}
  /\ Cardinality(gitSlots) <= GitSlots
  /\ Cardinality(transferSlots) <= TransferSlots

\* A request in the body of a locked route owns the lock of its repository.
Ownership == \A r \in Request : pc[r] \in Holding => owner[target[r]] = r

PoolInv == TypeOK /\ Connections /\ Slots /\ Ownership

\* The pool is never exhausted by requests that all wait for the pool: when it
\* is full, some connection belongs to a request that can give it back without
\* getting another, unless as many repositories are locked as there are
\* connections.
Locked == {k \in Repo : owner[k] # Nobody}
PoolDrains ==
  ~Free /\ Cardinality(Locked) < PoolSize =>
    \E r \in Request : pc[r] \in Querying \cup {"wait", "hold", "gitLocked"}

\* The slots are never exhausted by transfers alone, which may be waiting for
\* the very hook that waits for a slot: when all are taken, one of them belongs
\* to a single git command, which ends within thirty seconds.  (git.go: "Reserve
\* two process slots so transfer hooks can finish under transfer load.")
SlotsDrain ==
  ~SlotFree => \E r \in Request : pc[r] \in Commands

\* Every request ends, unless from some moment on as many repositories are
\* locked as there are connections: then each holder may wait for a second
\* connection, without a deadline and for ever.  No other cycle of requests that
\* wait for one another's connections, locks and slots outlasts the timeouts
\* there are, and locks left behind make requests fail instead of hang.
EveryRequestEnds ==
  []<>(Cardinality(Locked) < PoolSize) =>
    \A r \in Request : pc[r] # "idle" ~> pc[r] = "idle"

=============================================================================
