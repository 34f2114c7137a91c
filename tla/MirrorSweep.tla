---------------------------- MODULE MirrorSweep ----------------------------
(***************************************************************************)
(* The disaster recovery mirror.  A sweep lists the repositories, fetches  *)
(* each of them, and when every fetch succeeded publishes a recovery       *)
(* target: the server's time of the listing less a margin.  A recovery     *)
(* restores the database as it was at the target and serves it with the    *)
(* mirrored repositories, so whatever a row named by then must be held.    *)
(*                                                                         *)
(* Default branches only grow (PushGate), so the commits of one are a      *)
(* number, and the rows that name commits (repositories.default_oid,       *)
(* pull_requests.merged_oid) are summarised by the newest commit named at  *)
(* each moment.  Other branches may be rewound between being named and     *)
(* being fetched; what their names lose is not claimed here.               *)
(***************************************************************************)
EXTENDS Integers, FiniteSets

CONSTANTS
  Repo,         \* identifiers of repositories
  Margin,       \* safety_margin_seconds
  ListTimeout,  \* longest time between a listing's query and its answer
  MaxTime,      \* bound: the last moment modelled
  MaxCommits    \* bound: commits of a default branch

ASSUME RepoAssumption == IsFiniteSet(Repo) /\ Repo \subseteq Nat
ASSUME TimeAssumption == Margin \in Nat \ {0} /\ ListTimeout \in Nat /\ MaxTime \in Nat
ASSUME MarginAssumption == ListTimeout <= Margin
ASSUME BoundAssumption == MaxCommits \in Nat

Time    == 0..MaxTime
Commits == 0..MaxCommits
Targets == 0..(MaxTime - Margin)   \* moments a recovery may be asked for
Never   == -Margin - 1             \* the recovery target before the first sweep

VARIABLES
  now,        \* the server's clock, which is also that of the write-ahead log
  life,       \* life[k]: how far repository k is
  born,       \* born[k]: when its row was inserted
  tip,        \* tip[k]: commits on its default branch
  named,      \* named[k][t]: newest of them that rows of time t name
  readable,   \* repositories the sweep's account can read
  gained,     \* gained[k]: when it was given the access it has to k
  sweep,      \* the running sweep
  shrunk,     \* its listing is shorter, and was accepted with --allow-shrink
  listed,     \* repositories in its listing
  served,     \* time of the listing's query, then of its answer
  left,       \* repositories still to fetch
  failed,     \* some fetch failed
  held,       \* held[k]: commits the mirror holds
  target,     \* recovery_target of the published state
  published   \* repositories of the published state

serverVars == <<life, born, tip, named, readable, gained>>
sweepVars  == <<sweep, listed, shrunk, served, left, failed>>
stateVars  == <<target, published>>
vars == <<now, serverVars, sweepVars, stateVars, held>>

-----------------------------------------------------------------------------
\* "row": inserted, without a directory; "made": git init has run; "gone":
\* initialization failed and the row was deleted.
Life == {"none", "row", "made", "gone"}
Rows == {k \in Repo : life[k] \in {"row", "made"}}

TypeOK ==
  /\ now \in Time
  /\ life \in [Repo -> Life]
  /\ born \in [Repo -> Time]
  /\ tip \in [Repo -> Commits]
  /\ named \in [Repo -> [Targets -> Commits]]
  /\ readable \subseteq Repo
  /\ gained \in [Repo -> Time]
  /\ sweep \in {"idle", "listing", "fetching"}
  /\ shrunk \in BOOLEAN
  /\ listed \subseteq Repo
  /\ served \in Time
  /\ left \subseteq Repo
  /\ failed \in BOOLEAN
  /\ held \in [Repo -> Commits]
  /\ target \in Int
  /\ published \subseteq Repo

Init ==
  /\ now = 0
  /\ life = [k \in Repo |-> "none"] /\ born = [k \in Repo |-> 0]
  /\ tip = [k \in Repo |-> 0]
  /\ named = [k \in Repo |-> [t \in Targets |-> 0]]
  /\ readable = Repo /\ gained = [k \in Repo |-> 0]
  /\ sweep = "idle" /\ shrunk = FALSE /\ listed = {} /\ served = 0
  /\ left = {} /\ failed = FALSE
  /\ held = [k \in Repo |-> 0]
  /\ target = Never /\ published = {}

-----------------------------------------------------------------------------
(* The server.                                                              *)

Tick ==
  /\ now < MaxTime
  /\ now' = now + 1
  /\ UNCHANGED <<serverVars, sweepVars, stateVars, held>>

\* POST /api/repos: the row is committed, and listed, before git init runs.
InsertRow(k) ==
  /\ life[k] = "none"
  /\ life' = [life EXCEPT ![k] = "row"]
  /\ born' = [born EXCEPT ![k] = now]
  /\ UNCHANGED <<now, tip, named, readable, gained, sweepVars, stateVars, held>>

InitDir(k) ==
  /\ life[k] = "row"
  /\ life' = [life EXCEPT ![k] = "made"]
  /\ UNCHANGED <<now, born, tip, named, readable, gained, sweepVars, stateVars, held>>

\* A later step of the initialization fails: the row is deleted, then the
\* directory, and nobody reads the repository any more.
CreateFails(k) ==
  /\ k \in Rows
  /\ life' = [life EXCEPT ![k] = "gone"]
  /\ born' = [born EXCEPT ![k] = 0]
  /\ readable' = readable \ {k}
  /\ gained' = [gained EXCEPT ![k] = 0]
  /\ UNCHANGED <<now, tip, named, sweepVars, stateVars, held>>

\* A push or a merge.
Push(k) ==
  /\ life[k] = "made" /\ tip[k] < MaxCommits
  /\ tip' = [tip EXCEPT ![k] = @ + 1]
  /\ UNCHANGED <<now, life, born, named, readable, gained, sweepVars, stateVars, held>>

\* refresh() or a merge writes the name of a commit it has seen on the default
\* branch, maybe a while ago.
Name(k) ==
  \E c \in Commits :
    /\ life[k] = "made" /\ c <= tip[k]
    /\ named' = [named EXCEPT ![k] = [t \in Targets |-> IF t >= now /\ c > @[t] THEN c ELSE @[t]]]
    /\ UNCHANGED <<now, life, born, tip, readable, gained, sweepVars, stateVars, held>>

\* A public repository the account is no member of is made private.
LoseAccess(k) ==
  /\ k \in Rows \cap readable
  /\ readable' = readable \ {k}
  /\ gained' = [gained EXCEPT ![k] = 0]
  /\ UNCHANGED <<now, life, born, tip, named, sweepVars, stateVars, held>>

\* An administrator makes the account a member, or the repository public again.
GainAccess(k) ==
  /\ k \in Rows \ readable
  /\ readable' = readable \cup {k}
  /\ gained' = [gained EXCEPT ![k] = now]
  /\ UNCHANGED <<now, life, born, tip, named, sweepVars, stateVars, held>>

-----------------------------------------------------------------------------
(* sweep().                                                                 *)

\* The process ends, and what it knew is gone.
SweepEnds ==
  /\ sweep' = "idle" /\ shrunk' = FALSE /\ listed' = {} /\ served' = 0
  /\ left' = {} /\ failed' = FALSE

\* The server runs the listing's query.  Roles are read row by row after it; one
\* that changes meanwhile is as if it had changed before the query.
ListRepos ==
  /\ sweep = "idle"
  /\ sweep' = "listing"
  /\ listed' = Rows \cap readable
  /\ served' = now
  /\ UNCHANGED <<now, serverVars, shrunk, left, failed, stateVars, held>>

\* Mutant of Shrunk: a shorter listing is accepted.
ShrunkNever == FALSE

Shrunk == Cardinality(listed) < Cardinality(published)

\* The answer, whose Date is the time it is written.  A listing that has shrunk
\* is taken only if an operator passed --allow-shrink.
ListServed(allow) ==
  /\ sweep = "listing"
  /\ now - served < ListTimeout
  /\ Shrunk => allow
  /\ sweep' = "fetching"
  /\ served' = now
  /\ left' = listed
  /\ shrunk' = Shrunk
  /\ UNCHANGED <<now, serverVars, listed, failed, stateVars, held>>

\* Mutant of ListRefused: the listing has no timeout.
ListRefusedShort ==
  /\ sweep = "listing" /\ Shrunk
  /\ SweepEnds
  /\ UNCHANGED <<now, serverVars, stateVars, held>>

\* No answer in time, or a listing that has shrunk: the sweep ends.
ListRefused ==
  /\ sweep = "listing"
  /\ now - served >= ListTimeout \/ Shrunk
  /\ SweepEnds
  /\ UNCHANGED <<now, serverVars, stateVars, held>>

\* Repositories are fetched in the order of their identifiers.
Fetching(k) == sweep = "fetching" /\ k \in left /\ \A j \in left : k <= j

\* mirror(): clone or fetch, without pruning.
MirrorOne(k) ==
  /\ Fetching(k)
  /\ left' = left \ {k}
  /\ IF life[k] = "made" /\ k \in readable
     THEN held' = [held EXCEPT ![k] = tip[k]] /\ UNCHANGED failed
     ELSE failed' = TRUE /\ UNCHANGED held
  /\ UNCHANGED <<now, serverVars, sweep, shrunk, listed, served, stateVars>>

\* Mutant of MirrorFails: a failure is not recorded.
MirrorFailsQuietly(k) ==
  /\ Fetching(k)
  /\ left' = left \ {k}
  /\ UNCHANGED <<now, serverVars, sweep, shrunk, listed, served, failed, stateVars, held>>

\* A fetch that breaks off or times out.
MirrorFails(k) ==
  /\ Fetching(k)
  /\ left' = left \ {k}
  /\ failed' = TRUE
  /\ UNCHANGED <<now, serverVars, sweep, shrunk, listed, served, stateVars, held>>

\* Mutant of Publish: the target is the time of the answer.
PublishAtOnce ==
  /\ sweep = "fetching" /\ left = {} /\ ~failed
  /\ target' = served
  /\ published' = listed
  /\ SweepEnds
  /\ UNCHANGED <<now, serverVars, held>>

\* write_state() replaces the whole state at once.
Publish ==
  /\ sweep = "fetching" /\ left = {} /\ ~failed
  /\ target' = served - Margin
  /\ published' = listed
  /\ SweepEnds
  /\ UNCHANGED <<now, serverVars, held>>

\* Some repository failed: the target is held.
Hold ==
  /\ sweep = "fetching" /\ left = {} /\ failed
  /\ SweepEnds
  /\ UNCHANGED <<now, serverVars, stateVars, held>>

\* The sweep is killed, or the listing fails.
Interrupt ==
  /\ sweep # "idle"
  /\ SweepEnds
  /\ UNCHANGED <<now, serverVars, stateVars, held>>

-----------------------------------------------------------------------------
Server ==
  \/ Tick
  \/ \E k \in Repo :
       \/ InsertRow(k) \/ InitDir(k) \/ CreateFails(k)
       \/ Push(k) \/ Name(k) \/ LoseAccess(k) \/ GainAccess(k)

Sweep ==
  \/ ListRepos \/ ListServed(FALSE) \/ ListRefused
  \/ \E k \in Repo : MirrorOne(k)
  \/ Publish \/ Hold

Next ==
  \/ Server \/ Sweep
  \/ ListServed(TRUE)
  \/ \E k \in Repo : MirrorFails(k)
  \/ Interrupt

Spec == Init /\ [][Next]_vars

\* Time passes, and the timer starts one sweep after the other.
FairSpec == Spec /\ WF_vars(Tick) /\ WF_vars(Sweep)

-----------------------------------------------------------------------------
\* A recovery is sound: whatever the rows of the recovery target name on a
\* default branch of a published repository, the mirror holds.
\* (gitclub-mirror-sweep:5-9, DECISION.md:51.)
TargetCovered ==
  \A k \in published : target \in Targets => named[k][target] <= held[k]

\* A recovery is complete: a repository whose row is in the restored database
\* was published, if the account could read it by then.  The listing's query
\* runs before its Date is taken, so a repository may be created, or the account
\* be given access to it, in between; the margin is what keeps it out of the
\* restored rows.
InventoryComplete ==
  \A k \in Rows \cap readable :
    born[k] <= target /\ gained[k] <= target => k \in published

\* What a running sweep already ensures for the target it may publish.
SweepInv ==
  /\ served <= now
  /\ target <= now - Margin
  /\ \A k \in Repo : held[k] <= tip[k] /\ \A t \in Targets : named[k][t] <= tip[k]
  /\ sweep = "listing" =>
       \A k \in (Rows \cap readable) \ listed : born[k] >= served \/ gained[k] >= served
  /\ sweep = "fetching" =>
       \A k \in (Rows \cap readable) \ listed :
         born[k] > served - Margin \/ gained[k] > served - Margin
  /\ sweep = "fetching" /\ ~failed =>
       \A k \in listed \ left : \A t \in Targets : t < served => named[k][t] <= held[k]

MirrorInv == TypeOK /\ SweepInv /\ TargetCovered /\ InventoryComplete

\* What the comparison of counts is worth: a repository leaves the published
\* state only for a newcomer, unless somebody passed --allow-shrink.
LossNeedsNewcomer ==
  [][published \subseteq published' \/ published' \ published # {} \/ shrunk]_vars

\* When creations have ended well and everything is readable, the target
\* follows the clock once sweeps are no longer interrupted.
Sound == Rows = {k \in readable : life[k] = "made"} /\ published \subseteq Rows
EventuallyCurrent ==
  /\ <>[]Sound
  /\ <>[][~Interrupt /\ \A k \in Repo : ~MirrorFails(k)]_vars
  => <>(target = MaxTime - Margin)
=============================================================================
