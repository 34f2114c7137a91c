------------------------------ MODULE Freshness ------------------------------
(***************************************************************************)
(* The settings row of one repository and the cache of its default         *)
(* branch's tip, from which repositories are ordered.  Every visit, every  *)
(* post-receive hook and every merge refreshes the cache without a lock:   *)
(* read the tip, compare, update.  PATCH works under the repository lock,  *)
(* but writes back the whole row it read, the cached columns included.     *)
(***************************************************************************)
EXTENDS Integers

CONSTANTS
  Visitor,      \* requests that refresh at the same time
  Admin,        \* PATCH requests at the same time
  Branch,       \* branch names
  MaxPush,      \* bound: updates of branches
  NoBranch,     \* a PATCH that does not name default_branch
  Nobody        \* the repository lock is free

ASSUME BoundAssumption == MaxPush \in Nat
ASSUME NoBranchAssumption == NoBranch \notin Branch
ASSUME RequestAssumption == Nobody \notin Admin /\ Admin \cap Visitor = {}

VARIABLES
  clock,        \* time: the number of branch updates so far
  tip,          \* tip[b]: the commit of refs/heads/b, named by its time
  head,         \* the symbolic ref HEAD
  row,          \* default_branch, default_oid, updated_at
  lock,         \* holder of the repository lock
  pc,           \* pc[r]: where request r is
  view,         \* view[v]: what visitor v has read
  copy,         \* copy[a]: the row PATCH a is going to write
  want          \* want[a]: the default branch PATCH a names

vars == <<clock, tip, head, row, lock, pc, view, copy, want>>
gitVars == <<clock, tip>>
patchVars == <<head, lock, copy, want>>

Oid   == 1..MaxPush
NoOid == 0
Time  == 0..MaxPush
Row   == [default : Branch, oid : Oid \cup {NoOid}, updated : Time]
View  == [branch : Branch, oid : Oid \cup {NoOid}, stamp : Time]
NoView == [oid |-> NoOid]                  \* nothing read yet
Step  == {"idle", "tip", "compare", "update", "head", "resolve", "save"}

TypeOK ==
  /\ clock \in Time
  /\ tip \in [Branch -> Oid \cup {NoOid}]
  /\ head \in Branch
  /\ row \in Row
  /\ lock \in Admin \cup {Nobody}
  /\ pc \in [Visitor \cup Admin -> Step]
  /\ view \in [Visitor -> View \cup {NoView}]
  /\ copy \in [Admin -> Row \cup {NoView}]
  /\ want \in [Admin -> Branch \cup {NoBranch}]

\* POST /repos: the row, an empty repository, and HEAD on its default branch.
Init ==
  /\ clock = 0
  /\ tip = [b \in Branch |-> NoOid]
  /\ head \in Branch
  /\ row = [default |-> head, oid |-> NoOid, updated |-> 0]
  /\ lock = Nobody
  /\ pc = [r \in Visitor \cup Admin |-> "idle"]
  /\ view = [v \in Visitor |-> NoView]
  /\ copy = [a \in Admin |-> NoView]
  /\ want = [a \in Admin |-> NoBranch]

Goto(r, step) == pc' = [pc EXCEPT ![r] = step]

-----------------------------------------------------------------------------
(* Branches move: a push or a merge, on any branch at any time; a deletion, *)
(* which the hook refuses for the default branch.                           *)

Push(b) ==
  /\ clock < MaxPush
  /\ clock' = clock + 1
  /\ tip' = [tip EXCEPT ![b] = clock']
  /\ UNCHANGED <<row, patchVars, pc, view>>

Delete(b) ==
  /\ clock < MaxPush /\ b # row.default /\ tip[b] # NoOid
  /\ clock' = clock + 1
  /\ tip' = [tip EXCEPT ![b] = NoOid]
  /\ UNCHANGED <<row, patchVars, pc, view>>

-----------------------------------------------------------------------------
(* refresh().                                                               *)

\* The request has read the row, and with it the name of the default branch.
Visit(v) ==
  /\ pc[v] = "idle"
  /\ view' = [view EXCEPT ![v] = [branch |-> row.default, oid |-> NoOid, stamp |-> 0]]
  /\ Goto(v, "tip")
  /\ UNCHANGED <<gitVars, row, patchVars>>

\* defaultOID() reads the ref from the repository's files.
ReadTip(v) ==
  /\ pc[v] = "tip" /\ tip[view[v].branch] # NoOid
  /\ view' = [view EXCEPT ![v].oid = tip[view[v].branch]]
  /\ Goto(v, "compare")
  /\ UNCHANGED <<gitVars, row, patchVars>>

\* Mutant of Differs: only a cache that was never filled is refreshed.
DiffersFromNothing(v) == row.oid = NoOid

Differs(v) == row.oid # view[v].oid

Compare(v) ==
  /\ pc[v] = "compare" /\ Differs(v)
  /\ view' = [view EXCEPT ![v].stamp = clock]
  /\ Goto(v, "update")
  /\ UNCHANGED <<gitVars, row, patchVars>>

\* The visit has what it wanted, or it ends because the branch does not exist,
\* the ref cannot be read, or the request fails.
Leave(v) ==
  /\ pc[v] # "idle"
  /\ view' = [view EXCEPT ![v] = NoView]
  /\ Goto(v, "idle")
  /\ UNCHANGED <<gitVars, row, patchVars>>

\* UPDATE ... WHERE default_oid <> ?.
Update(v) ==
  /\ pc[v] = "update"
  /\ row' = IF Differs(v)
              THEN [row EXCEPT !.oid = view[v].oid, !.updated = view[v].stamp]
              ELSE row
  /\ view' = [view EXCEPT ![v] = NoView]
  /\ Goto(v, "idle")
  /\ UNCHANGED <<gitVars, patchVars>>

-----------------------------------------------------------------------------
(* PATCH /repos/ID.                                                         *)

\* Mutant of Patch: the row is read and written without the lock.
PatchUnlocked(a, b) ==
  /\ pc[a] = "idle"
  /\ lock' = a
  /\ copy' = [copy EXCEPT ![a] = row]
  /\ want' = [want EXCEPT ![a] = b]
  /\ Goto(a, IF b = NoBranch THEN "save" ELSE "head")
  /\ UNCHANGED <<gitVars, head, row, view>>

\* The row is read again once the lock is held.
Patch(a, b) ==
  /\ pc[a] = "idle" /\ lock = Nobody
  /\ lock' = a
  /\ copy' = [copy EXCEPT ![a] = row]
  /\ want' = [want EXCEPT ![a] = b]
  /\ Goto(a, IF b = NoBranch THEN "save" ELSE "head")
  /\ UNCHANGED <<gitVars, head, row, view>>

\* git symbolic-ref HEAD.
MoveHead(a) ==
  /\ pc[a] = "head"
  /\ head' = want[a]
  /\ copy' = [copy EXCEPT ![a].default = want[a]]
  /\ Goto(a, "resolve")
  /\ UNCHANGED <<gitVars, row, lock, view, want>>

\* The new default branch is resolved, and an error counts as no commit.
Resolve(a, oid) ==
  /\ pc[a] = "resolve" /\ oid \in {tip[want[a]], NoOid}
  /\ copy' = [copy EXCEPT ![a].oid = oid, ![a].updated = clock]
  /\ Goto(a, "save")
  /\ UNCHANGED <<gitVars, head, row, lock, view, want>>

\* The deferred unlock.
Release(a) ==
  /\ lock' = IF lock = a THEN Nobody ELSE lock
  /\ copy' = [copy EXCEPT ![a] = NoView]
  /\ want' = [want EXCEPT ![a] = NoBranch]
  /\ Goto(a, "idle")

\* One UPDATE of all columns.
Save(a) ==
  /\ pc[a] = "save"
  /\ row' = copy[a]
  /\ Release(a)
  /\ UNCHANGED <<gitVars, head, view>>

PatchFails(a) ==
  /\ pc[a] # "idle"
  /\ Release(a)
  /\ UNCHANGED <<gitVars, head, row, view>>

-----------------------------------------------------------------------------
Refresh(v) == Visit(v) \/ ReadTip(v) \/ Compare(v) \/ Update(v) \/ Leave(v)

Settings(a) ==
  \/ \E b \in Branch \cup {NoBranch} : Patch(a, b)
  \/ MoveHead(a)
  \/ \E oid \in Oid \cup {NoOid} : Resolve(a, oid)
  \/ Save(a) \/ PatchFails(a)

Next ==
  \/ \E b \in Branch : Push(b) \/ Delete(b)
  \/ \E v \in Visitor : Refresh(v)
  \/ \E a \in Admin : Settings(a)

Spec == Init /\ [][Next]_vars

\* Somebody keeps looking at the repository, and not every visit fails.
Fairness ==
  \A v \in Visitor :
    /\ WF_vars(Refresh(v))
    /\ SF_vars(ReadTip(v)) /\ SF_vars(Compare(v)) /\ SF_vars(Update(v))

FairSpec == Spec /\ Fairness

-----------------------------------------------------------------------------
\* One PATCH at a time, and its copy differs from the row only where the
\* request or a refresh changed it.
PatchInv ==
  /\ TypeOK
  /\ \A v \in Visitor :
       /\ pc[v] \in {"idle", "tip", "compare", "update"}
       /\ pc[v] # "idle" => view[v] \in View
  /\ \A a \in Admin : pc[a] # "idle" =>
       /\ pc[a] \in {"head", "resolve", "save"} /\ lock = a /\ copy[a] \in Row
       /\ want[a] = NoBranch => pc[a] = "save" /\ copy[a].default = row.default
       /\ want[a] # NoBranch /\ pc[a] \in {"resolve", "save"} =>
            copy[a].default = want[a] /\ head = want[a]

Saves(a) == pc[a] = "save" /\ pc'[a] = "idle" /\ row' # row

\* A PATCH that does not name default_branch does not undo one that did, though
\* it writes the whole row.
OthersDefaultIsKept ==
  [][\A a \in Admin : Saves(a) /\ want[a] = NoBranch => row'.default = row.default]_vars

\* When a PATCH has changed the default branch, HEAD is on that branch: clones
\* check out what the row names, whatever other PATCHes did meanwhile.
HeadFollowsDefault ==
  [][\A a \in Admin : Saves(a) /\ want[a] # NoBranch => head' = row'.default]_vars

\* Once pushes and PATCHes have stopped, the cache ends up on the tip of the
\* default branch and stays there, in spite of stale refreshes in flight, of
\* PATCHes that restored an old value, and of notifications that got lost.
EventuallyFresh ==
  <>[](\A a \in Admin : pc[a] = "idle") =>
    <>[](tip[row.default] # NoOid => row.oid = tip[row.default])

=============================================================================
