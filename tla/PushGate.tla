------------------------------ MODULE PushGate ------------------------------
(***************************************************************************)
(* Protection of the default branch of one repository.  A push is admitted *)
(* by the pre-receive hook, which asks the server; the server decides from *)
(* the settings row it reads at that moment, without the repository lock.  *)
(* git moves the branch some time later, if it still is where the pusher   *)
(* saw it; a deletion of the branch HEAD names it refuses by itself        *)
(* (receive.denyDeleteCurrent, which initializeRepo() leaves alone).  In   *)
(* between, other pushes land, merges move their base branch,              *)
(* administrators change the settings and memberships change.              *)
(***************************************************************************)
EXTENDS Integers, FiniteSets

CONSTANTS
  Push,         \* transfers (over HTTP or SSH) in flight at the same time
  Branch,       \* branch names
  MaxOid        \* bound: commits ever written

ASSUME BoundAssumption == MaxOid \in Nat

VARIABLES
  history,      \* history[c]: c and its ancestors; {} while c is unwritten
  refs,         \* refs[b]: tip of refs/heads/b
  merges,       \* merge commits that pull requests put on a branch
  HEAD,         \* the branch HEAD names
  settings,     \* the repositories row: default branch, require_review
  writer,       \* may the pusher still write?
  stage,        \* stage[p]: where push p is
  update        \* update[p]: its ref update, and the row its hook read

vars == <<history, refs, merges, HEAD, settings, writer, stage, update>>

Oid   == 1..MaxOid
NoOid == 0

Settings == [default : Branch, review : BOOLEAN]
NoSettings == [review |-> FALSE]          \* the hook has not run yet
\* "admitted": the hook has agreed; "checked": git has looked at HEAD, too.
Stage    == {"idle", "sent", "admitted", "checked"}
Update   == [ref : Branch, old : Oid \cup {NoOid}, new : Oid \cup {NoOid},
             seen : Settings \cup {NoSettings}]
NoUpdate   == [new |-> NoOid]

Written(c)  == history[c] # {}
Ancestry(c) == IF c = NoOid THEN {} ELSE history[c]
IsNext(c)   == ~Written(c) /\ \A d \in Oid : d < c => Written(d)

TypeOK ==
  /\ history \in [Oid -> SUBSET Oid]
  /\ refs \in [Branch -> Oid \cup {NoOid}]
  /\ merges \subseteq Oid
  /\ HEAD \in Branch
  /\ settings \in Settings
  /\ writer \in BOOLEAN
  /\ stage \in [Push -> Stage]
  /\ update \in [Push -> Update \cup {NoUpdate}]

\* A new repository is empty and requires review.
Init ==
  /\ history = [c \in Oid |-> {}]
  /\ refs = [b \in Branch |-> NoOid]
  /\ merges = {}
  /\ HEAD \in Branch
  /\ settings = [default |-> HEAD, review |-> TRUE]
  /\ writer = TRUE
  /\ stage = [p \in Push |-> "idle"]
  /\ update = [p \in Push |-> NoUpdate]

-----------------------------------------------------------------------------
(* A push.                                                                  *)

\* The transfer starts: git-receive-pack shows the refs, the client names the
\* update it wants.  A new commit, an old one (a reset) or none (a deletion).
\* Its objects are in quarantine until the update lands, but nothing depends
\* on when they become visible.
Send(p, b, new) ==
  /\ stage[p] = "idle" /\ writer
  /\ refs[b] # new
  /\ new \in {NoOid} \cup {c \in Oid : Written(c)}
  /\ stage' = [stage EXCEPT ![p] = "sent"]
  /\ update' = [update EXCEPT ![p] = [ref |-> b, old |-> refs[b], new |-> new,
                                      seen |-> NoSettings]]
  /\ UNCHANGED <<history, refs, merges, HEAD, settings, writer>>

\* Somebody commits on top of an old commit.  Bound: one root commit, the first;
\* for what may follow it, a sibling does as well as a history of its own.
Commit(parent, c) ==
  /\ IsNext(c)
  /\ parent = NoOid <=> c = 1
  /\ parent # NoOid => Written(parent)
  /\ history' = [history EXCEPT ![c] = Ancestry(parent) \cup {c}]
  /\ UNCHANGED <<refs, merges, HEAD, settings, writer, stage, update>>

\* Mutant of FastForward: only the deletion of the default branch is refused.
NotDeleted(old, new) == new # NoOid

\* merge-base --is-ancestor; a deletion is refused before.
FastForward(old, new) == new # NoOid /\ Ancestry(old) \subseteq Ancestry(new)

\* gitHook() in phase pre-receive: what the settings s say of the update of b
\* from old to new.  A branch that does not exist yet may be created by anyone.
Allowed(s, b, old, new) ==
  \/ b # s.default
  \/ old = NoOid
  \/ ~s.review /\ FastForward(old, new)

\* Mutant of Admit: a hook that cannot decide lets the push through.
AdmitUnchecked(p) ==
  LET u == update[p] IN
  /\ stage[p] = "sent" /\ writer
  /\ stage' = [stage EXCEPT ![p] = "admitted"]
  /\ update' = [update EXCEPT ![p].seen = settings]
  /\ UNCHANGED <<history, refs, merges, HEAD, settings, writer>>

Admit(p) ==
  LET u == update[p] IN
  /\ stage[p] = "sent" /\ writer
  /\ Allowed(settings, u.ref, u.old, u.new)
  /\ stage' = [stage EXCEPT ![p] = "admitted"]
  /\ update' = [update EXCEPT ![p].seen = settings]
  /\ UNCHANGED <<history, refs, merges, HEAD, settings, writer>>

\* git locks the ref and compares it with the old value the client named.
Current(p) == refs[update[p].ref] = update[p].old

\* receive-pack reads HEAD once the hook has agreed, and does not delete the
\* branch it names.
ReadHead(p) ==
  /\ stage[p] = "admitted"
  /\ update[p].new = NoOid => update[p].ref # HEAD
  /\ stage' = [stage EXCEPT ![p] = "checked"]
  /\ UNCHANGED <<history, refs, merges, HEAD, settings, writer, update>>

Land(p) ==
  /\ stage[p] = "checked" /\ Current(p)
  /\ refs' = [refs EXCEPT ![update[p].ref] = update[p].new]
  /\ stage' = [stage EXCEPT ![p] = "idle"]
  /\ update' = [update EXCEPT ![p] = NoUpdate]
  /\ UNCHANGED <<history, merges, HEAD, settings, writer>>

\* The hook refuses or times out, git refuses to delete what HEAD names, the
\* branch has moved, the transfer dies.
Refuse(p) ==
  /\ stage[p] # "idle"
  /\ stage' = [stage EXCEPT ![p] = "idle"]
  /\ update' = [update EXCEPT ![p] = NoUpdate]
  /\ UNCHANGED <<history, refs, merges, HEAD, settings, writer>>

-----------------------------------------------------------------------------
(* What else moves branches or changes the policy.                          *)

\* A pull request merges head into base: one step here, and PullMerge shows
\* that the protocol behind it looks like one.  update-ref runs no hook.
Merge(base, head, c) ==
  /\ refs[base] # NoOid /\ refs[head] # NoOid /\ refs[base] # refs[head]
  /\ IsNext(c)
  /\ history' = [history EXCEPT
                   ![c] = Ancestry(refs[base]) \cup Ancestry(refs[head]) \cup {c}]
  /\ refs' = [refs EXCEPT ![base] = c]
  /\ merges' = merges \cup {c}
  /\ UNCHANGED <<HEAD, settings, writer, stage, update>>

\* PATCH /repos/ID by an administrator, under the repository lock, which no
\* push takes.  A new default branch is first written to HEAD, then, unless the
\* request dies, to the row.
MoveHead(b) ==
  /\ HEAD' = b
  /\ UNCHANGED <<history, refs, merges, settings, writer, stage, update>>

\* If an earlier request has left HEAD ahead of the row, this is a later one that
\* finds HEAD where it wants it.
WriteDefault ==
  /\ settings' = [settings EXCEPT !.default = HEAD]
  /\ UNCHANGED <<history, refs, merges, HEAD, writer, stage, update>>

SetRequireReview(on) ==
  /\ settings' = [settings EXCEPT !.review = on]
  /\ UNCHANGED <<history, refs, merges, HEAD, writer, stage, update>>

SetWriter(may) ==
  /\ writer' = may
  /\ UNCHANGED <<history, refs, merges, HEAD, settings, stage, update>>

-----------------------------------------------------------------------------
Transfer(p) ==
  \/ \E b \in Branch, new \in Oid \cup {NoOid} : Send(p, b, new)
  \/ Admit(p) \/ ReadHead(p) \/ Land(p) \/ Refuse(p)

Elsewhere ==
  \/ \E c \in Oid, parent \in Oid \cup {NoOid} : Commit(parent, c)
  \/ \E base, head \in Branch, c \in Oid : Merge(base, head, c)
  \/ \E b \in Branch : MoveHead(b)
  \/ WriteDefault
  \/ \E on \in BOOLEAN : SetRequireReview(on)
  \/ \E may \in BOOLEAN : SetWriter(may)

Next == (\E p \in Push : Transfer(p)) \/ Elsewhere

Spec == Init /\ [][Next]_vars

-----------------------------------------------------------------------------
\* Everything a ref or an update names has been written.
Rooted ==
  /\ \A b \in Branch : refs[b] # NoOid => Written(refs[b])
  /\ \A p \in Push : stage[p] # "idle" =>
       /\ update[p].old # NoOid => Written(update[p].old)
       /\ update[p].new # NoOid => Written(update[p].new)

\* What the hook admitted was allowed under the row it read, and stays so: it
\* is a statement about commits, which never change.
Admitted ==
  \A p \in Push : stage[p] \in {"admitted", "checked"} =>
    /\ update[p].seen \in Settings
    /\ Allowed(update[p].seen, update[p].ref, update[p].old, update[p].new)

\* The inductive invariant behind DefaultProtected.
PushInv ==
  /\ TypeOK
  /\ \A p \in Push : stage[p] # "idle" => update[p] \in Update
  /\ Rooted
  /\ Admitted

\* No update in flight was admitted under settings that have changed since.
Settled ==
  \A p \in Push : stage[p] \in {"admitted", "checked"} => update[p].seen = settings

\* A step neither deletes branch b nor takes a commit from it.
Kept(b) == refs'[b] # NoOid /\ history[refs[b]] \subseteq history'[refs'[b]]

\* What a step does to the default branch, once that branch exists: it loses
\* no commit, and while review is required it only moves to a merged pull.
Protected ==
  LET b == settings.default IN
  refs[b] # NoOid /\ refs'[b] # refs[b] =>
    /\ Kept(b)
    /\ settings.review => refs'[b] \in merges'

\* As long as the settings stay what the hooks saw, pushes that were admitted
\* side by side, and merges between the hook and the ref update, never undo
\* one another on the default branch, and none goes around the review.
DefaultProtected == [][Settled => Protected]_vars

\* "... always forbids non-fast-forward/deletion of initialized default
\* branch" (shared/CONTRACT.md:82), here of the first of the two: the default
\* branch is never moved to a commit that does not contain the one it was at.
AlwaysProtected ==
  [][LET b == settings.default IN
     refs[b] # NoOid /\ refs'[b] # NoOid => history[refs[b]] \subseteq history'[refs'[b]]]_vars

=============================================================================
