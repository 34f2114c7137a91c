----------------------------- MODULE MCPullMerge -----------------------------
(* Small instances of PullMerge for TLC.                                    *)
EXTENDS PullMergeInv, TLC

CONSTANTS author, reviewer, h1, h2, main, feature

\* The author administers the repository; the reviewer is promoted and demoted.
MCRoleOf == author :> {3} @@ reviewer :> {1, 2}

\* Nobody's access changes.
MCFixedRoleOf == [u \in User |-> IF u = author THEN {3} ELSE {2}]

Symmetry == Permutations({h1, h2}) \cup Permutations({main, feature})

-----------------------------------------------------------------------------
\* Where PullLive starts: two branches, an open pull from one to the other, and
\* review not required.
MCOpened ==
  /\ history = [c \in Oid |-> IF c <= 2 THEN 1..c ELSE {}]
  /\ refs = main :> 1 @@ feature :> 2
  /\ ledger = [p \in Pull |-> NoOid]
  /\ marker = [p \in Pull |-> NoOid]
  /\ pull = [p \in Pull |-> [state |-> "open", author |-> author, base |-> main,
                             head |-> feature, merged |-> NoOid]]
  /\ reviews = <<>>
  /\ role \in [User -> Rank] /\ \A u \in User : role[u] \in RoleOf[u]
  /\ requireReview = FALSE
  /\ lock = NoHandler
  /\ pc = [h \in Handler |-> "idle"]
  /\ job = [h \in Handler |-> NoJob]

\* Bound: nobody changes settings, and no push puts a branch on an old commit
\* (they add commits anywhere, which covers forced pushes, and delete branches).
MCLiveNext ==
  \/ \E h \in Handler :
       \/ Acquire(h) \/ Reconcile(h) \/ Route(h) \/ Merge(h)
       \/ Abort(h) \/ LoseSession(h)
  \/ \E b \in Branch :
       \/ \E c \in Oid, parent \in Oid \cup {NoOid} : PushCommit(b, parent, c)
       \/ PushMove(b, NoOid)
  \/ \E admin, u \in User, r \in Rank : SetRole(admin, u, r)

MCLiveSpec == MCOpened /\ [][MCLiveNext]_vars /\ Fairness
=============================================================================
