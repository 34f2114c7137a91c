------------------------------ MODULE PullMerge ------------------------------
(***************************************************************************)
(* Pull requests of one GitClub repository: opening, editing and reviewing *)
(* them, and merging one as a transaction over three stores that share no  *)
(* transaction manager:                                                    *)
(*   - Git: the branches (refs/heads/...) and, in the same repository, one *)
(*     hidden "ledger" ref per merged pull (refs/gitclub/merges/N);        *)
(*   - the data directory: a durable marker file per merge in progress;    *)
(*   - PostgreSQL: the rows of pull_requests and reviews, roles, settings. *)
(* Every handler works under the repository's advisory lock and starts by  *)
(* reconciling the markers an earlier handler left behind.  Pushes and     *)
(* membership changes take no lock.  A handler may stop at any step: a     *)
(* failed query, a git command out of process slots, a timeout or the      *)
(* death of the process all release the lock and leave the stores as they  *)
(* are.                                                                    *)
(***************************************************************************)
EXTENDS Integers, Sequences, FiniteSets

CONSTANTS
  User,         \* accounts
  Handler,      \* requests the server works on at the same time
  Branch,       \* branch names under refs/heads/
  MaxPull,      \* bound: rows of pull_requests
  MaxOid,       \* bound: commits ever written to the repository
  MaxReviews,   \* bound: rows of reviews
  RoleOf,       \* RoleOf[u]: the ranks an administrator may give to u
  Faults,       \* which of the faults below may happen
  NoHandler     \* nobody holds the repository lock

\* "torn_marker": the process dies between creating and writing a marker file.
\* "torn_refs": git dies between the renames of one ref transaction.
\* "session_loss": the database session that holds the advisory lock is lost
\*                 while the handler (or its git child) carries on.
Fault == {"torn_marker", "torn_refs", "session_loss"}

ASSUME BoundsAssumption == MaxPull \in Nat /\ MaxOid \in Nat /\ MaxReviews \in Nat
ASSUME RoleAssumption == RoleOf \in [User -> SUBSET (0..3)] /\ \A u \in User : RoleOf[u] # {}
ASSUME FaultAssumption == Faults \subseteq Fault
ASSUME HandlerAssumption == NoHandler \notin Handler

VARIABLES
  history,        \* history[c]: c and its ancestors; {} while c is unwritten
  refs,           \* refs[b]: tip of refs/heads/b
  ledger,         \* ledger[p]: refs/gitclub/merges/p
  marker,         \* marker[p]: the commit in gitclub-merge-p.json
  pull,           \* pull[p]: the row of pull_requests
  reviews,        \* the rows of reviews, oldest first
  role,           \* role[u]: rank of u's role in this repository
  requireReview,  \* repositories.require_review
  lock,           \* holder of the advisory lock
  pc,             \* pc[h]: where handler h is
  job             \* job[h]: what handler h has read so far

gitVars == <<history, refs, ledger>>
dbVars  == <<pull, reviews, role, requireReview>>
vars    == <<history, refs, ledger, marker, pull, reviews, role, requireReview,
             lock, pc, job>>

-----------------------------------------------------------------------------
Oid   == 1..MaxOid
NoOid == 0                        \* no such ref, or an empty column
Torn  == -1                       \* a marker file without its content
Pull  == 1..MaxPull

\* rank() of a role: none, read, write, admin.
Rank  == 0..3
Read  == 1
Write == 2
Admin == 3

PullState == {"open", "closed", "merged"}
Decision  == {"approve", "request_changes", "comment"}
PullRow   == [state : PullState, author : User, base : Branch, head : Branch,
              merged : Oid \cup {NoOid}]
NoPull    == [state |-> "absent"]              \* no such row yet
ReviewRow == [pull : Pull, author : User, decision : Decision, oid : Oid]

\* Where a handler is.  "reconcile" and "settle" are reconcileMerges() before
\* the route and after the ref transaction; "settings" is PATCH /repos/ID.
Step == {"idle", "reconcile", "body", "head", "marker", "writing", "txn",
         "settle", "report", "settings"}

\* What a merge carries from step to step: the settings row read under the
\* lock, the pull, the tips it read, the accounts whose verdicts it counted, the
\* commit it wrote and git's verdict.
Job   == [strict : BOOLEAN, pull : Pull \cup {0}, base : Oid \cup {NoOid},
          head : Oid \cup {NoOid}, writers : SUBSET User,
          commit : Oid \cup {NoOid}, err : BOOLEAN]
NoJob == [strict |-> FALSE, pull |-> 0, base |-> NoOid, head |-> NoOid,
          writers |-> {}, commit |-> NoOid, err |-> FALSE]

Written(c) == history[c] # {}
\* Object names are handed out in order, which loses nothing: only their
\* ancestry is ever compared.
IsNext(c) == ~Written(c) /\ \A d \in Oid : d < c => Written(d)
Ancestry(c) == IF c = NoOid THEN {} ELSE history[c]
Reachable == UNION {Ancestry(refs[b]) : b \in Branch}

BaseTip(p) == refs[pull[p].base]
HeadTip(p) == refs[pull[p].head]

TypeOK ==
  /\ history \in [Oid -> SUBSET Oid]
  /\ refs \in [Branch -> Oid \cup {NoOid}]
  /\ ledger \in [Pull -> Oid \cup {NoOid}]
  /\ marker \in [Pull -> Oid \cup {NoOid, Torn}]
  /\ pull \in [Pull -> PullRow \cup {NoPull}]
  /\ reviews \in Seq(ReviewRow)
  /\ role \in [User -> Rank]
  /\ requireReview \in BOOLEAN
  /\ lock \in Handler \cup {NoHandler}
  /\ pc \in [Handler -> Step]
  /\ job \in [Handler -> Job]

\* A repository just created: no branch, no pull; review is required by default.
Init ==
  /\ history = [c \in Oid |-> {}]
  /\ refs = [b \in Branch |-> NoOid]
  /\ ledger = [p \in Pull |-> NoOid]
  /\ marker = [p \in Pull |-> NoOid]
  /\ pull = [p \in Pull |-> NoPull]
  /\ reviews = <<>>
  /\ role \in [User -> Rank] /\ \A u \in User : role[u] \in RoleOf[u]
  /\ requireReview = TRUE
  /\ lock = NoHandler
  /\ pc = [h \in Handler |-> "idle"]
  /\ job = [h \in Handler |-> NoJob]

-----------------------------------------------------------------------------
(* The lock, and the end of a request.                                      *)

\* Mutant of Acquire: the route starts without reconciling.
AcquireWithoutReconcile(h) ==
  /\ pc[h] = "idle" /\ lock = NoHandler
  /\ lock' = h
  /\ pc' = [pc EXCEPT ![h] = "body"]
  /\ job' = [job EXCEPT ![h] = [NoJob EXCEPT !.strict = requireReview]]
  /\ UNCHANGED <<gitVars, dbVars, marker>>

\* lockRepo() succeeds; the repository row is read again under the lock.
\* Every /pulls route, and the Kaneo feed, goes on to reconcile.
Acquire(h) ==
  /\ pc[h] = "idle" /\ lock = NoHandler
  /\ lock' = h
  /\ pc' = [pc EXCEPT ![h] = "reconcile"]
  /\ job' = [job EXCEPT ![h] = [NoJob EXCEPT !.strict = requireReview]]
  /\ UNCHANGED <<gitVars, dbVars, marker>>

\* PATCH /repos/ID takes the same lock and does not reconcile.
AcquireForSettings(h) ==
  /\ pc[h] = "idle" /\ lock = NoHandler
  /\ lock' = h
  /\ pc' = [pc EXCEPT ![h] = "settings"]
  /\ UNCHANGED <<gitVars, dbVars, marker, job>>

\* The deferred unlock; a session already lost has nothing to unlock.
Finish(h) ==
  /\ pc' = [pc EXCEPT ![h] = "idle"]
  /\ job' = [job EXCEPT ![h] = NoJob]
  /\ lock' = IF lock = h THEN NoHandler ELSE lock

\* Mutant of Abort: a deferred cleanup removes the marker on any failure.
AbortDropsMarker(h) ==
  /\ pc[h] # "idle"
  /\ marker' = [p \in Pull |-> IF p = job[h].pull THEN NoOid ELSE marker[p]]
  /\ Finish(h)
  /\ UNCHANGED <<gitVars, dbVars>>

\* The request stops where it is and releases the lock: fail(), a panic, a
\* refused git slot, a database error, or the death of the whole process.
\* While the marker is being written that leaves a file without content.
Abort(h) ==
  /\ pc[h] # "idle"
  /\ pc[h] = "writing" => "torn_marker" \in Faults
  /\ Finish(h)
  /\ UNCHANGED <<gitVars, dbVars, marker>>

\* The advisory lock belongs to a database session.  If that session ends the
\* lock is free, and nothing tells the handler or the git command it runs.
LoseSession(h) ==
  /\ "session_loss" \in Faults
  /\ lock = h
  /\ lock' = NoHandler
  /\ UNCHANGED <<gitVars, dbVars, marker, pc, job>>

-----------------------------------------------------------------------------
(* reconcileMerges(): one marker at a time, in any order.                   *)

Reconciling(h) == pc[h] \in {"reconcile", "settle"}

Recorded(p) == pull[p].state = "merged" /\ pull[p].merged = marker[p]

\* Mutant of RecClearUnapplied: the marker goes whatever the ledger says.
RecClearAlways(h, p) ==
  /\ Reconciling(h)
  /\ marker[p] \in Oid
  /\ marker' = [marker EXCEPT ![p] = NoOid]
  /\ UNCHANGED <<gitVars, dbVars, lock, pc, job>>

\* No ledger ref: the transaction never committed, so forget the intent.
RecClearUnapplied(h, p) ==
  /\ Reconciling(h)
  /\ marker[p] \in Oid /\ ledger[p] = NoOid
  /\ marker' = [marker EXCEPT ![p] = NoOid]
  /\ UNCHANGED <<gitVars, dbVars, lock, pc, job>>

\* Mutants of RecRecord: the marker alone is taken as proof, and a marker that
\* does not parse is read as one with zero values.
RecRecordUnproved(h, p) ==
  /\ Reconciling(h)
  /\ marker[p] \in Oid /\ ~Recorded(p)
  /\ pull' = [pull EXCEPT ![p].state = "merged", ![p].merged = marker[p]]
  /\ UNCHANGED <<gitVars, reviews, role, requireReview, marker, lock, pc, job>>

RecRecordUnparsed(h, p) ==
  /\ Reconciling(h)
  /\ marker[p] # NoOid /\ ~Recorded(p)
  /\ pull' = [pull EXCEPT ![p].state = "merged", ![p].merged = marker[p]]
  /\ UNCHANGED <<gitVars, reviews, role, requireReview, marker, lock, pc, job>>

\* The ledger proves the merge: write it into the row.
RecRecord(h, p) ==
  /\ Reconciling(h)
  /\ marker[p] \in Oid /\ ledger[p] = marker[p] /\ ~Recorded(p)
  /\ pull' = [pull EXCEPT ![p].state = "merged", ![p].merged = marker[p]]
  /\ UNCHANGED <<gitVars, reviews, role, requireReview, marker, lock, pc, job>>

\* The row is written: refresh the tip cache and remove the marker.
RecClear(h, p) ==
  /\ Reconciling(h)
  /\ marker[p] \in Oid /\ ledger[p] = marker[p] /\ Recorded(p)
  /\ marker' = [marker EXCEPT ![p] = NoOid]
  /\ UNCHANGED <<gitVars, dbVars, lock, pc, job>>

\* Mutant of RecDone: markers the loop could not settle are stepped over.
RecDoneEarly(h) ==
  /\ Reconciling(h)
  /\ pc' = [pc EXCEPT ![h] = IF pc[h] = "reconcile" THEN "body" ELSE "report"]
  /\ UNCHANGED <<gitVars, dbVars, marker, lock, job>>

\* No marker is left.  A torn marker, or one that disagrees with the ledger,
\* is never cleared: the request can only end in 503 (Abort).
RecDone(h) ==
  /\ Reconciling(h)
  /\ \A p \in Pull : marker[p] = NoOid
  /\ pc' = [pc EXCEPT ![h] = IF pc[h] = "reconcile" THEN "body" ELSE "report"]
  /\ UNCHANGED <<gitVars, dbVars, marker, lock, job>>

-----------------------------------------------------------------------------
(* The routes.                                                              *)

\* GET, a comment, or a request that a check refuses: nothing changes.
Answer(h) ==
  /\ pc[h] \in {"body", "head"}
  /\ Finish(h)
  /\ UNCHANGED <<gitVars, dbVars, marker>>

\* POST /pulls: both branches exist, and base...head is a nonempty diff, so
\* the head is related to the base and not contained in it.
CreatePull(h, u, p, b, d) ==
  /\ pc[h] = "body" /\ role[u] >= Write
  /\ b # d /\ refs[b] # NoOid /\ refs[d] # NoOid
  /\ refs[d] \notin Ancestry(refs[b])
  /\ Ancestry(refs[b]) \cap Ancestry(refs[d]) # {}
  /\ pull[p].state = "absent"
  /\ \A q \in Pull : q < p => pull[q].state # "absent"
  /\ pull' = [pull EXCEPT ![p] = [state |-> "open", author |-> u, base |-> b,
                                  head |-> d, merged |-> NoOid]]
  /\ Finish(h)
  /\ UNCHANGED <<gitVars, reviews, role, requireReview, marker>>

\* Mutant of EditPull: a merged pull may be reopened.
EditMergedPull(h, u, p, s) ==
  /\ pc[h] = "body" /\ role[u] >= Write
  /\ pull[p] # NoPull
  /\ pull[p].author = u \/ role[u] = Admin
  /\ s \in {"open", "closed"}
  /\ pull' = [pull EXCEPT ![p].state = s]
  /\ Finish(h)
  /\ UNCHANGED <<gitVars, reviews, role, requireReview, marker>>

\* PATCH /pulls/N: the author or an administrator closes or reopens it.
EditPull(h, u, p, s) ==
  /\ pc[h] = "body" /\ role[u] >= Write
  /\ pull[p].state \in {"open", "closed"}
  /\ pull[p].author = u \/ role[u] = Admin
  /\ s \in {"open", "closed"}
  /\ pull' = [pull EXCEPT ![p].state = s]
  /\ Finish(h)
  /\ UNCHANGED <<gitVars, reviews, role, requireReview, marker>>

\* POST /pulls/N/reviews: records the head the client named, which is the
\* current one (any other expected_head_oid is refused).
Review(h, u, p, d) ==
  /\ pc[h] = "body" /\ role[u] >= Write
  /\ pull[p].state = "open"
  /\ d = "approve" => pull[p].author # u
  /\ BaseTip(p) # NoOid /\ HeadTip(p) # NoOid
  /\ Len(reviews) < MaxReviews
  /\ reviews' = Append(reviews, [pull |-> p, author |-> u, decision |-> d,
                                 oid |-> HeadTip(p)])
  /\ Finish(h)
  /\ UNCHANGED <<gitVars, pull, role, requireReview, marker>>

\* PATCH /repos/ID {require_review}, by an administrator.
SetRequireReview(h, u, on) ==
  /\ pc[h] = "settings" /\ role[u] = Admin
  /\ requireReview' = on
  /\ Finish(h)
  /\ UNCHANGED <<gitVars, pull, reviews, role, marker>>

-----------------------------------------------------------------------------
(* pullBlockers(): what the reviews of the current head say.                *)

\* The decisive rows of u for commit c: comments do not count.
Decisive(p, u, c) ==
  {i \in DOMAIN reviews : /\ reviews[i].pull = p
                          /\ reviews[i].author = u
                          /\ reviews[i].oid = c
                          /\ reviews[i].decision # "comment"}

\* The newest of them is u's verdict.
Verdict(p, u, c, d) ==
  \E i \in Decisive(p, u, c) : /\ \A j \in Decisive(p, u, c) : j <= i
                               /\ reviews[i].decision = d

\* The accounts whose verdicts count; those of the others are skipped.
Writers == {u \in User : role[u] >= Write}

\* Mutant of ChangesRequested: only approvals are looked at.
ChangesIgnored(p, c) == FALSE

ChangesRequested(p, c) == \E u \in Writers : Verdict(p, u, c, "request_changes")

\* Mutants of Approved: an approval of any commit counts, one its reviewer has
\* taken back, and one by an account that may only read.
ApprovedOnce(p, c) ==
  \E u \in Writers \ {pull[p].author}, old \in Oid : Verdict(p, u, old, "approve")

ApprovedBefore(p, c) ==
  \E u \in User \ {pull[p].author} :
    \E i \in Decisive(p, u, c) : reviews[i].decision = "approve"

ApprovedByReader(p, c) ==
  \E u \in User \ {pull[p].author} : Verdict(p, u, c, "approve")

Approved(p, c) ==
  \E u \in Writers \ {pull[p].author} : Verdict(p, u, c, "approve")

-----------------------------------------------------------------------------
(* POST /pulls/N/merge.                                                     *)

\* pullTips() reads the base, then the head; pushes may land in between.
MergeReadBase(h, u, p) ==
  /\ pc[h] = "body" /\ role[u] >= Write
  /\ pull[p].state # "absent"
  /\ BaseTip(p) # NoOid
  /\ job' = [job EXCEPT ![h].pull = p, ![h].base = BaseTip(p)]
  /\ pc' = [pc EXCEPT ![h] = "head"]
  /\ UNCHANGED <<gitVars, dbVars, marker, lock>>

\* The head is the one the client displayed, nothing blocks, and merge-tree
\* finds no conflict: commit-tree writes a commit no branch points to yet.
MergeInspect(h, c) ==
  LET p == job[h].pull
      b == job[h].base
      d == HeadTip(p)
  IN /\ pc[h] = "head"
     /\ pull[p].state = "open"
     /\ d # NoOid /\ b # d
     /\ ~ChangesRequested(p, d)
     /\ job[h].strict => Approved(p, d)
     /\ IsNext(c)
     /\ history' = [history EXCEPT ![c] = Ancestry(b) \cup Ancestry(d) \cup {c}]
     /\ job' = [job EXCEPT ![h].head = d, ![h].writers = Writers, ![h].commit = c]
     /\ pc' = [pc EXCEPT ![h] = "marker"]
     /\ UNCHANGED <<refs, ledger, dbVars, marker, lock>>

\* durableMarker(): O_EXCL creation first ...
MarkerCreate(h) ==
  /\ pc[h] = "marker"
  /\ marker[job[h].pull] = NoOid
  /\ marker' = [marker EXCEPT ![job[h].pull] = Torn]
  /\ pc' = [pc EXCEPT ![h] = "writing"]
  /\ UNCHANGED <<gitVars, dbVars, lock, job>>

\* ... then the content, synced together with its directory.
MarkerWrite(h) ==
  /\ pc[h] = "writing"
  /\ marker' = [marker EXCEPT ![job[h].pull] = job[h].commit]
  /\ pc' = [pc EXCEPT ![h] = "txn"]
  /\ UNCHANGED <<gitVars, dbVars, lock, job>>

\* A failed write removes the file again and the merge is refused.
MarkerFail(h) ==
  /\ pc[h] = "writing"
  /\ marker' = [marker EXCEPT ![job[h].pull] = NoOid]
  /\ Finish(h)
  /\ UNCHANGED <<gitVars, dbVars>>

\* Mutant of TxnValid: the update does not name the base it replaces.
TxnValidForced(h) ==
  /\ refs[pull[job[h].pull].head] = job[h].head
  /\ ledger[job[h].pull] = NoOid

\* Mutant of TxnValid: the head is not verified.
TxnValidStaleHead(h) ==
  /\ refs[pull[job[h].pull].base] = job[h].base
  /\ ledger[job[h].pull] = NoOid

\* What update-ref checks: the head still is, and the base still was, what
\* the merge read, and the pull has no ledger ref.
TxnValid(h) ==
  /\ refs[pull[job[h].pull].head] = job[h].head
  /\ refs[pull[job[h].pull].base] = job[h].base
  /\ ledger[job[h].pull] = NoOid

\* update-ref commits.  git may be killed after that, so even a committed
\* transaction may come back as an error.
TxnCommit(h, err) ==
  /\ pc[h] = "txn" /\ TxnValid(h)
  /\ refs' = [refs EXCEPT ![pull[job[h].pull].base] = job[h].commit]
  /\ ledger' = [ledger EXCEPT ![job[h].pull] = job[h].commit]
  /\ job' = [job EXCEPT ![h].err = err]
  /\ pc' = [pc EXCEPT ![h] = "settle"]
  /\ UNCHANGED <<history, dbVars, marker, lock>>

\* update-ref refuses, never gets a process slot, or is killed in time.
TxnReject(h) ==
  /\ pc[h] = "txn"
  /\ job' = [job EXCEPT ![h].err = TRUE]
  /\ pc' = [pc EXCEPT ![h] = "settle"]
  /\ UNCHANGED <<gitVars, dbVars, marker, lock>>

\* The refs of one transaction are renamed into place one after the other.
TxnTorn(h) ==
  /\ "torn_refs" \in Faults
  /\ pc[h] = "txn" /\ TxnValid(h)
  /\ refs' = [refs EXCEPT ![pull[job[h].pull].base] = job[h].commit]
  /\ job' = [job EXCEPT ![h].err = TRUE]
  /\ pc' = [pc EXCEPT ![h] = "settle"]
  /\ UNCHANGED <<history, ledger, dbVars, marker, lock>>

\* Mutant of AnswersMerged: the row is not read again after an error.
AnswersGitError(h) == ~job[h].err

\* The answer to the client: 200 when git reported success, or when the row
\* read after reconciling names this very commit; 409 otherwise.
AnswersMerged(h) == job[h].err => pull[job[h].pull].merged = job[h].commit

Report(h) ==
  /\ pc[h] = "report"
  /\ Finish(h)
  /\ UNCHANGED <<gitVars, dbVars, marker>>

-----------------------------------------------------------------------------
(* What happens without the lock.                                           *)

\* receive-pack moves a branch to a new commit on top of an old one, back to a
\* commit some branch reaches, or deletes it.  Which of these the pre-receive
\* hook lets through depends on settings that may have changed since it ran,
\* so all of them may land here.  Bound: only an empty repository receives a
\* root commit, for branches without a common ancestor have no pull request.
PushCommit(b, parent, c) ==
  /\ IsNext(c)
  /\ parent \in Reachable \/ (parent = NoOid /\ \A d \in Oid : ~Written(d))
  /\ history' = [history EXCEPT ![c] = Ancestry(parent) \cup {c}]
  /\ refs' = [refs EXCEPT ![b] = c]
  /\ UNCHANGED <<ledger, dbVars, marker, lock, pc, job>>

PushMove(b, c) ==
  /\ refs[b] # c
  /\ c = NoOid \/ c \in Reachable
  /\ refs' = [refs EXCEPT ![b] = c]
  /\ UNCHANGED <<history, ledger, dbVars, marker, lock, pc, job>>

\* POST /repos/ID/members, or a change of namespace membership.
SetRole(admin, u, r) ==
  /\ role[admin] = Admin
  /\ r \in RoleOf[u] /\ role[u] # r
  /\ role' = [role EXCEPT ![u] = r]
  /\ UNCHANGED <<gitVars, pull, reviews, requireReview, marker, lock, pc, job>>

-----------------------------------------------------------------------------
ReconcileOne(h, p) == RecClearUnapplied(h, p) \/ RecRecord(h, p) \/ RecClear(h, p)

Reconcile(h) == RecDone(h) \/ \E p \in Pull : ReconcileOne(h, p)

Route(h) ==
  \/ Answer(h)
  \/ \E u \in User, p \in Pull :
       \/ \E b, d \in Branch : CreatePull(h, u, p, b, d)
       \/ \E s \in PullState : EditPull(h, u, p, s)
       \/ \E d \in Decision : Review(h, u, p, d)
       \/ MergeReadBase(h, u, p)
  \/ \E u \in User, on \in BOOLEAN : SetRequireReview(h, u, on)

Merge(h) ==
  \/ \E c \in Oid : MergeInspect(h, c)
  \/ MarkerCreate(h) \/ MarkerWrite(h) \/ MarkerFail(h)
  \/ \E err \in BOOLEAN : TxnCommit(h, err)
  \/ TxnReject(h) \/ TxnTorn(h)
  \/ Report(h)

Outside ==
  \/ \E b \in Branch :
       \/ \E c \in Oid, parent \in Oid \cup {NoOid} : PushCommit(b, parent, c)
       \/ \E c \in Oid \cup {NoOid} : PushMove(b, c)
  \/ \E admin, u \in User, r \in Rank : SetRole(admin, u, r)

Next ==
  \/ \E h \in Handler :
       \/ Acquire(h) \/ AcquireForSettings(h)
       \/ Reconcile(h) \/ Route(h) \/ Merge(h)
       \/ Abort(h) \/ LoseSession(h)
  \/ Outside

Spec == Init /\ [][Next]_vars

\* Requests keep arriving (the Kaneo worker polls every configured repository
\* once a minute) and keep being admitted to the lock; a handler that can go
\* on does; and working off one marker does not fail for ever.
Fairness ==
  \A h \in Handler :
    /\ SF_vars(Acquire(h))
    /\ WF_vars(Reconcile(h) \/ Route(h) \/ Merge(h))
    /\ \A p \in Pull : SF_vars(ReconcileOne(h, p))

FairSpec == Spec /\ Fairness

-----------------------------------------------------------------------------
(* Safety.                                                                  *)

\* A merge that reached Git is never lost: whenever the ledger names a merge
\* commit, the row already says merged with that commit, or the marker that
\* makes the next handler write it is still there.  (collaboration.go: "A
\* durable intent survives ref-update success followed by metadata failure or
\* process death".)
MergeRecoverable ==
  \A p \in Pull : ledger[p] # NoOid =>
    \/ pull[p].state = "merged" /\ pull[p].merged = ledger[p]
    \/ marker[p] = ledger[p]

\* No row says merged unless Git holds the proof, and it names the same
\* commit: metadata never runs ahead of the repository.
MergedIsProved ==
  \A p \in Pull : pull[p].state = "merged" =>
    pull[p].merged # NoOid /\ ledger[p] = pull[p].merged

\* The two refusals of reconcileMerges() that need an operator: a ledger that
\* disagrees with its marker never occurs, and a marker without content is
\* always one of a merge Git never saw, so removing the file loses nothing.
MarkerIsTrustworthy ==
  \A p \in Pull : marker[p] # NoOid /\ ledger[p] # NoOid => marker[p] = ledger[p]

\* What a route reads under the lock is settled: a pull whose merge is in Git
\* is never shown, reviewed, edited or merged again as if it were not.
ReadsAreSettled ==
  \A h \in Handler, p \in Pull :
    pc[h] \in {"body", "head", "report"} /\ ledger[p] # NoOid
      => pull[p].state = "merged"

\* The answer to POST .../merge is the truth even when git's own answer was
\* an error: 200 names a commit Git and the row both have, and 409 ("Base or
\* head changed") is never said of a merge that went through.
AnswerIsTruth ==
  \A h \in Handler : pc[h] = "report" =>
    LET p == job[h].pull IN
    IF AnswersMerged(h)
      THEN ledger[p] = job[h].commit /\ pull[p].merged = job[h].commit
                                     /\ pull[p].state = "merged"
      ELSE ledger[p] # job[h].commit

-----------------------------------------------------------------------------
(* Action properties.                                                       *)

MergesNow(p) == ledger[p] = NoOid /\ ledger'[p] # NoOid

\* The step that merges takes the tips the branches have at that moment: the
\* new base contains the old base and the current head (a push that landed
\* since the tips were read is never overwritten), of a pull that is open.
MergeTakesCurrentTips ==
  [][\A p \in Pull : MergesNow(p) =>
       /\ pull[p].state = "open"
       /\ refs' = [refs EXCEPT ![pull[p].base] = ledger'[p]]
       /\ BaseTip(p) # NoOid /\ HeadTip(p) # NoOid
       /\ history[BaseTip(p)] \cup history[HeadTip(p)] \subseteq history[ledger'[p]]]_vars

\* The merge of pull p into commit c takes nothing from the branches: only the
\* base moves, and c contains the tips that base and head have at that moment.
MovesBase(p, c) ==
  /\ refs' = [refs EXCEPT ![pull[p].base] = c]
  /\ BaseTip(p) # NoOid /\ HeadTip(p) # NoOid
  /\ Ancestry(BaseTip(p)) \cup Ancestry(HeadTip(p)) \subseteq history[c]

\* What the ref transaction guarantees by itself, even when the lock was lost
\* and several handlers work on one pull, and even when it is torn: a ledger ref
\* is created once and never replaced, and whatever a handler does to the
\* branches, with a ledger ref or without, no commit of theirs is lost.
GitLosesNothing ==
  [][/\ \A p \in Pull : ledger[p] # NoOid => ledger'[p] = ledger[p]
     /\ \A p \in Pull : MergesNow(p) => MovesBase(p, ledger'[p])
     /\ \A h \in Handler : pc'[h] # pc[h] /\ refs' # refs =>
          MovesBase(job[h].pull, job[h].commit)]_vars

\* A merge is of a head that nobody asks to change and, while review is
\* required, that somebody other than the author has approved: judged by the
\* newest verdicts on that very commit, at the moment the refs move, of all who
\* had write access when the merge looked at them.
ReviewGate ==
  [][\A p \in Pull : MergesNow(p) =>
       \E h \in Handler :
         /\ pc[h] = "txn" /\ job[h].pull = p
         /\ \A u \in job[h].writers : ~Verdict(p, u, HeadTip(p), "request_changes")
         /\ requireReview =>
              \E u \in job[h].writers \ {pull[p].author} :
                Verdict(p, u, HeadTip(p), "approve")]_vars

\* From the moment its merge is in Git a pull is immutable, recorded or not:
\* it is not closed, edited, reviewed or merged a second time, and neither the
\* ledger nor a recorded merge changes.
MergedIsFinal ==
  [][\A p \in Pull : ledger[p] # NoOid =>
       /\ ledger'[p] = ledger[p]
       /\ pull'[p] # pull[p] => /\ pull[p].state = "open"
                                /\ pull'[p] = [pull[p] EXCEPT !.state = "merged",
                                                              !.merged = ledger[p]]
       /\ \A i \in DOMAIN reviews' \ DOMAIN reviews : reviews'[i].pull # p]_vars

-----------------------------------------------------------------------------
(* Refinement: the ledger, not the row, decides whether a pull is merged.   *)

AbstractPull(p) ==
  IF pull[p].state = "absent" THEN [status |-> "absent"]
  ELSE [status |-> IF ledger[p] # NoOid THEN "merged" ELSE pull[p].state,
        base |-> pull[p].base, head |-> pull[p].head, result |-> ledger[p]]

AbstractPulls == [p \in Pull |-> AbstractPull(p)]

Abstract == INSTANCE ReviewedMerge
              WITH lineage <- history, tip <- refs, pulls <- AbstractPulls

\* The six-step protocol, with its crashes and pushes in between, is one
\* indivisible merge: it looks to every user as ReviewedMerge does.
MergeIsAtomic == Abstract!ASpec

-----------------------------------------------------------------------------
(* Liveness.                                                                *)

\* No lock session has been lost while its handler goes on.
SessionsKept == \A h \in Handler : pc[h] # "idle" => lock = h

\* As long as no lock session is lost, a merge Git has is eventually in the
\* metadata, whatever died in between and whoever else wants the lock.  (With a
\* lost session a merge may stay unrecorded: see MergeRecoverable.)
MergeEventuallyRecorded ==
  []SessionsKept =>
    \A p \in Pull : ledger[p] # NoOid ~> pull[p].state = "merged" /\ marker[p] = NoOid

=============================================================================
