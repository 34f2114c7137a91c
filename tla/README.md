# GitClub in TLA+

GitClub is a small Git host: one Go server (`src/implementations/go`), a
PostgreSQL database, bare Git repositories in a data directory, Python adapters
for SSH and for Git hooks (`src/shared`), and side processes (a Kaneo worker,
mirrors, backups). This directory models the parts in which several of these
have to agree, checks the models with TLC on small instances, and proves the
main results with TLAPS for every size.

    tlc -workers 2 -config PullMerge.cfg MCPullMerge.tla     # one run
    tlapm PullMergeProofs.tla                                # one proof module

1. [The system](#1-the-system)
2. [Modules](#2-modules)
3. [Runs](#3-runs)
4. [Proofs](#4-proofs)
5. [Where code and documents disagree](#5-where-code-and-documents-disagree)
6. [What is not modelled](#6-what-is-not-modelled)
7. [Plan](#7-plan)

## 1. The system

Each HTTP request is a goroutine. Any of them may end at any point: `fail()`
panics out of the handler, a query fails, a git command finds no process slot or
is killed after 30 seconds, the process dies. There is no transaction that spans
the stores, so the order of single steps and what undoes or completes them
decides what is correct.

| part | state it keeps | operations | talks to | hard part | correct means |
|---|---|---|---|---|---|
| Pull requests (`collaboration.go`) | rows `pull_requests`, `reviews`; branches; ledger refs `refs/gitclub/merges/N`; marker files `gitclub-merge-N.json` | create, edit, review, merge, `reconcileMerges` | Git, PostgreSQL, files; runs under the repository lock | one merge changes three stores; crashes; pushes move the branches meanwhile | a merge is atomic, never lost, never done twice, of the reviewed head, and reported truthfully |
| Lock and pool (`db.go`) | 25 pooled connections, advisory locks held by sessions | `lockRepo`, every query | PostgreSQL | a lock holder needs a second connection; waits without deadlines | no leak, no lock without its session, no exhaustion |
| Push hook (`git.go`, `git-hook.py`) | none of its own; reads the settings row | pre-receive, post-receive | git receive-pack, HTTP, SSH | the decision and the ref update are apart, and unlocked | the default branch is neither rewound nor deleted, nor moved around the review |
| Kaneo (`kaneo.go`, `deploy/kaneo/sync.py`) | SQLite ledger of completions; tasks in Kaneo | paged feed, sweep | GitClub API, Kaneo API | status change and ledger entry are apart; answers get lost; several workers; people move tasks | every merge completes its task once and for all |
| Freshness and settings (`git.go` `refresh`, `repositories.go` `PATCH`) | `default_oid`, `updated_at`, `default_branch`, HEAD | refresh on visit, hook, merge; PATCH of the whole row | Git files, PostgreSQL | refresh has no lock, PATCH writes back what it read | the cached tip is eventually right; no PATCH undoes another |
| Accounts, sessions, rate limit (`main.go`) | users, tokens, failures per host | register, login, tokens | all routes | check and count of attempts are apart; the table is bounded; names are shared with organizations | bounded attempts, lockouts that end, accounts that are whole |
| Namespaces, groups, members, pins (`repositories.go`) | roles | single statements | all routes ask for roles | roles change while requests run | decided by the roles read |
| Repository creation (`repositories.go`) | row and directory | insert, init, clean-up | Git, PostgreSQL, mirrors | others see the row first; partial failure | nobody relies on a directory that is not there |
| Git processes (`git.go`) | two slot pools (8 and 6) | read, transfer, hook | git, requests that hold connections and locks | hooks wait for slots that transfers hold | hooks get through, every request ends |
| SSH adapter (`ssh.py`) | 8 file locks, a token per transfer | authorize, serve, logout | API, git | kill, late start, backup | bounded, quiescent on demand |
| Backup, restore (`scripts/gitclub`) | server lock, archive | dump and copy while stopped | PostgreSQL, files, transfers | transfers in flight, processes that outlive the holder of their lock | what restores is consistent |
| Mirrors (`deploy/i9`) | mirrors, published state with the recovery target | sweep, recover | API, git, write-ahead log | target against listing and fetch; short lists | the target is covered |
| Migrations, MCP, web, deployment | | | | | |

The lock is the centre of their interaction. The `/pulls` routes and the Kaneo
feed take it and reconcile first; `PATCH /repos/ID` takes it and does not
reconcile; pushes, memberships, `refresh` and visits take no lock at all. So
each model pairs something locked with something that is not.

## 2. Modules

| module | models | |
|---|---|---|
| `PullMerge` | pull requests, merging, reconciliation | core |
| `ReviewedMerge` | the same in one step per operation | abstract specification |
| `PullMergeInv` | inductive invariant of `PullMerge` | |
| `PullMergeProofs` | theorems, the refinement among them | |
| `LockPool`, `LockPoolProofs` | repository locks, connections and process slots | |
| `PushGate`, `PushGateProofs` | pre-receive hook and default branch | |
| `KaneoSync`, `KaneoSyncProofs` | feed and worker | |
| `Freshness`, `FreshnessProofs` | cached tip, PATCH, HEAD | |
| `MirrorSweep`, `MirrorSweepProofs` | repository creation, sweep and recovery target | |
| `Backup`, `BackupProofs` | server lock, SSH and HTTP transfers, backup, restore | |
| `SignIn`, `SignInProofs` | rate limit, registration, login, organizations | |
| `MC*` | constants and symmetry for TLC | |

Operators whose comment starts with "Mutant of" are variations of the operator
that follows them, each a plausible mistake. No specification uses them. They
are there to show that a property notices: with the operator replaced, TLC finds
it violated.

### PullMerge

`history`, `refs` and `ledger` are the repository; `marker` the files; `pull`,
`reviews`, `role` and `requireReview` the database; `lock` the advisory lock;
`pc` and `job` what each handler is doing and what it has read. A commit is a
number, `history[c]` its ancestors with itself. `job[h].writers` is who had write
access when the blockers were computed: only their verdicts count. Comments, titles, bodies and
task links change nothing here and are left out.

| code | action |
|---|---|
| `lockRepo`, second read of the row (collaboration.go 181-186) | `Acquire`, `AcquireForSettings` |
| `reconcileMerges` (137-170), per marker | `RecClearUnapplied`, `RecRecord`, `RecClear`; `RecDone` |
| `POST /pulls`, `PATCH /pulls/N`, `POST .../reviews` | `CreatePull`, `EditPull`, `Review` |
| `GET`, comments, refusals | `Answer` |
| merge: first tip; second tip, blockers, `merge-tree`, `commit-tree` (353-368) | `MergeReadBase`, `MergeInspect` |
| `durableMarker` (102-133) | `MarkerCreate`, `MarkerWrite`, `MarkerFail` |
| `update-ref --stdin` (374) | `TxnCommit`, `TxnReject`, `TxnTorn` |
| second reconciliation and answer (376-386) | the `Rec...` actions in "settle", `Report` |
| any failure, or the death of the process | `Abort` |
| the session that holds the lock ends | `LoseSession` |
| pushes, memberships | `PushCommit`, `PushMove`, `SetRole` |

Places where the model is coarser than the code, and why that is sound:

- The role check of a route is one step with the first change that depends on
  it. Roles change at any time, so every order of check and change remains.
- `EditPull` and `Review` read and write in one step. Nobody else writes these
  rows while the lock is held. With `session_loss` in `Faults` two handlers can
  overlap, so what is claimed of those runs is Git's side (`GitLosesNothing`), or
  has the condition that no session is lost (`MergeEventuallyRecorded`).
- The blockers, `merge-tree` and `commit-tree` are one step, with the head tip.
  They depend on commits, which do not change, on reviews and pulls, which the
  lock protects, and on roles.
- Pushes may do anything the hook lets through under some settings: rewind,
  delete, move anywhere. That is more than any one setting allows.
- A crash of the whole process is an `Abort` of every handler.

`Faults` switches three faults: a marker torn by a crash, a ref transaction torn
by a kill (git renames its refs one after the other), a lost lock session.

`ReviewedMerge` says what users are promised: merging is one indivisible step
from an open pull and the current tips. The refinement mapping takes the ledger
ref, not the row, as the moment of the merge.

### LockPool

What requests of one server compete for. A request takes a connection for each
query (`busy`) and, while it waits for and holds a lock, keeps one more
(`session`); a git command takes a process slot (`gitSlots`), a transfer one of
these and one of its own kind (`transferSlots`). `Arrive` stands for any
request, the hook's call to the server included; its authentication is its
first query. Then it may query (`AskAgain`), run git (`RunGit`, `Hook`), become
a transfer (`StartTransfer`) or lock (`WantLock`), `MaxSteps` times in all.

- `Grant` and `Connect` are database/sql; they are disabled while the pool is
  full, and that wait has no deadline (`context.Background()`, db.go 210 and the
  query helpers). `GiveUp` is the timeout of the wait for the lock, the client
  that leaves and the failed attempt.
- A command that finds no slot is refused and its request goes on, so refusal
  needs no action of its own. Only the hook waits (`HookRuns`, `HookTimesOut`).
- The hook of a transfer is a request like any other, without a link to the
  transfer that waits for it; `EndTransfer` may therefore come before its hook
  ends, as it does when a transfer is killed. `End` is the return of the handler.
  `SlotsDrain` says why a transfer never waits for a hook that waits for transfers.
- `UnlockFails` leaves the lock on a connection that goes back to the pool
  (`stale`): requests on other connections cannot get it until `Expire`.

### PushGate

`Send` is the client naming an update, `Admit` the hook's decision from the row
it reads then (`seen` records it for the properties), `Land` git's
compare-and-swap, `Refuse` everything that ends a transfer. Between the hook and
the update git looks at HEAD (`ReadHead`): it does not delete the branch HEAD
names (`receive.denyDeleteCurrent`, whose default `initializeRepo` leaves alone).
PATCH changes the default branch in two steps, HEAD first (`MoveHead`,
repositories.go 262-266), then the row (`WriteDefault`, 267-271), and may die in
between. `Merge` is a step that PullMerge justifies. A push of several refs is modelled as several updates:
git applies them one by one, each with its own old value, and the hook decides
on each one alone.

### KaneoSync

One configured repository. A worker's local state is the page it reads and the
transaction it is in; `writer` is SQLite's write lock, taken by `BEGIN
IMMEDIATE`. `Put(w, FALSE)` is a change that was applied and whose answer was
lost. Waiting for the lock longer than SQLite's timeout is `Crash`, which ends
the sweep.

### Freshness

`clock` counts branch updates and stands for the time; a commit is named by the
time of its push, which is enough to tell old from new. `Leave` covers every way
in which a refresh ends without writing. `PatchFails` covers the failed git
command and the failed query, after HEAD has moved too.

### MirrorSweep

Default branches only grow as long as the settings stay what the hooks saw
(`DefaultProtected`), so a commit of one is a number; a repository whose default
branch is changed during a sweep is not modelled. The state is `tip` in the repository, `held` in the mirror, `named[k][t]` the newest
one that rows of moment `t` name. `now` is the server's clock, from which both
the `Date` of a listing and the timestamps of the write-ahead log are taken.

| code | action |
|---|---|
| `POST /repos`: INSERT, `git init`, clean-up (repositories.go 205-211) | `InsertRow`, `InitDir`, `CreateFails` |
| pushes and merges; `refresh()` and merges that write a commit's name | `Push`, `Name` |
| a PATCH of the visibility takes a repository from the sweep's account (repositories.go 238-243) | `LoseAccess` |
| membership (298-308), or a PATCH of the visibility, gives it back | `GainAccess` |
| the listing's query; its answer and `Date`; refusal and timeout | `ListRepos`; `ListServed`; `ListRefused` |
| `mirror()` per repository, in the order of identifiers | `MirrorOne`, `MirrorFails` |
| `write_state()`, the held target, a kill | `Publish`, `Hold`, `Interrupt` |

Query and answer of the listing are two steps, because a repository may be
created, or the account be given access to one, between them; `born` and
`gained` say when. The code reads the roles row by row after the query; a role
that changes meanwhile is as if it had changed before the query. `MarginAssumption` is what the code's constants give: the
listing's timeout of 60 seconds is not above the safety margin, 60 by default. A
smaller margin on the command line is outside of what is claimed.

### Backup

`lock` is `server.lock`, `slot` the eight `flock`ed files. Both die with the
process that took them, so a process that loses its parent goes on without:
`StopServer` (main returns at once, git children have groups of their own),
`KillSupervisor` and `KillAdapter` make such strays, `orphans` and `Stray` keep
track of them. What a transfer brings is objects first, a reference next
(`Store`, `Land`: git leaves the quarantine before it updates references), and
rows that name it later (`Record`). `CopyObjects` and `CopyRefs` come in any
order, as `copytree` takes them. A lock file is taken by `flock`, whose race with
`open` matters to nobody, so both are one step.

### SignIn

The table of `main.go` 181-220 by host (`known`, `count`, `age`), and accounts and
namespaces. An attempt is admitted, does its work and is counted only if it
fails. Two transactions that insert the same key wait for one another
(`Inserting`), which is PostgreSQL's unique index. `Breaks` is a failure that is
not the client's and is not counted. Passwords are right or wrong by choice.

## 3. Runs

| run | instance | shows |
|---|---|---|
| `PullMerge` | 2 handlers, 2 pulls, 2 branches, 4 commits, torn markers and refs | refinement of `ReviewedMerge`, `IInv`, `MergeRecoverable`, `MergedIsProved`, `MarkerIsTrustworthy`, `ReadsAreSettled`, `AnswerIsTruth`, `MergeTakesCurrentTips`, `MergedIsFinal` |
| `PullReview` | 2 handlers, 1 pull, 3 commits, 2 reviews, changing roles | `ReviewGate` |
| `PullLive` | 2 handlers, 1 pull, 4 commits, lost sessions and torn refs, from an open pull | `MergeEventuallyRecorded`, `GitLosesNothing` |
| `Pool` | 3 requests, 2 repositories, 2 connections, 2 process slots, 1 of them for a transfer | `PoolInv`, `PoolDrains`, `SlotsDrain`, `EveryRequestEnds` |
| `PushGate` | 2 pushes, 2 branches, 3 commits | `PushInv`, `DefaultProtected` |
| `Sync` | 2 workers, 2 tasks, 2 pulls, pages of one | `SyncInv`, `CompletedIsLeftAlone`, `NothingIsPassedOver`, `EveryMergeCompletes` |
| `Fresh` | 2 visitors, 2 PATCHes, 2 branches, 2 updates | `PatchInv`, `OthersDefaultIsKept`, `HeadFollowsDefault`, `EventuallyFresh` |
| `Mirror` | 2 repositories, 3 moments, margin and timeout of 1 | `MirrorInv`, `TargetCovered`, `InventoryComplete`, `LossNeedsNewcomer`, `EventuallyCurrent` |
| `Backup` | 2 transfers, each by SSH or HTTP, 2 file locks | `BackupInv`, `RestoreIsSound`, `ArchiveIsOneMoment`, `BackupEventuallyDone` |
| `SignIn` | 4 hosts, 2 attempts, 1 name, limit 2, table of 2 | `SignInInv`, `FailuresBounded`, `TableBounded`, `AccountIsWhole`, `LockoutEnds` |
| `PullSessionLoss`, `PushGateRace` | | counterexamples, section 5 |

Nothing in these systems stops for good (a request can always arrive, or a
worker start), so every run also checks for deadlock, except two: `Backup`, where
each transfer takes place once and the backup ends, and `Pool`, where two lock
holders with the only two connections do wait for a third for ever (section 5).

**Bounds.** `PullMerge`: a merge needs two tips and writes a third commit; the
fourth lets a push land in between or a second pull merge. Two pulls are needed
for one marker to meet the merge of another pull, two handlers for a crash to be
met by the next request. `MaxReviews` is 0 where reviews play no part (review
is then switched off by `SetRequireReview`), and 2 where a verdict must be
withdrawn. `PullReview` has 3 commits: a reviewed head that is then moved needs no more,
because the head can move to a commit that exists; its two accounts may both ask
for changes, and one of them loses and regains write access. `PullLive` starts
with an open pull between two branches (`MCOpened`, a state of `Spec` that takes
two pushes, a PATCH and a `POST /pulls` to reach), because two handlers that
both lose their session and work on that pull are what it is about; its
`MCLiveNext` leaves out further changes of settings and pushes that put a branch
on an old commit. Pushes of new commits anywhere and deletions remain.
`Pool`: PoolSize 2 against 3 requests is the smallest pool that is full while
somebody waits, and two repositories are as many as it has connections, so that
the condition of `PoolDrains` and `EveryRequestEnds` is put to use: both hold of
the same instance in which the deadlock occurs. `MaxSteps` is 1: each request
does one thing more than its first query and, if it likes, locks a repository.
The code has 25 connections and the proof of `PoolDrains` covers any number.
`PushGate`: 3 commits give a base and two rivals; only the first is a root, for
where an unrelated history matters a sibling does as well. `Sync`: pages of one
make two pulls two pages (the code has 100). `Fresh`: two updates make a stale
tip and a current one, or one on each branch. `Pool` has one transfer slot of
two, as the code has six of eight: the difference is what matters, and it is a constant of
the proof. `Mirror`: a target behind the listing needs one moment before and one
after it; two repositories let one take the place of another in the count.
`Backup`: two transfers make one hold a file lock while another comes late;
`SignIn`: two attempts exceed the limit together, and four hosts fill a table of
two (4096 in the code) and come back to it.

**Symmetry** is used for handlers, branches and pushes where all properties are
safety properties, never with liveness.

**Fairness** and why the code justifies it.

- `PullMerge`: `SF(Acquire)`: the Kaneo worker asks for the feed once a minute
  and that reconciles, and `lockRepo` polls, so a free lock is obtained some
  time. `WF` of a handler's steps: goroutines run. `SF` of each reconciliation
  step: failures of git and of the database do not hit the same step for ever.
  A torn marker stops reconciliation until an operator acts, as the code says
  (503), so `PullLive` runs without that fault. `MergeEventuallyRecorded` is
  claimed of executions in which no lock session is lost (`[]SessionsKept`);
  with a lost one a merge may stay unrecorded (`PullSessionLoss`).
- `LockPool`: a query is answered; a waiting request obtains the lock or gives
  up; a handler ends after finitely many queries; and of those who wait for a
  connection none is passed over for ever (database/sql picks at random).
  `EveryRequestEnds` has a condition the code does not guarantee, and states it:
  that the locked repositories are, again and again, fewer than the connections.
- `KaneoSync`: workers go on, and no transaction lasts for ever (requests have
  timeouts, a dead process gives its lock back); the daemon obtains the SQLite
  lock some time. `EveryMergeCompletes` speaks of one pull at a time: once the
  daemon's own failures on that pull stop, it completes, whatever fails for ever
  elsewhere.
- `Freshness`: somebody keeps visiting, and not every visit fails.
  `EventuallyFresh` speaks of the state after PATCHes and pushes have stopped.
- `MirrorSweep`: the clock runs and a timer starts one sweep after another.
  `EventuallyCurrent` speaks of the time after fetches have stopped failing.
- `Backup`: git processes end (they are killed after 120 seconds), an adapter
  with a token uses it, and whoever wants a backup tries again.
  `BackupEventuallyDone` supposes that the server is stopped for good.
- `SignIn`: statements end; `SF` of each host's attempts is a host that keeps
  trying, which is the worst case for a lockout and not a restriction.

**What the properties say** is written above each of them in its module. The
ones that took the most care:

- `MergeRecoverable` relates the ledger ref, the marker and the row. Everything
  that reconciliation does rests on it.
- `ReviewGate`: nobody who had write access when the merge looked asks to change
  the head that is merged, and while review is required somebody else than the
  author approves it, both by the newest verdicts at the moment the refs move.
  What it does not say is that they still have that access.
- `GitLosesNothing` is what is left when the lock is lost: two handlers may be
  anywhere in a merge of the same pull, and the ref transaction may be torn.
  Whatever a handler does to a branch, the branch keeps its commits and gets the
  head's, and a ledger ref is written once.
- `AnswerIsTruth`: after an error from git, a 409 is said only if the merge did
  not happen. It holds because the row is read again, after a reconciliation,
  under the same lock.
- `DefaultProtected`: two pushes admitted side by side, or a merge between hook
  and update, do not undo one another. It holds through git's
  compare-and-swap, with the hook's answer about commits, which never change.
  Its precondition, no update in flight that was admitted under other settings,
  is necessary (`PushGateRace`).
- `SlotsDrain`: transfers alone cannot take all slots, so a hook that waits for
  one waits for a command of at most thirty seconds, never for its own transfer.
- `InventoryComplete`: the listing's query is older than its `Date`. What is
  created, or what the account is given access to, in between is kept out of the restored rows by the margin alone; with
  the target at the time of the answer (`PublishAtOnce`) it fails.
- `RestoreIsSound` holds under every fault, strays included, because rows are
  dumped before anything is copied and the restore runs `fsck`. The stronger
  claim, `ArchiveIsOneMoment`, needs that no stray runs: then rows, objects and
  references in an archive are what they were at the dump, although they are read
  one after the other while transfers with a token look for a file lock.
- `FailuresBounded`: the check and the count of an attempt are apart, so a host
  gets past the limit; the bound is the number of attempts at the same time.
- `CompletedIsLeftAlone`: the ledger entry and the check for it are under the
  write lock that `BEGIN IMMEDIATE` takes. A deferred transaction breaks it.
- `NothingIsPassedOver`: pulls that merge during a sweep shift the pages it has
  not read yet. The cursor is a position in the feed's order and not an offset,
  so what is ahead of a sweep stays ahead until the sweep takes it, and a sweep
  ends its feed with nothing ahead. With one page only (`FetchOnce`) it fails.

## 4. Proofs

| theorem | says | assumes |
|---|---|---|
| `PullMergeProofs!TypeCorrect` | `TypeInv`, under every fault | |
| `PullMergeProofs!Inductive` | `IInv` | `SessionsHold` |
| `PullMergeProofs!Recoverable` | `MergeRecoverable` | `SessionsHold` |
| `PullMergeProofs!Proved`, `Trustworthy` | `MergedIsProved`, `MarkerIsTrustworthy` | `SessionsHold` |
| `PullMergeProofs!Settled`, `Truthful` | `ReadsAreSettled`, `AnswerIsTruth` | `SessionsHold` |
| `PullMergeProofs!Atomic` | `PullMerge` implements `ReviewedMerge` | `SessionsHold` |
| `PullMergeProofs!TipsAreCurrent`, `Final` | `MergeTakesCurrentTips`, `MergedIsFinal` | `SessionsHold` |
| `PullMergeProofs!Reviewed` | `ReviewGate` | `SessionsHold` |
| `PullMergeProofs!NothingLost` | `GitLosesNothing` | |
| `PullMergeProofs!NeedsNoOperator` | `RecoversByItself` | `SessionsHold` |
| `LockPoolProofs!PoolCorrect` | `PoolInv` | |
| `LockPoolProofs!PoolNeverStuck` | `PoolDrains` | |
| `LockPoolProofs!SlotsNeverStuck` | `SlotsDrain` | |
| `PushGateProofs!PushCorrect` | `PushInv` | |
| `PushGateProofs!DefaultIsProtected` | `DefaultProtected` | |
| `KaneoSyncProofs!LedgerSerializes`, `LedgerIsKept` | `SyncInv`, `CompletedIsLeftAlone` | |
| `KaneoSyncProofs!FeedIsWalked` | `NothingIsPassedOver` | |
| `FreshnessProofs!PatchIsSerial`, `DefaultIsKept`, `HeadIsDefault` | `PatchInv`, `OthersDefaultIsKept`, `HeadFollowsDefault` | |
| `MirrorSweepProofs!MirrorCorrect`, `RecoveryIsSound`, `RecoveryIsComplete`, `LossIsNoticed` | `MirrorInv`, `TargetCovered`, `InventoryComplete`, `LossNeedsNewcomer` | |
| `BackupProofs!BackupCorrect`, `RestoreCorrect`, `ArchiveCorrect` | `BackupInv`, `RestoreIsSound`, `ArchiveIsOneMoment` | |
| `SignInProofs!SignInCorrect`, `LimitIsKept`, `TableIsBounded`, `AccountsAreWhole` | `SignInInv`, `FailuresBounded`, `TableBounded`, `AccountIsWhole` | |

All of them hold for any sets of handlers, branches, workers and so on (of
`LockPool`'s requests and repositories, and of `SignIn`'s hosts and attempts, for
any finite ones); the constants' assumptions stand in the modules that declare
them. One further assumption is made, and it is needed: `SessionsHold`, a lock
session is not lost while its handler goes on. Without it `MergeRecoverable` is
false (`PullSessionLoss`).

Two properties have a condition of their own, and it is in the property:
`PoolDrains` speaks of states in which fewer repositories are locked than the
pool has connections (`Pool` has as many repositories as connections, and with
the deadlock check on TLC finds two lock holders that wait for a third);
`RecoversByItself` of executions without the fault `torn_marker`, after which the
code itself asks for an operator. Of those that are only model-checked,
`EveryRequestEnds` has the condition of `PoolDrains`, infinitely often, and
`MergeEventuallyRecorded` that no lock session is lost.

**The merge protocol.** `MergeRecoverable` is not inductive by itself: clearing
a marker keeps it only if the ledger really is empty and no transaction is about
to fill it, which is a matter of who holds the lock. `IInv` therefore says:
whoever is not idle holds the lock (`OneHolder`); where that handler is
determines which markers exist (`MarkerPhase`: none between reconciliation and
`MarkerCreate`, its own torn one while writing, exactly its commit in "txn");
the pull it merges is open and unmerged until the transaction (`JobPhase`); and
the stores agree as far as they can (`Stores`).
`Gate` carries what the blockers found from the inspection to the transaction:
while the lock is held nobody changes reviews, pulls or the requirement, so of
the writers it counted still nobody asks to change the head it read, and one
approves it if that is required (`Cleared`); it is what `ReviewGate` follows
from. `Commits` adds what the refinement
needs: refs name written commits, ancestries are closed, and the commit to be
published contains both tips that were read. The proof has a lemma per part
(`ControlStep`, `StoresStep`, `CommitsStep`), each with a case per action.

**The refinement.** Given `IInv`, `TxnCommit` maps to `MergeAtomically`: its
compare-and-swap makes the tips that were read the current ones. `RecRecord`
maps to a stutter, because a row that becomes merged was merged already as far
as the ledger is concerned; pushes and commits map to `Push` and `WriteCommit`.

**Without the lock.** `NothingLost` does not assume `SessionsHold`: with two
handlers in the same merge only types, the ancestries and the checks of the ref
transaction are left, and they suffice for Git's side, whether the transaction
commits or is torn (`TakesTips`).

**Recovery without an operator.** Reconciliation refuses to go on when it cannot
read a marker, or when marker and ledger disagree (collaboration.go 144-162).
`NeedsNoOperator` excludes both, however often requests die in between.
`TornIsWritten` says that a marker without content belongs to the handler that is
about to write it, which holds the lock, so nobody reconciles meanwhile; that what
can be read agrees with the ledger is `IInv`. It is the safety half of
`MergeEventuallyRecorded`: whatever is left, some step of `ReconcileOne` applies.
It is a theorem without a run of its own: `PullLive` checks the temporal
claim it supports on an instance.

**The pool.** A full pool in which nobody can give a connection back consists of
lock holders that wait for a second connection. Distinct holders hold distinct
repositories (`Ownership`), so there are at most as many as locked repositories
(`HoldersAreFew`, by an injection), fewer than the pool has connections.
`SlotsDrain` is the same counting argument: full slots that are all transfers'
would be more transfers than transfer slots.

**The feed.** `FullPage` is what pagination rests on: what is merged after the
cursor and is not on a page follows everything on it, and the page is full.
Pages are defined by ranks (the number of entries ahead), so the proof shows that
the entries between two positions are finitely many, and takes least elements of
finite sets where one would argue by induction; `LeastOne` and `GreatestOne` get
them from the well-foundedness of the order. `SweepStep` then follows what is
ahead of a sweep from page to page.

**Sign-in.** `FailuresBounded` counts the attempts in progress with the failures:
admitting an attempt adds one to that sum while the failures alone are below the
limit, and counting a failure leaves it as it was. `TableBounded` is the same
argument for hosts and is not inductive: a failure may put a host back that
`rate()` has dropped from the table. `TableCovered` counts the hosts that may
still come back this way as if they were in it. `Keys` (rows not committed yet are
new, and no two attempts hold the same one) is what PostgreSQL's unique indexes
give, and `AccountIsWhole` rests on it: a transaction that commits finds its name
as free as it was at its insert.

**The mirror.** `SweepInv` is what a sweep in progress has established for the
target it may publish: every repository that is readable and not listed is
younger than that target, or became readable after it, and every repository fetched so far is held up to
whatever rows named before the answer. Both survive what the server does
meanwhile, because rows are only named at the current time, and commits are only
added.

**The backup.** `LockInv` ties each file lock to the process that is alive
behind it, and so says that with all of them in the backup's hands, and no stray,
no transfer is at `Store` or `Land`; `CopyIsQuiet` and `NothingGoesAstray` carry
that from the dump to the archive, which is therefore of one moment. `DataInv`
keeps rows within references within objects, in the directory and, since objects
are copied after the rows were dumped, in the archive.

**The default branch.** `Admitted` is stable because it speaks of commits and of
the row as it was read. When the update lands, `Settled` makes that row the
current one, the compare-and-swap makes the old value the current tip, and the
only other step that moves a branch is a merge, which contains its base.

**Only model-checked:** every liveness property (out of the prover's reach, like
`ENABLED`): `MergeEventuallyRecorded`, `EveryRequestEnds`, `EveryMergeCompletes`,
`EventuallyFresh`, `EventuallyCurrent`, `BackupEventuallyDone`, `LockoutEnds`. Every
safety and action property of a passing run is proved.

## 5. Where code and documents disagree

The first two are runs in which TLC finds a statement of the repository violated.

- `PullSessionLoss` (db.go 205): the advisory lock belongs to a database session
  and nothing tells the handler, or the git process it started, that the session
  ended. Another handler takes the lock, finds a marker without a ledger ref,
  removes it, and then the first transaction commits. The merge is in Git. The theorem `NothingLost` bounds the damage:
  no commit is lost and no pull is merged twice.
- `PushGateRace` (git.go 408): "always forbids non-fast-forward/deletion"
  (CONTRACT.md 82) does not survive a change of the default branch between hook
  and update. A push that resets a feature branch to an older commit is admitted;
  the branch is made the default, in HEAD and in the row; then the push lands and
  the default branch has lost a commit. The deletion of that branch git would
  refuse by itself (`ReadHead`), so the run is about commits that are lost.

Two more follow from the models without a run of their own:

- db.go 59-61 sizes the pool by the 8 git slots, but a route holds its lock
  session without holding a slot. Requests that lock as many repositories as
  there are connections wait for one another, without a deadline; the condition
  of `PoolDrains` and `EveryRequestEnds` says when they do not.
- sync.py 222: the status change precedes the ledger entry, so a crash or a lost
  answer in between makes the next sweep close a task again that somebody has
  reopened, which deploy/kaneo/README.md 54 rules out. In `KaneoSync` that is
  `Put`, `Crash`, `MoveByHand`, `Begin`, `SeeOpen`, `Put`. `CompletedIsLeftAlone`
  is what does hold: a pull that is in the ledger is left alone.

## 6. What is not modelled

- Schema migrations: they run before the server listens, one transaction each,
  and `server.lock` keeps a second server of the same directory away.
- MCP translates tool calls into the same routes, the web interface is a client,
  deployment starts processes: no state of their own.
- Groups, pins, comments, logout, keys and token routes: single statements, or
  one transaction, without interaction beyond the roles that `SetRole` and
  `SetWriter` change.
- What Git's read routes parse and answer, URLs, refs in loose and packed form,
  formatting.
- `gitclub-recover` and `gitclub-verify-recovery` work on a copy nobody else
  uses; what they need is `TargetCovered` and `InventoryComplete`.
- The expiry and withdrawal of an SSH token: in `Backup` a transfer whose token
  has expired is one that ends without `Admit`.
- Two instances of the server are covered as far as the repository lock is
  concerned (handlers are not assigned to instances).

Known from reading and from the models, without a property that says otherwise:
who has write access is read once before the merge, and may have changed when
the refs move; after `TxnTorn` a branch has a merge that reconciliation treats as
never applied; a stale `refresh` may replace an accurate row for a while, and a
PATCH may restore an older update time; a topic branch that is rewound before it
is fetched is missing from the mirror; a repository whose initialization failed
after a sweep published it stops further targets until `--allow-shrink`; a git
process or a server that outlives the holder of its lock writes during a backup,
which `RestoreIsSound` tolerates; two admins may demote one another.

## 7. Plan

The order is that of what would cost users most.

1. `PullMerge` with its abstract specification, invariant and refinement: done.
2. `LockPool`, `PushGate`, `KaneoSync`, `Freshness` with their proofs: done.
3. `LockPool` with process slots, transfers, hooks and locks left behind: done.
4. `MirrorSweep` and `Backup` with their proofs, repository creation as they see
   it, `SignIn`: done.
5. Proofs of `ReviewGate`, `MergeTakesCurrentTips`, `MergedIsFinal` and, without
   `SessionsHold`, `GitLosesNothing`: done.
6. Proofs about `SignIn`, the feed's pagination, the archive of one moment, the
   pool without an assumption on the number of repositories, and recovery
   without an operator: done.
7. Left: topic branches and the hidden ledger refs in `MirrorSweep`; the
   composition of `LockPool`'s transfers with `PushGate`'s decision; an abstract
   specification of the worker's ledger and of the repository lock, with
   refinement proofs; pure functions against reference definitions (placeholder rebinding
   in db.go, capped output, resolution of loose and packed refs in git.go
   173-228); groups.
