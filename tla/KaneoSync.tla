------------------------------ MODULE KaneoSync ------------------------------
(***************************************************************************)
(* The worker that marks a Kaneo task done after the pull request linked   *)
(* to it has merged, for one repository.  A sweep reads the feed of merged *)
(* pulls page by page from the beginning, and settles each pull in one     *)
(* transaction of its SQLite ledger: skip it if it is in the ledger, else  *)
(* read the task, set its status, record the pull.  Several workers (the   *)
(* daemon, and runs with --once) may share the ledger.  Every HTTP request *)
(* can fail, a status change can be applied although its answer is lost,   *)
(* and a worker can die anywhere.  People move tasks by hand meanwhile.    *)
(***************************************************************************)
EXTENDS Integers, FiniteSets

CONSTANTS
  Worker,       \* processes that share the ledger
  Daemon,       \* the one that sweeps once a minute
  Task,         \* tasks of the Kaneo project
  MaxPull,      \* bound: rows of pull_requests
  PageSize,     \* rows of one page of the feed
  Nobody        \* no write transaction is open

ASSUME BoundAssumption == MaxPull \in Nat
ASSUME PageAssumption == PageSize \in Nat \ {0}
ASSUME WorkerAssumption == Daemon \in Worker /\ Nobody \notin Worker

VARIABLES
  merged,       \* pulls that are merged and name a task
  link,         \* link[p]: the task p names
  done,         \* tasks in the configured column
  completed,    \* the ledger
  writer,       \* holder of the ledger's write transaction
  pc,           \* pc[w]: where worker w is
  after,        \* after[w]: after_id of the page that w reads
  page,         \* page[w]: what is left of that page
  more,         \* more[w]: the page was full, so another follows
  current       \* current[w]: the pull in w's transaction

vars == <<merged, link, done, completed, writer, pc, after, page, more, current>>
feedVars == <<merged, link>>

Pull   == 1..MaxPull
NoPull == 0
Step   == {"idle", "feed", "page", "task", "put", "record"}
Locked == {"task", "put", "record"}

TypeOK ==
  /\ merged \subseteq Pull
  /\ link \in [Pull -> Task]
  /\ done \subseteq Task
  /\ completed \subseteq Pull
  /\ writer \in Worker \cup {Nobody}
  /\ pc \in [Worker -> Step]
  /\ after \in [Worker -> Pull \cup {0}]
  /\ page \in [Worker -> SUBSET Pull]
  /\ more \in [Worker -> BOOLEAN]
  /\ current \in [Worker -> Pull \cup {NoPull}]

Init ==
  /\ merged = {} /\ link \in [Pull -> Task]
  /\ done = {} /\ completed = {}
  /\ writer = Nobody
  /\ pc = [w \in Worker |-> "idle"]
  /\ after = [w \in Worker |-> 0]
  /\ page = [w \in Worker |-> {}]
  /\ more = [w \in Worker |-> FALSE]
  /\ current = [w \in Worker |-> NoPull]

Goto(w, step) == pc' = [pc EXCEPT ![w] = step]

-----------------------------------------------------------------------------
(* The feed: GET /api/repos/ID/kaneo/merges?after_id=N.                     *)

\* The merged pulls with the least numbers above n, at most PageSize of them.
PageAfter(n) ==
  {p \in merged : n < p /\ Cardinality({q \in merged : n < q /\ q < p}) < PageSize}

\* A sweep starts at the beginning, so that older pulls that merged later and
\* pulls that failed before are seen.
Start(w) ==
  /\ pc[w] = "idle"
  /\ after' = [after EXCEPT ![w] = 0]
  /\ Goto(w, "feed")
  /\ UNCHANGED <<feedVars, done, completed, writer, page, more, current>>

\* Mutant of Fetch: a full page is taken for the last one.
FetchOnce(w) ==
  /\ pc[w] = "feed"
  /\ page' = [page EXCEPT ![w] = PageAfter(after[w])]
  /\ more' = [more EXCEPT ![w] = Cardinality(PageAfter(after[w])) > PageSize]
  /\ Goto(w, "page")
  /\ UNCHANGED <<feedVars, done, completed, writer, after, current>>

Fetch(w) ==
  /\ pc[w] = "feed"
  /\ page' = [page EXCEPT ![w] = PageAfter(after[w])]
  /\ more' = [more EXCEPT ![w] = Cardinality(PageAfter(after[w])) = PageSize]
  /\ Goto(w, "page")
  /\ UNCHANGED <<feedVars, done, completed, writer, after, current>>

\* The page is done: ask for the next one, or end the sweep.
EndPage(w) ==
  /\ pc[w] = "page" /\ page[w] = {}
  /\ Goto(w, IF more[w] THEN "feed" ELSE "idle")
  /\ UNCHANGED <<feedVars, done, completed, writer, after, page, more, current>>

\* The feed cannot be read or is malformed: this sweep of the repository ends.
FeedFails(w) ==
  /\ pc[w] = "feed"
  /\ Goto(w, "idle")
  /\ UNCHANGED <<feedVars, done, completed, writer, after, page, more, current>>

-----------------------------------------------------------------------------
(* One pull of the page: BEGIN IMMEDIATE ... COMMIT.                        *)

IsFirst(w, p) == p \in page[w] /\ \A q \in page[w] : p <= q

\* after_id follows the pull, whether it succeeds or not.
TakeNext(w, p) ==
  /\ page' = [page EXCEPT ![w] = @ \ {p}]
  /\ after' = [after EXCEPT ![w] = p]

\* Already in the ledger.
Skip(w, p) ==
  /\ pc[w] = "page" /\ writer = Nobody
  /\ IsFirst(w, p) /\ p \in completed
  /\ TakeNext(w, p)
  /\ UNCHANGED <<feedVars, done, completed, writer, pc, more, current>>

\* Mutants of Begin: the ledger is not consulted, and the transaction takes its
\* write lock only when it writes.
BeginAgain(w, p) ==
  /\ pc[w] = "page" /\ writer = Nobody
  /\ IsFirst(w, p)
  /\ TakeNext(w, p)
  /\ writer' = w
  /\ current' = [current EXCEPT ![w] = p]
  /\ Goto(w, "task")
  /\ UNCHANGED <<feedVars, done, completed, more>>

BeginDeferred(w, p) ==
  /\ pc[w] = "page"
  /\ IsFirst(w, p) /\ p \notin completed
  /\ TakeNext(w, p)
  /\ writer' = w
  /\ current' = [current EXCEPT ![w] = p]
  /\ Goto(w, "task")
  /\ UNCHANGED <<feedVars, done, completed, more>>

Begin(w, p) ==
  /\ pc[w] = "page" /\ writer = Nobody
  /\ IsFirst(w, p) /\ p \notin completed
  /\ TakeNext(w, p)
  /\ writer' = w
  /\ current' = [current EXCEPT ![w] = p]
  /\ Goto(w, "task")
  /\ UNCHANGED <<feedVars, done, completed, more>>

TaskOf(w) == link[current[w]]

\* GET /api/task/ID: the task is in the column, whoever put it there, ...
SeeDone(w) ==
  /\ pc[w] = "task" /\ TaskOf(w) \in done
  /\ Goto(w, "record")
  /\ UNCHANGED <<feedVars, done, completed, writer, after, page, more, current>>

\* ... or it is not.
SeeOpen(w) ==
  /\ pc[w] = "task" /\ TaskOf(w) \notin done
  /\ Goto(w, "put")
  /\ UNCHANGED <<feedVars, done, completed, writer, after, page, more, current>>

\* The end of the transaction of worker w, committed or rolled back.
EndTransaction(w, step) ==
  /\ writer' = IF writer = w THEN Nobody ELSE writer
  /\ current' = [current EXCEPT ![w] = NoPull]
  /\ Goto(w, step)

\* PUT /api/task/status/ID is applied; with its answer lost, the transaction is
\* rolled back.
Put(w, answered) ==
  /\ pc[w] = "put"
  /\ done' = done \cup {TaskOf(w)}
  /\ IF answered
       THEN Goto(w, "record") /\ UNCHANGED <<writer, current>>
       ELSE EndTransaction(w, "page")
  /\ UNCHANGED <<feedVars, completed, after, page, more>>

Record(w) ==
  /\ pc[w] = "record"
  /\ completed' = completed \cup {current[w]}
  /\ EndTransaction(w, "page")
  /\ UNCHANGED <<feedVars, done, after, page, more>>

\* A request fails, the column or the task is not the configured project's, or
\* Kaneo refuses: the next pull's turn.
Fail(w) ==
  /\ pc[w] \in {"task", "put"}
  /\ EndTransaction(w, "page")
  /\ UNCHANGED <<feedVars, done, completed, after, page, more>>

\* The worker is killed, or SQLite fails or waits for longer than its timeout.
Crash(w) ==
  /\ pc[w] # "idle"
  /\ EndTransaction(w, "idle")
  /\ UNCHANGED <<feedVars, done, completed, after, page, more>>

-----------------------------------------------------------------------------
(* The rest of the world.                                                   *)

\* A pull merges; pulls merge in any order.  From then on it is immutable.
Merged(p) ==
  /\ p \notin merged
  /\ merged' = merged \cup {p}
  /\ UNCHANGED <<link, done, completed, writer, pc, after, page, more, current>>

\* Somebody moves a task into or out of the column.
MoveByHand(t) ==
  /\ done' = IF t \in done THEN done \ {t} ELSE done \cup {t}
  /\ UNCHANGED <<feedVars, completed, writer, pc, after, page, more, current>>

-----------------------------------------------------------------------------
Settle(w, p) == Skip(w, p) \/ Begin(w, p)

Sweep(w) ==
  \/ Start(w) \/ Fetch(w) \/ EndPage(w) \/ FeedFails(w)
  \/ \E p \in Pull : Settle(w, p)
  \/ SeeDone(w) \/ SeeOpen(w)
  \/ \E answered \in BOOLEAN : Put(w, answered)
  \/ Record(w) \/ Fail(w)

Next ==
  \/ \E w \in Worker : Sweep(w) \/ Crash(w)
  \/ \E p \in Pull : Merged(p)
  \/ \E t \in Task : MoveByHand(t)

Spec == Init /\ [][Next]_vars

\* The daemon goes on sweeping, and nobody stops inside a transaction: every HTTP
\* request has a timeout, and a process that dies gives its lock back.  The
\* daemon, which SQLite lets poll for the lock, gets it some time.
Fairness ==
  /\ \A w \in Worker : WF_vars(Sweep(w))
  /\ \A p \in Pull : SF_vars(Settle(Daemon, p))

FairSpec == Spec /\ Fairness

-----------------------------------------------------------------------------
\* The transaction's owner is the only worker between BEGIN and COMMIT, and its
\* pull is not in the ledger yet.
SyncInv ==
  /\ TypeOK
  /\ \A w \in Worker :
       pc[w] \in Locked => writer = w /\ current[w] \in merged \ completed

\* A task is moved only for a pull that merged and is not in the ledger: once a
\* completion is durable, no worker touches the task for that pull again, so a
\* task reopened by hand stays open, whichever workers share the ledger.
CompletedIsLeftAlone ==
  [][\A w \in Worker : pc[w] = "put" /\ done' # done /\ pc'[w] # "put"
       => current[w] \in merged \ completed]_vars

\* Pull p lies ahead of worker w: on what is left of its page, or on a page that
\* it has yet to fetch.
Ahead(w, p) ==
  /\ p \in merged /\ after[w] < p
  /\ \/ pc[w] = "feed"
     \/ /\ pc[w] \notin {"idle", "feed"}
        /\ p \in page[w] \/ (more[w] /\ \A q \in page[w] : q < p)

\* A sweep passes over no pull that lies ahead of it: after_id and the page of
\* the feed leave nothing between them, although pulls merge in any order while
\* the pages are read.  Only its turn, or the end of the sweep by a failure of
\* the feed or of the worker, takes a pull out of the sweep's way.
NothingIsPassedOver ==
  [][\A w \in Worker, p \in Pull :
       Ahead(w, p) => Ahead(w, p)' \/ Settle(w, p) \/ FeedFails(w) \/ Crash(w)]_vars

\* The daemon dies in a sweep, cannot read the feed, or fails on p.
Hindered(p) ==
  \/ Crash(Daemon) /\ ~EndPage(Daemon)
  \/ FeedFails(Daemon)
  \/ current[Daemon] = p /\ (Fail(Daemon) \/ Put(Daemon, FALSE))

\* A pull that merges is completed some time, once the daemon's own requests
\* for it go through: it is not passed over on any page of the feed, whatever
\* other pulls fail for ever and whatever other workers do.
EveryMergeCompletes ==
  \A p \in Pull : <>[][~Hindered(p)]_vars => (p \in merged ~> p \in completed)
=============================================================================
