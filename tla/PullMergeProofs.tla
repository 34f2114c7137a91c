--------------------------- MODULE PullMergeProofs ---------------------------
(***************************************************************************)
(* What PullMerge keeps for every number of users, requests, branches,     *)
(* pulls, commits and reviews, proved with TLAPS.  Two of the three faults *)
(* are allowed throughout (a marker torn by a crash, a ref transaction     *)
(* torn by a crash); the third, losing the session that holds the advisory *)
(* lock, is excluded by an explicit assumption of each theorem that needs  *)
(* it, for PullSessionLoss.cfg shows that it breaks them.                  *)
(***************************************************************************)
EXTENDS PullMergeInv, TLAPS

-----------------------------------------------------------------------------
(* Types.                                                                   *)

\* What a handler notes down keeps the shape of a job.
LEMMA JobShape ==
  /\ NoJob \in Job
  /\ \A on \in BOOLEAN : [NoJob EXCEPT !.strict = on] \in Job
  /\ \A j \in Job, e \in BOOLEAN : [j EXCEPT !.err = e] \in Job
  /\ \A j \in Job, p \in Pull, c \in Oid : [j EXCEPT !.pull = p, !.base = c] \in Job
  /\ \A j \in Job, c, d \in Oid, W \in SUBSET User :
       [j EXCEPT !.head = c, !.writers = W, !.commit = d] \in Job
  BY DEF Job, NoJob, NoOid

\* A row keeps its shape when its state, or its state and commit, change.
LEMMA RowShape ==
  /\ \A r \in PullRow, s \in PullState : [r EXCEPT !.state = s] \in PullRow
  /\ \A r \in PullRow, c \in Oid :
       [r EXCEPT !.state = "merged", !.merged = c] \in PullRow
  BY DEF PullRow, PullState

\* No row looks like the absence of one.
LEMMA RowExists == \A r \in PullRow : r # NoPull
<1> SUFFICES ASSUME NEW r \in PullRow, r = NoPull PROVE FALSE
  OBVIOUS
<1>1. r.state \in {"open", "closed", "merged"}
  BY DEF PullRow, PullState
<1>2. r.state = "absent"
  BY DEF NoPull
<1> QED BY <1>1, <1>2

\* Ending a request keeps the control state in its type.
LEMMA FinishShape ==
  ASSUME TypeOK, NEW h \in Handler, Finish(h)
  PROVE  /\ lock' \in Handler \cup {NoHandler}
         /\ pc' \in [Handler -> Step]
         /\ job' \in [Handler -> Job]
  BY JobShape DEF TypeOK, Finish, Step

\* Every action keeps every variable in its type.
LEMMA TypeStep == TypeInv /\ [Next]_vars => TypeOK'
<1> SUFFICES ASSUME TypeOK, JobHasRow, LedgerHasRow, [Next]_vars PROVE TypeOK'
  BY DEF TypeInv
<1> USE DEF TypeOK, gitVars, dbVars, Step
<1>1. ASSUME NEW h \in Handler, Acquire(h) \/ AcquireForSettings(h) PROVE TypeOK'
  <2>1. CASE Acquire(h)
    BY <2>1, JobShape DEF Acquire
  <2>2. CASE AcquireForSettings(h)
    BY <2>2 DEF AcquireForSettings
  <2> QED BY <1>1, <2>1, <2>2
<1>2. ASSUME NEW h \in Handler, Abort(h) \/ LoseSession(h) PROVE TypeOK'
  <2>1. CASE Abort(h)
    BY <2>1, FinishShape DEF Abort
  <2>2. CASE LoseSession(h)
    BY <2>2 DEF LoseSession
  <2> QED BY <1>2, <2>1, <2>2
<1>3. ASSUME NEW h \in Handler, Reconcile(h) PROVE TypeOK'
  <2>1. CASE RecDone(h)
    BY <2>1 DEF RecDone
  <2>2. ASSUME NEW p \in Pull, RecClearUnapplied(h, p) \/ RecClear(h, p) PROVE TypeOK'
    BY <2>2 DEF RecClearUnapplied, RecClear
  <2>3. ASSUME NEW p \in Pull, RecRecord(h, p) PROVE TypeOK'
    <3>1. marker[p] \in Oid /\ pull[p] \in PullRow
      BY <2>3 DEF RecRecord, LedgerHasRow, Oid, NoOid
    <3>2. [pull[p] EXCEPT !.state = "merged", !.merged = marker[p]] \in PullRow
      BY <3>1, RowShape
    <3> QED BY <2>3, <3>2 DEF RecRecord
  <2> QED BY <1>3, <2>1, <2>2, <2>3 DEF Reconcile, ReconcileOne
<1>4. ASSUME NEW h \in Handler, Route(h) PROVE TypeOK'
  <2>1. CASE Answer(h)
    BY <2>1, FinishShape DEF Answer
  <2>2. ASSUME NEW u \in User, NEW p \in Pull, NEW b \in Branch, NEW d \in Branch,
               CreatePull(h, u, p, b, d)
        PROVE TypeOK'
    BY <2>2, FinishShape DEF CreatePull, PullRow, PullState
  <2>3. ASSUME NEW u \in User, NEW p \in Pull, NEW s \in PullState, EditPull(h, u, p, s)
        PROVE TypeOK'
    <3>1. pull[p] \in PullRow
      BY <2>3 DEF EditPull, NoPull
    <3>2. [pull[p] EXCEPT !.state = s] \in PullRow
      BY <3>1, RowShape
    <3> QED BY <2>3, <3>2, FinishShape DEF EditPull
  <2>4. ASSUME NEW u \in User, NEW p \in Pull, NEW d \in Decision, Review(h, u, p, d)
        PROVE TypeOK'
    <3>1. pull[p] \in PullRow
      BY <2>4 DEF Review, NoPull
    <3>2. refs[pull[p].head] \in Oid
      BY <2>4, <3>1 DEF Review, PullRow, HeadTip
    <3>3. reviews' \in Seq(ReviewRow)
      BY <2>4, <3>2 DEF Review, ReviewRow, HeadTip
    <3> QED BY <2>4, <3>3, FinishShape DEF Review
  <2>5. ASSUME NEW u \in User, NEW p \in Pull, MergeReadBase(h, u, p) PROVE TypeOK'
    <3>1. pull[p] \in PullRow
      BY <2>5 DEF MergeReadBase, NoPull
    <3>2. BaseTip(p) \in Oid
      BY <2>5, <3>1 DEF MergeReadBase, PullRow, BaseTip
    <3>3. [job[h] EXCEPT !.pull = p, !.base = BaseTip(p)] \in Job
      BY <3>2, JobShape
    <3> QED BY <2>5, <3>3 DEF MergeReadBase
  <2>6. ASSUME NEW u \in User, NEW on \in BOOLEAN, SetRequireReview(h, u, on) PROVE TypeOK'
    BY <2>6, FinishShape DEF SetRequireReview
  <2> QED BY <1>4, <2>1, <2>2, <2>3, <2>4, <2>5, <2>6 DEF Route
<1>5. ASSUME NEW h \in Handler, Merge(h) PROVE TypeOK'
  <2> DEFINE p == job[h].pull
  <2>0. pc[h] \in {"head", "marker", "writing", "txn"} => p \in Pull /\ pull[p] \in PullRow
    BY DEF JobHasRow
  <2>1. ASSUME NEW c \in Oid, MergeInspect(h, c) PROVE TypeOK'
    <3>1. HeadTip(p) \in Oid
      BY <2>0, <2>1 DEF MergeInspect, HeadTip, PullRow
    <3>2. [job[h] EXCEPT !.head = HeadTip(p), !.writers = Writers, !.commit = c] \in Job
      BY <3>1, JobShape DEF Writers
    <3>3. job[h].base \in Oid \cup {NoOid}
      BY DEF Job
    <3>4. Ancestry(job[h].base) \cup Ancestry(HeadTip(p)) \cup {c} \in SUBSET Oid
      BY <3>1, <3>3 DEF Ancestry
    <3> QED BY <2>1, <3>2, <3>4 DEF MergeInspect
  <2>2. CASE MarkerCreate(h)
    BY <2>2 DEF MarkerCreate
  <2>3. CASE MarkerWrite(h)
    <3>1. job[h].commit \in Oid \cup {NoOid}
      BY DEF Job
    <3> QED BY <2>3, <3>1 DEF MarkerWrite
  <2>4. CASE MarkerFail(h)
    BY <2>4, FinishShape DEF MarkerFail
  <2>5. ASSUME NEW err \in BOOLEAN, TxnCommit(h, err) PROVE TypeOK'
    <3>1. job[h].commit \in Oid \cup {NoOid}
      BY DEF Job
    <3>2. [job[h] EXCEPT !.err = err] \in Job
      BY JobShape
    <3> QED BY <3>2, <2>5, <3>1 DEF TxnCommit
  <2>6. CASE TxnReject(h)
    <3>1. [job[h] EXCEPT !.err = TRUE] \in Job
      BY JobShape
    <3> QED BY <2>6, <3>1 DEF TxnReject
  <2>7. CASE TxnTorn(h)
    <3>1. job[h].commit \in Oid \cup {NoOid}
      BY DEF Job
    <3>2. [job[h] EXCEPT !.err = TRUE] \in Job
      BY JobShape
    <3> QED BY <3>2, <2>7, <3>1 DEF TxnTorn
  <2>8. CASE Report(h)
    BY <2>8, FinishShape DEF Report
  <2> QED BY <1>5, <2>1, <2>2, <2>3, <2>4, <2>5, <2>6, <2>7, <2>8 DEF Merge
<1>6. CASE Outside
  <2>1. ASSUME NEW b \in Branch, NEW c \in Oid, NEW parent \in Oid \cup {NoOid},
               PushCommit(b, parent, c)
        PROVE TypeOK'
    BY <2>1 DEF PushCommit, Ancestry
  <2>2. ASSUME NEW b \in Branch, NEW c \in Oid \cup {NoOid}, PushMove(b, c) PROVE TypeOK'
    BY <2>2 DEF PushMove
  <2>3. ASSUME NEW a \in User, NEW u \in User, NEW r \in Rank, SetRole(a, u, r) PROVE TypeOK'
    BY <2>3 DEF SetRole
  <2> QED BY <1>6, <2>1, <2>2, <2>3 DEF Outside
<1>7. CASE UNCHANGED vars
  BY <1>7 DEF vars
<1> QED BY <1>1, <1>2, <1>3, <1>4, <1>5, <1>6, <1>7 DEF Next

\* Rows are never deleted, and a merge never changes the row it works on.
LEMMA RowStep == TypeInv /\ TypeOK' /\ [Next]_vars => JobHasRow' /\ LedgerHasRow'
<1> SUFFICES ASSUME TypeOK, JobHasRow, LedgerHasRow, TypeOK', [Next]_vars
             PROVE  JobHasRow' /\ LedgerHasRow'
  BY DEF TypeInv
<1> USE DEF TypeOK, gitVars, dbVars, JobHasRow, LedgerHasRow
\* It is enough to look at the rows, the ledger and the job of one handler.
<1>0. ASSUME NEW h \in Handler,
             \A p \in Pull : pull[p] # NoPull => pull'[p] # NoPull,
             \A k \in Handler \ {h} : pc'[k] = pc[k] /\ job'[k] = job[k],
             pc'[h] \in {"head", "marker", "writing", "txn", "settle", "report"}
               => job'[h].pull \in Pull /\ pull'[job'[h].pull] # NoPull,
             ledger' = ledger
      PROVE  JobHasRow' /\ LedgerHasRow'
  BY <1>0
<1>1. ASSUME NEW h \in Handler, Acquire(h) \/ AcquireForSettings(h) \/ Abort(h) \/ LoseSession(h)
      PROVE  JobHasRow' /\ LedgerHasRow'
  BY <1>1 DEF Acquire, AcquireForSettings, Abort, LoseSession, Finish
<1>2. ASSUME NEW h \in Handler, Reconcile(h) PROVE JobHasRow' /\ LedgerHasRow'
  <2>1. CASE RecDone(h)
    BY <2>1 DEF RecDone, Reconciling
  <2>2. ASSUME NEW p \in Pull, RecClearUnapplied(h, p) \/ RecClear(h, p)
        PROVE  JobHasRow' /\ LedgerHasRow'
    BY <2>2 DEF RecClearUnapplied, RecClear
  <2>3. ASSUME NEW p \in Pull, RecRecord(h, p) PROVE JobHasRow' /\ LedgerHasRow'
    <3>1. marker[p] \in Oid /\ pull[p] \in PullRow
      BY <2>3 DEF RecRecord, Oid, NoOid
    <3>2. [pull[p] EXCEPT !.state = "merged", !.merged = marker[p]] # NoPull
      BY <3>1, RowShape, RowExists
    <3> QED BY <2>3, <3>2 DEF RecRecord
  <2> QED BY <1>2, <2>1, <2>2, <2>3 DEF Reconcile, ReconcileOne
<1>3. ASSUME NEW h \in Handler, Route(h) PROVE JobHasRow' /\ LedgerHasRow'
  <2>1. CASE Answer(h)
    BY <2>1 DEF Answer, Finish
  <2>2. ASSUME NEW u \in User, NEW p \in Pull, NEW b \in Branch, NEW d \in Branch,
               CreatePull(h, u, p, b, d)
        PROVE  JobHasRow' /\ LedgerHasRow'
    <3>1. pull'[p] # NoPull
      BY <2>2, RowExists DEF CreatePull, PullRow, PullState
    <3> QED BY <2>2, <3>1 DEF CreatePull, Finish
  <2>3. ASSUME NEW u \in User, NEW p \in Pull, NEW s \in PullState, EditPull(h, u, p, s)
        PROVE  JobHasRow' /\ LedgerHasRow'
    <3>1. pull[p] \in PullRow
      BY <2>3 DEF EditPull, NoPull
    <3>2. [pull[p] EXCEPT !.state = s] # NoPull
      BY <3>1, RowShape, RowExists
    <3> QED BY <2>3, <3>2 DEF EditPull, Finish
  <2>4. ASSUME NEW u \in User, NEW p \in Pull, NEW d \in Decision, Review(h, u, p, d)
        PROVE  JobHasRow' /\ LedgerHasRow'
    BY <2>4 DEF Review, Finish
  <2>5. ASSUME NEW u \in User, NEW p \in Pull, MergeReadBase(h, u, p)
        PROVE  JobHasRow' /\ LedgerHasRow'
    <3>1. pull[p] # NoPull
      BY <2>5 DEF MergeReadBase, NoPull
    <3>2. [job[h] EXCEPT !.pull = p, !.base = BaseTip(p)].pull = p
      BY DEF Job
    <3> QED BY <2>5, <3>1, <3>2 DEF MergeReadBase
  <2>6. ASSUME NEW u \in User, NEW on \in BOOLEAN, SetRequireReview(h, u, on)
        PROVE  JobHasRow' /\ LedgerHasRow'
    BY <2>6 DEF SetRequireReview, Finish
  <2> QED BY <1>3, <2>1, <2>2, <2>3, <2>4, <2>5, <2>6 DEF Route
<1>4. ASSUME NEW h \in Handler, Merge(h) PROVE JobHasRow' /\ LedgerHasRow'
  <2>1. ASSUME NEW c \in Oid, MergeInspect(h, c) PROVE JobHasRow' /\ LedgerHasRow'
    <3>1. job'[h].pull = job[h].pull
      BY <2>1 DEF MergeInspect, Job
    <3> QED BY <2>1, <3>1 DEF MergeInspect
  <2>2. CASE MarkerCreate(h) \/ MarkerWrite(h) \/ MarkerFail(h) \/ Report(h)
    BY <2>2 DEF MarkerCreate, MarkerWrite, MarkerFail, Report, Finish
  <2>3. ASSUME NEW err \in BOOLEAN, TxnCommit(h, err) PROVE JobHasRow' /\ LedgerHasRow'
    <3>1. job'[h].pull = job[h].pull
      BY <2>3 DEF TxnCommit, Job
    <3> QED BY <2>3, <3>1 DEF TxnCommit
  <2>4. CASE TxnReject(h) \/ TxnTorn(h)
    <3>1. job'[h].pull = job[h].pull
      BY <2>4 DEF TxnReject, TxnTorn, Job
    <3> QED BY <2>4, <3>1 DEF TxnReject, TxnTorn
  <2> QED BY <1>4, <2>1, <2>2, <2>3, <2>4 DEF Merge
<1>5. CASE Outside
  BY <1>5 DEF Outside, PushCommit, PushMove, SetRole
<1>6. CASE UNCHANGED vars
  BY <1>6 DEF vars
<1> QED BY <1>1, <1>2, <1>3, <1>4, <1>5, <1>6 DEF Next

LEMMA TypeInit == Init => TypeInv
<1> SUFFICES ASSUME Init PROVE TypeInv
  OBVIOUS
<1>1. job \in [Handler -> Job] /\ pc \in [Handler -> Step]
  BY JobShape DEF Init, Step
<1>2. TypeOK
  BY <1>1 DEF Init, TypeOK
<1>3. JobHasRow /\ LedgerHasRow
  BY DEF Init, JobHasRow, LedgerHasRow
<1> QED BY <1>2, <1>3 DEF TypeInv

\* In every reachable state, whatever faults occur, each variable has its type
\* and every merge in progress and every ledger ref has its row.
THEOREM TypeCorrect == Spec => []TypeInv
<1>1. TypeInv /\ [Next]_vars => TypeInv'
  BY TypeStep, RowStep DEF TypeInv
<1> QED BY <1>1, TypeInit, PTL DEF Spec

-----------------------------------------------------------------------------
(* The inductive invariant.                                                 *)

SessionsHold == "session_loss" \notin Faults

\* Nobody works beside the handler that is working.
LEMMA Alone ==
  ASSUME OneHolder, NEW h \in Handler, pc[h] # "idle"
  PROVE  lock = h /\ \A k \in Handler \ {h} : pc[k] = "idle"
  BY DEF OneHolder

\* When a request ends, everybody is idle.
LEMMA FinishControl ==
  ASSUME TypeOK, OneHolder, NEW h \in Handler, pc[h] # "idle", Finish(h)
  PROVE  Control'
<1>1. \A k \in Handler : pc'[k] = "idle"
  BY Alone DEF Finish, TypeOK
<1> QED BY <1>1 DEF Control, OneHolder, MarkerPhase, JobPhase

\* Without a marker, an unmerged row means an empty ledger.
LEMMA SettledIsUnmerged ==
  ASSUME TypeOK, Stores, NoMarker, NEW p \in Pull, pull[p].state # "merged"
  PROVE  ledger[p] = NoOid
  BY DEF Stores, MergeRecoverable, NoMarker, TypeOK, Oid, NoOid

LEMMA ControlStep ==
  ASSUME SessionsHold, TypeInv, Control, Stores, TypeOK', [Next]_vars
  PROVE  Control'
<1> USE DEF gitVars, dbVars
<1>t. TypeOK /\ OneHolder
  BY DEF TypeInv, Control
<1>1. ASSUME NEW h \in Handler, Acquire(h) \/ AcquireForSettings(h) PROVE Control'
  <2>1. \A k \in Handler : pc[k] = "idle"
    BY <1>1, <1>t, HandlerAssumption DEF Acquire, AcquireForSettings, OneHolder
  <2>2. lock' = h /\ pc'[h] \in {"reconcile", "settings"}
        /\ \A k \in Handler \ {h} : pc'[k] = "idle"
    BY <1>1, <1>t, <2>1 DEF Acquire, AcquireForSettings, TypeOK
  <2> QED BY <2>2 DEF Control, OneHolder, MarkerPhase, JobPhase
<1>2. ASSUME NEW h \in Handler, Abort(h) PROVE Control'
  BY <1>2, <1>t, FinishControl DEF Abort
<1>3. ASSUME NEW h \in Handler, LoseSession(h) PROVE Control'
  BY <1>3 DEF LoseSession, SessionsHold
<1>4. ASSUME NEW h \in Handler, Reconcile(h) PROVE Control'
  <2>1. pc[h] \in {"reconcile", "settle"} /\ lock = h
        /\ \A k \in Handler \ {h} : pc[k] = "idle"
    <3>1. pc[h] \in {"reconcile", "settle"}
      BY <1>4 DEF Reconcile, ReconcileOne, RecDone, RecClearUnapplied, RecRecord,
                  RecClear, Reconciling
    <3> QED BY <3>1, <1>t, Alone
  <2>2. CASE RecDone(h)
    <3>1. NoMarker' /\ pc'[h] \in {"body", "report"} /\ (pc'[h] = "report" => pc[h] = "settle")
          /\ \A k \in Handler \ {h} : pc'[k] = "idle"
      BY <2>1, <2>2, <1>t DEF RecDone, NoMarker, TypeOK
    <3> QED BY <2>1, <2>2, <3>1 DEF RecDone, Control, OneHolder, MarkerPhase, JobPhase
  <2>3. ASSUME NEW p \in Pull, ReconcileOne(h, p) PROVE Control'
    <3>1. pc' = pc /\ job' = job /\ lock' = lock /\ ledger' = ledger
      BY <2>3 DEF ReconcileOne, RecClearUnapplied, RecRecord, RecClear
    <3> QED BY <2>1, <3>1 DEF Control, OneHolder, MarkerPhase, JobPhase
  <2> QED BY <1>4, <2>2, <2>3 DEF Reconcile
<1>5. ASSUME NEW h \in Handler, Route(h) PROVE Control'
  <2>1. ASSUME NEW u \in User, NEW p \in Pull, MergeReadBase(h, u, p) PROVE Control'
    <3>1. /\ lock' = h /\ pc'[h] = "head" /\ NoMarker'
          /\ \A k \in Handler \ {h} : pc'[k] = "idle"
      BY <2>1, <1>t, Alone DEF MergeReadBase, Control, MarkerPhase, NoMarker, TypeOK
    <3> QED BY <3>1 DEF Control, OneHolder, MarkerPhase, JobPhase
  <2>2. CASE ~\E u \in User, p \in Pull : MergeReadBase(h, u, p)
    <3>1. pc[h] # "idle" /\ Finish(h)
      BY <1>5, <2>2 DEF Route, Answer, CreatePull, EditPull, Review, SetRequireReview
    <3> QED BY <3>1, <1>t, FinishControl
  <2> QED BY <2>1, <2>2
<1>6. ASSUME NEW h \in Handler, Merge(h) PROVE Control'
  <2> DEFINE p == job[h].pull
  <2>0. ASSUME NEW s \in Step, pc[h] # "idle", lock' = lock, pc' = [pc EXCEPT ![h] = s]
        PROVE  /\ lock' = h /\ pc'[h] = s
               /\ \A k \in Handler \ {h} : pc'[k] = "idle"
    BY <2>0, <1>t, Alone DEF TypeOK
  <2>1. ASSUME NEW c \in Oid, MergeInspect(h, c) PROVE Control'
    <3>1. /\ lock' = h /\ pc'[h] = "marker"
          /\ \A k \in Handler \ {h} : pc'[k] = "idle"
      BY <2>0, <2>1 DEF MergeInspect, Step
    <3>2. NoMarker /\ p \in Pull /\ pull[p].state = "open"
      BY <2>1 DEF MergeInspect, Control, MarkerPhase, TypeInv, JobHasRow
    <3>3. ledger[p] = NoOid
      BY <3>2, <1>t, SettledIsUnmerged
    <3>4. job'[h].pull = p /\ job'[h].commit = c
      BY <2>1, <1>t DEF MergeInspect, TypeOK, Job
    <3> QED BY <2>1, <3>1, <3>2, <3>3, <3>4
            DEF MergeInspect, Control, OneHolder, MarkerPhase, JobPhase, NoMarker
  <2>2. CASE MarkerCreate(h)
    <3>1. /\ lock' = h /\ pc'[h] = "writing"
          /\ \A k \in Handler \ {h} : pc'[k] = "idle"
      BY <2>0, <2>2 DEF MarkerCreate, Step
    <3>2. NoMarker /\ p \in Pull
      BY <2>2 DEF MarkerCreate, Control, MarkerPhase, TypeInv, JobHasRow
    <3>3. OnlyMarker(p, Torn)'
      BY <2>2, <3>2, <1>t DEF MarkerCreate, OnlyMarker, NoMarker, TypeOK
    <3> QED BY <2>2, <3>1, <3>3
            DEF MarkerCreate, Control, OneHolder, MarkerPhase, JobPhase
  <2>3. CASE MarkerWrite(h)
    <3>1. /\ lock' = h /\ pc'[h] = "txn"
          /\ \A k \in Handler \ {h} : pc'[k] = "idle"
      BY <2>0, <2>3 DEF MarkerWrite, Step
    <3>2. OnlyMarker(p, Torn) /\ p \in Pull
      BY <2>3 DEF MarkerWrite, Control, MarkerPhase, TypeInv, JobHasRow
    <3>3. OnlyMarker(p, job[h].commit)'
      BY <2>3, <3>2, <1>t DEF MarkerWrite, OnlyMarker, TypeOK
    <3> QED BY <2>3, <3>1, <3>3
            DEF MarkerWrite, Control, OneHolder, MarkerPhase, JobPhase
  <2>4. CASE MarkerFail(h) \/ Report(h)
    BY <2>4, <1>t, FinishControl DEF MarkerFail, Report
  <2>5. ASSUME NEW err \in BOOLEAN, TxnCommit(h, err) PROVE Control'
    <3>1. /\ lock' = h /\ pc'[h] = "settle"
          /\ \A k \in Handler \ {h} : pc'[k] = "idle"
      BY <2>0, <2>5 DEF TxnCommit, Step
    <3>2. p \in Pull /\ job[h].commit \in Oid
      BY <2>5 DEF TxnCommit, Control, JobPhase, TypeInv, JobHasRow
    <3>3. job'[h].pull = p /\ job'[h].commit = job[h].commit /\ ledger'[p] = job[h].commit
      BY <2>5, <3>2, <1>t DEF TxnCommit, TypeOK, Job
    <3> QED BY <3>1, <3>2, <3>3 DEF Control, OneHolder, MarkerPhase, JobPhase
  <2>6. CASE TxnReject(h) \/ TxnTorn(h)
    <3>1. /\ lock' = h /\ pc'[h] = "settle"
          /\ \A k \in Handler \ {h} : pc'[k] = "idle"
      BY <2>0, <2>6 DEF TxnReject, TxnTorn, Step
    <3>2. job[h].commit \in Oid
      BY <2>6 DEF TxnReject, TxnTorn, Control, JobPhase
    <3>3. job'[h].commit = job[h].commit /\ job'[h].err
      BY <2>6, <1>t DEF TxnReject, TxnTorn, TypeOK, Job
    <3> QED BY <3>1, <3>2, <3>3 DEF Control, OneHolder, MarkerPhase, JobPhase
  <2> QED BY <1>6, <2>1, <2>2, <2>3, <2>4, <2>5, <2>6 DEF Merge
<1>7. CASE Outside \/ UNCHANGED vars
  <2>1. UNCHANGED <<ledger, marker, pull, lock, pc, job>>
    BY <1>7 DEF Outside, PushCommit, PushMove, SetRole, vars
  <2> QED BY <2>1 DEF Control, OneHolder, MarkerPhase, JobPhase, NoMarker, OnlyMarker
<1> QED BY <1>1, <1>2, <1>3, <1>4, <1>5, <1>6, <1>7 DEF Next

\* The stores agree after every step: only five actions write a marker, a row
\* or a ledger ref.
LEMMA StoresStep ==
  ASSUME TypeInv, Control, Stores, TypeOK', [Next]_vars
  PROVE  Stores'
<1> USE DEF gitVars, dbVars, NoOid, Torn, Oid, Pull
<1>t. TypeOK
  BY DEF TypeInv
<1>s. MarkerIsTrustworthy /\ MergeRecoverable /\ MergedIsProved /\ MergedColumn
  BY DEF Stores
<1>0. ASSUME UNCHANGED <<ledger, marker, pull>> PROVE Stores'
  BY <1>0, <1>s DEF Stores, MarkerIsTrustworthy, MergeRecoverable, MergedIsProved, MergedColumn
<1>1. ASSUME NEW h \in Handler,
             Acquire(h) \/ AcquireForSettings(h) \/ Abort(h) \/ LoseSession(h)
      PROVE  Stores'
  BY <1>0, <1>1 DEF Acquire, AcquireForSettings, Abort, LoseSession
<1>2. ASSUME NEW h \in Handler, Reconcile(h) PROVE Stores'
  <2>1. CASE RecDone(h)
    BY <1>0, <2>1 DEF RecDone
  <2>2. ASSUME NEW p \in Pull, RecClearUnapplied(h, p) PROVE Stores'
    BY <1>t, <1>s, <2>2
       DEF RecClearUnapplied, Stores, MarkerIsTrustworthy, MergeRecoverable,
           MergedIsProved, MergedColumn, TypeOK
  <2>3. ASSUME NEW p \in Pull, RecRecord(h, p) PROVE Stores'
    <3>1. pull[p] \in PullRow
      BY <1>t, <2>3 DEF RecRecord, TypeInv, LedgerHasRow, TypeOK
    <3>2. /\ pull'[p].state = "merged" /\ pull'[p].merged = marker[p]
          /\ \A q \in Pull \ {p} : pull'[q] = pull[q]
      BY <1>t, <2>3, <3>1 DEF RecRecord, TypeOK, PullRow
    <3>3. ledger' = ledger /\ marker' = marker /\ ledger[p] = marker[p] /\ marker[p] # NoOid
      BY <2>3 DEF RecRecord
    <3> QED BY <1>s, <3>2, <3>3
            DEF Stores, MarkerIsTrustworthy, MergeRecoverable, MergedIsProved, MergedColumn
  <2>4. ASSUME NEW p \in Pull, RecClear(h, p) PROVE Stores'
    BY <1>t, <1>s, <2>4
       DEF RecClear, Recorded, Stores, MarkerIsTrustworthy, MergeRecoverable,
           MergedIsProved, MergedColumn, TypeOK
  <2> QED BY <1>2, <2>1, <2>2, <2>3, <2>4 DEF Reconcile, ReconcileOne
<1>3. ASSUME NEW h \in Handler, Route(h) PROVE Stores'
  <2>1. ASSUME NEW u \in User, NEW p \in Pull, NEW b \in Branch, NEW d \in Branch,
               CreatePull(h, u, p, b, d)
        PROVE  Stores'
    <3>1. ledger[p] = NoOid
      BY <1>t, <1>s, <2>1, SettledIsUnmerged DEF CreatePull, Control, MarkerPhase
    <3>2. /\ pull'[p].state = "open" /\ pull'[p].merged = NoOid
          /\ \A q \in Pull \ {p} : pull'[q] = pull[q]
          /\ ledger' = ledger /\ marker' = marker
      BY <1>t, <2>1 DEF CreatePull, TypeOK
    <3> QED BY <1>s, <3>1, <3>2
            DEF Stores, MarkerIsTrustworthy, MergeRecoverable, MergedIsProved, MergedColumn
  <2>2. ASSUME NEW u \in User, NEW p \in Pull, NEW s \in PullState, EditPull(h, u, p, s)
        PROVE  Stores'
    <3>1. ledger[p] = NoOid
      BY <1>t, <1>s, <2>2, SettledIsUnmerged DEF EditPull, Control, MarkerPhase
    <3>2. pull[p] \in PullRow /\ pull[p] # NoPull
      BY <1>t, <2>2 DEF EditPull, NoPull, TypeOK
    <3>3. pull[p].merged = NoOid
      BY <1>s, <2>2, <3>2 DEF EditPull, MergedColumn
    <3>4. /\ pull'[p].state \in {"open", "closed"} /\ pull'[p].merged = NoOid
          /\ \A q \in Pull \ {p} : pull'[q] = pull[q]
          /\ ledger' = ledger /\ marker' = marker
      BY <1>t, <2>2, <3>2, <3>3 DEF EditPull, TypeOK, PullRow
    <3> QED BY <1>s, <3>1, <3>4
            DEF Stores, MarkerIsTrustworthy, MergeRecoverable, MergedIsProved, MergedColumn
  <2>3. CASE UNCHANGED <<ledger, marker, pull>>
    BY <1>0, <2>3
  <2> QED BY <1>3, <2>1, <2>2, <2>3 DEF Route, Answer, Review, MergeReadBase, SetRequireReview
<1>4. ASSUME NEW h \in Handler, Merge(h) PROVE Stores'
  <2> DEFINE p == job[h].pull
  <2>1. CASE MarkerCreate(h) \/ MarkerWrite(h) \/ MarkerFail(h)
    <3>1. p \in Pull /\ ledger[p] = NoOid
      BY <2>1 DEF MarkerCreate, MarkerWrite, MarkerFail, Control, JobPhase, TypeInv, JobHasRow
    <3>2. /\ \A q \in Pull \ {p} : marker'[q] = marker[q]
          /\ ledger' = ledger /\ pull' = pull
      BY <1>t, <2>1, <3>1 DEF MarkerCreate, MarkerWrite, MarkerFail, TypeOK
    <3> QED BY <1>s, <3>1, <3>2
            DEF Stores, MarkerIsTrustworthy, MergeRecoverable, MergedIsProved, MergedColumn
  <2>2. ASSUME NEW err \in BOOLEAN, TxnCommit(h, err) PROVE Stores'
    <3>1. /\ p \in Pull /\ pull[p].state = "open"
          /\ OnlyMarker(p, job[h].commit)
      BY <2>2 DEF TxnCommit, Control, JobPhase, MarkerPhase, TypeInv, JobHasRow
    <3>2. /\ ledger'[p] = job[h].commit /\ marker[p] = job[h].commit
          /\ \A q \in Pull \ {p} : ledger'[q] = ledger[q]
          /\ marker' = marker /\ pull' = pull
      BY <1>t, <2>2, <3>1 DEF TxnCommit, TypeOK, OnlyMarker
    <3> QED BY <1>s, <3>1, <3>2
            DEF Stores, MarkerIsTrustworthy, MergeRecoverable, MergedIsProved, MergedColumn
  <2>3. CASE UNCHANGED <<ledger, marker, pull>>
    BY <1>0, <2>3
  <2> QED BY <1>4, <2>1, <2>2, <2>3 DEF Merge, MergeInspect, TxnReject, TxnTorn, Report
<1>5. CASE Outside \/ UNCHANGED vars
  BY <1>0, <1>5 DEF Outside, PushCommit, PushMove, SetRole, vars
<1> QED BY <1>1, <1>2, <1>3, <1>4, <1>5 DEF Next

\* Commits are written once: a step writes at most one commit, whose recorded
\* ancestors are written commits and itself, and changes no other.
LEMMA WriteOnce ==
  ASSUME TypeOK, Rooted, Closed, NEW c \in Oid, ~Written(c), NEW s \in SUBSET Oid,
         \A d \in s : Written(d),
         history' = [history EXCEPT ![c] = s \cup {c}]
  PROVE  /\ \A d \in Oid : Written(d) => history'[d] = history[d] /\ Written(d)'
         /\ history'[c] = s \cup {c} /\ Written(c)'
         /\ Closed'
<1>1. /\ history'[c] = s \cup {c}
      /\ \A d \in Oid \ {c} : history'[d] = history[d]
  BY DEF TypeOK
<1>2. \A d \in Oid : Written(d) => history'[d] = history[d] /\ Written(d)'
  BY <1>1 DEF Written
<1>3. Written(c)'
  BY <1>1 DEF Written
<1>4. ASSUME NEW d \in Oid, NEW e \in history'[d] PROVE Written(e)'
  <2>1. CASE d = c
    BY <1>1, <1>2, <1>3, <1>4, <2>1
  <2>2. CASE d # c
    BY <1>1, <1>2, <1>4, <2>2 DEF Closed, TypeOK
  <2> QED BY <2>1, <2>2
<1> QED BY <1>1, <1>2, <1>3, <1>4 DEF Closed

\* Whatever a branch reaches is written.
LEMMA AncestryWritten ==
  ASSUME TypeOK, Closed, NEW c \in Oid \cup {NoOid}
  PROVE  Ancestry(c) \in SUBSET Oid /\ \A d \in Ancestry(c) : Written(d)
  BY DEF Ancestry, Closed, TypeOK

LEMMA ReachableWritten ==
  ASSUME TypeOK, Closed, NEW c \in Reachable
  PROVE  c \in Oid /\ Written(c)
<1>1. PICK b \in Branch : c \in Ancestry(refs[b])
  BY DEF Reachable
<1>2. refs[b] \in Oid \cup {NoOid}
  BY DEF TypeOK
<1> QED BY <1>1, <1>2, AncestryWritten

\* The commits need no lock: this step and what follows from it hold whatever
\* becomes of the sessions.
LEMMA CommitsStep ==
  ASSUME TypeInv, Commits, TypeOK', [Next]_vars
  PROVE  Commits'
<1> USE DEF gitVars, dbVars
<1>t. TypeOK /\ TypeOK' /\ Rooted /\ Closed /\ JobHistory
  BY DEF TypeInv, Commits
\* Nothing to do for a step that writes no commit, moves no branch, and hands
\* no handler anything new to publish.
<1>0. ASSUME UNCHANGED <<history, refs>>,
             \A h \in Handler : \/ pc'[h] \notin {"head", "marker", "writing", "txn"}
                                \/ pc'[h] = pc[h] /\ job'[h] = job[h]
      PROVE  Commits'
  BY <1>0, <1>t DEF Commits, Rooted, Closed, JobHistory, Written
<1>1. ASSUME NEW h \in Handler,
             \/ Acquire(h) \/ AcquireForSettings(h) \/ Abort(h) \/ LoseSession(h)
             \/ Reconcile(h)
      PROVE  Commits'
  BY <1>0, <1>1, <1>t DEF Acquire, AcquireForSettings, Abort, LoseSession, Finish, Reconcile,
     ReconcileOne, RecDone, RecClearUnapplied, RecRecord, RecClear, Reconciling, TypeOK
<1>2. ASSUME NEW h \in Handler, Route(h) PROVE Commits'
  <2>1. ASSUME NEW u \in User, NEW p \in Pull, MergeReadBase(h, u, p) PROVE Commits'
    <3>1. pull[p] \in PullRow
      BY <1>t, <2>1 DEF MergeReadBase, TypeOK, NoPull
    <3>2. BaseTip(p) \in Oid /\ Written(BaseTip(p))
      BY <1>t, <2>1, <3>1 DEF MergeReadBase, TypeOK, PullRow, BaseTip, Rooted
    <3>3. job'[h].base = BaseTip(p) /\ pc'[h] = "head"
      BY <1>t, <2>1 DEF MergeReadBase, TypeOK, Job
    <3>4. \A k \in Handler \ {h} : pc'[k] = pc[k] /\ job'[k] = job[k]
      BY <1>t, <2>1 DEF MergeReadBase, TypeOK
    <3>5. UNCHANGED <<history, refs>>
      BY <2>1 DEF MergeReadBase
    <3> QED BY <1>t, <3>2, <3>3, <3>4, <3>5 DEF Commits, Rooted, Closed, JobHistory, Written
  <2>2. CASE ~\E u \in User, p \in Pull : MergeReadBase(h, u, p)
    <3>1. Finish(h) /\ UNCHANGED <<history, refs>>
      BY <1>2, <2>2 DEF Route, Answer, CreatePull, EditPull, Review, SetRequireReview
    <3> QED BY <1>0, <1>t, <3>1 DEF Finish, TypeOK
  <2> QED BY <2>1, <2>2
<1>3. ASSUME NEW h \in Handler, Merge(h) PROVE Commits'
  <2> DEFINE p == job[h].pull
  <2>1. ASSUME NEW c \in Oid, MergeInspect(h, c) PROVE Commits'
    <3> DEFINE b == job[h].base
               d == HeadTip(p)
    <3>1. b \in Oid /\ Written(b)
      BY <1>t, <2>1 DEF MergeInspect, JobHistory
    <3>2. p \in Pull /\ pull[p] \in PullRow
      BY <1>t, <2>1 DEF MergeInspect, TypeInv, JobHasRow, TypeOK
    <3>3. d \in Oid /\ Written(d)
      <4>1. d # NoOid
        BY <2>1 DEF MergeInspect
      <4> QED BY <1>t, <3>2, <4>1 DEF HeadTip, TypeOK, PullRow, Rooted
    <3>4. \A e \in Ancestry(b) \cup Ancestry(d) : Written(e)
      BY <1>t, <3>1, <3>3, AncestryWritten
    <3>5. Ancestry(b) \cup Ancestry(d) \in SUBSET Oid
      BY <1>t, <3>1, <3>3, AncestryWritten
    <3>6. history' = [history EXCEPT ![c] = Ancestry(b) \cup Ancestry(d) \cup {c}]
          /\ ~Written(c) /\ refs' = refs
      BY <2>1 DEF MergeInspect, IsNext
    <3>7. /\ \A e \in Oid : Written(e) => history'[e] = history[e] /\ Written(e)'
          /\ history'[c] = Ancestry(b) \cup Ancestry(d) \cup {c} /\ Closed'
      BY <1>t, <3>4, <3>5, <3>6, WriteOnce
    <3>8. /\ job'[h].base = b /\ job'[h].head = d /\ job'[h].commit = c
          /\ \A k \in Handler \ {h} : pc'[k] = pc[k] /\ job'[k] = job[k]
      BY <1>t, <2>1 DEF MergeInspect, TypeOK, Job
    <3>9. Rooted'
      BY <1>t, <3>6, <3>7 DEF Rooted, TypeOK
    <3>10. b # NoOid /\ d # NoOid
      BY <3>1, <3>3 DEF Oid, NoOid
    <3>11. ASSUME NEW k \in Handler PROVE
             /\ pc'[k] \in {"head", "marker", "writing", "txn"} =>
                  job'[k].base \in Oid /\ history'[job'[k].base] # {}
             /\ pc'[k] \in {"marker", "writing", "txn"} =>
                  /\ job'[k].head \in Oid /\ history'[job'[k].head] # {}
                  /\ job'[k].commit \in Oid
                  /\ history'[job'[k].base] \cup history'[job'[k].head] \cup {job'[k].commit}
                       \subseteq history'[job'[k].commit]
      <4>1. CASE k = h
        <5>1. history'[b] = history[b] /\ history'[d] = history[d]
          BY <3>1, <3>3, <3>7
        <5>2. history'[b] # {} /\ history'[d] # {}
          BY <3>1, <3>3, <5>1 DEF Written
        <5>3. history'[b] \cup history'[d] \cup {c} \subseteq history'[c]
          BY <3>7, <3>10, <5>1 DEF Ancestry
        <5> QED BY <3>1, <3>3, <3>8, <4>1, <5>2, <5>3
      <4>2. CASE k # h
        <5>1. pc[k] \in {"marker", "writing", "txn"} => Written(job[k].commit)
          BY <1>t DEF JobHistory, Written
        <5>2. pc'[k] = pc[k] /\ job'[k] = job[k]
          BY <3>8, <4>2
        <5> QED BY <1>t, <3>7, <5>1, <5>2 DEF JobHistory, Written
      <4> QED BY <4>1, <4>2
    <3>12. JobHistory'
      BY <3>11 DEF JobHistory, Written
    <3> QED BY <3>7, <3>9, <3>12 DEF Commits
  <2>2. CASE MarkerCreate(h) \/ MarkerWrite(h)
    <3>1. /\ pc[h] \in {"marker", "writing"} /\ UNCHANGED <<history, refs, job>>
          /\ \A k \in Handler \ {h} : pc'[k] = pc[k]
      BY <1>t, <2>2 DEF MarkerCreate, MarkerWrite, TypeOK
    <3> QED BY <1>t, <3>1 DEF Commits, Rooted, Closed, JobHistory, Written
  <2>3. CASE MarkerFail(h) \/ TxnReject(h) \/ Report(h)
    BY <1>0, <1>t, <2>3 DEF MarkerFail, TxnReject, Report, Finish, TypeOK
  <2>4. CASE TxnTorn(h) \/ \E err \in BOOLEAN : TxnCommit(h, err)
    <3>1. /\ pc[h] = "txn" /\ pc' = [pc EXCEPT ![h] = "settle"] /\ history' = history
          /\ \E err \in BOOLEAN : job' = [job EXCEPT ![h].err = err]
          /\ refs' = [refs EXCEPT ![pull[p].base] = job[h].commit]
      BY <2>4 DEF TxnTorn, TxnCommit
    <3>2. job[h].commit \in Oid /\ Written(job[h].commit)
      BY <1>t, <3>1 DEF JobHistory, Written
    <3>3. Rooted' /\ Closed'
      BY <1>t, <3>1, <3>2 DEF Rooted, Closed, Written, TypeOK
    <3>4. \A k \in Handler \ {h} : pc'[k] = pc[k] /\ job'[k] = job[k]
      BY <1>t, <3>1 DEF TypeOK
    <3>5. pc'[h] = "settle"
      BY <1>t, <3>1 DEF TypeOK
    <3>6. JobHistory'
      BY <1>t, <3>1, <3>4, <3>5 DEF JobHistory, Written
    <3> QED BY <3>3, <3>6 DEF Commits
  <2> QED BY <1>3, <2>1, <2>2, <2>3, <2>4 DEF Merge
<1>4. CASE Outside
  <2>1. ASSUME NEW b \in Branch, NEW c \in Oid, NEW parent \in Oid \cup {NoOid},
               PushCommit(b, parent, c)
        PROVE  Commits'
    <3>1. /\ ~Written(c) /\ refs' = [refs EXCEPT ![b] = c] /\ pc' = pc /\ job' = job
          /\ history' = [history EXCEPT ![c] = Ancestry(parent) \cup {c}]
      BY <2>1 DEF PushCommit, IsNext
    <3>2. /\ \A e \in Oid : Written(e) => history'[e] = history[e] /\ Written(e)'
          /\ Written(c)' /\ Closed'
      BY <1>t, <3>1, AncestryWritten, WriteOnce
    <3>3. Rooted'
      BY <1>t, <3>1, <3>2 DEF Rooted, TypeOK
    <3>4. ASSUME NEW k \in Handler, pc[k] \in {"marker", "writing", "txn"}
          PROVE  Written(job[k].commit)
      BY <1>t, <3>4 DEF JobHistory, Written
    <3>5. JobHistory'
      BY <1>t, <3>1, <3>2, <3>4 DEF JobHistory
    <3> QED BY <3>2, <3>3, <3>5 DEF Commits
  <2>2. ASSUME NEW b \in Branch, NEW c \in Oid \cup {NoOid}, PushMove(b, c) PROVE Commits'
    <3>1. /\ c = NoOid \/ Written(c)
          /\ refs' = [refs EXCEPT ![b] = c] /\ UNCHANGED <<history, pc, job>>
      BY <1>t, <2>2, ReachableWritten DEF PushMove
    <3> QED BY <1>t, <3>1 DEF Commits, Rooted, Closed, JobHistory, Written, TypeOK
  <2>3. ASSUME NEW a \in User, NEW u \in User, NEW r \in Rank, SetRole(a, u, r)
        PROVE  Commits'
    BY <1>0, <2>3 DEF SetRole
  <2> QED BY <1>4, <2>1, <2>2, <2>3 DEF Outside
<1>5. CASE UNCHANGED vars
  BY <1>0, <1>5 DEF vars
<1> QED BY <1>1, <1>2, <1>3, <1>4, <1>5 DEF Next

LEMMA GateStep ==
  ASSUME TypeInv, Control, Stores, Gate, TypeOK', [Next]_vars
  PROVE  Gate'
<1> USE DEF gitVars, dbVars
<1> DEFINE Merging == {"marker", "writing", "txn"}
<1>t. TypeOK /\ OneHolder /\ NeverClosed /\ StrictPhase /\ GatePhase
  BY DEF TypeInv, Control, Gate
\* Nothing to do for a step that writes no row and no ledger ref, and lets no
\* handler into a merge.
<1>0. ASSUME UNCHANGED <<reviews, pull, requireReview, ledger>>,
             \A k \in Handler :
               \/ pc'[k] \in {"idle", "settings"}
               \/ /\ pc[k] \notin {"idle", "settings"} /\ job'[k].strict = job[k].strict
                  /\ pc'[k] \in Merging => /\ pc[k] \in Merging
                                           /\ job'[k].pull = job[k].pull
                                           /\ job'[k].head = job[k].head
                                           /\ job'[k].writers = job[k].writers
      PROVE  Gate'
  <2>1. NeverClosed'
    BY <1>0, <1>t DEF NeverClosed
  <2>2. StrictPhase'
    BY <1>0, <1>t DEF StrictPhase
  <2>3. GatePhase'
    <3> SUFFICES ASSUME NEW k \in Handler, pc'[k] \in Merging
                 PROVE  Cleared(job[k].pull, job[k].head, job[k].writers)'
      BY DEF GatePhase
    <3>1. Cleared(job[k].pull, job[k].head, job[k].writers)
      BY <1>0, <1>t DEF GatePhase
    <3>2. /\ job'[k].pull = job[k].pull /\ job'[k].head = job[k].head
          /\ job'[k].writers = job[k].writers
      BY <1>0
    <3> QED BY <1>0, <3>1, <3>2 DEF Cleared, Verdict, Decisive
  <2> QED BY <2>1, <2>2, <2>3 DEF Gate
\* Nor for the end of a request, when everybody is idle.
<1>f. ASSUME NEW h \in Handler, pc[h] # "idle", Finish(h), NeverClosed' PROVE Gate'
  <2>1. \A k \in Handler : pc'[k] = "idle"
    BY <1>f, <1>t, Alone DEF Finish, TypeOK
  <2> QED BY <1>f, <2>1 DEF Gate, StrictPhase, GatePhase
<1>1. ASSUME NEW h \in Handler,
             Acquire(h) \/ AcquireForSettings(h) \/ Abort(h) \/ LoseSession(h)
      PROVE  Gate'
  <2>1. CASE Acquire(h)
    <3>1. /\ pc'[h] = "reconcile" /\ job'[h].strict = requireReview
          /\ UNCHANGED <<reviews, pull, requireReview, ledger>>
          /\ \A k \in Handler \ {h} : pc'[k] = pc[k] /\ job'[k] = job[k]
      BY <2>1, <1>t DEF Acquire, TypeOK, NoJob
    <3> QED BY <1>t, <3>1 DEF Gate, NeverClosed, StrictPhase, GatePhase, Cleared, Verdict,
                              Decisive
  <2>2. CASE AcquireForSettings(h) \/ Abort(h) \/ LoseSession(h)
    BY <1>0, <1>t, <2>2 DEF AcquireForSettings, Abort, LoseSession, Finish, TypeOK
  <2> QED BY <1>1, <2>1, <2>2
<1>2. ASSUME NEW h \in Handler, Reconcile(h) PROVE Gate'
  <2>1. ASSUME NEW p \in Pull, RecRecord(h, p) PROVE Gate'
    <3>1. \A k \in Handler : pc[k] \notin Merging
      BY <1>t, <2>1, Alone DEF RecRecord, Reconciling
    <3>2. pull[p] \in PullRow
      BY <1>t, <2>1 DEF RecRecord, TypeInv, LedgerHasRow, TypeOK, Oid, NoOid
    <3>3. pull'[p].state = "merged" /\ \A q \in Pull \ {p} : pull'[q] = pull[q]
      BY <1>t, <2>1, <3>2 DEF RecRecord, TypeOK, PullRow
    <3> QED BY <1>t, <2>1, <3>1, <3>3 DEF RecRecord, Gate, NeverClosed, StrictPhase, GatePhase
  <2>2. CASE RecDone(h) \/ \E p \in Pull : RecClearUnapplied(h, p) \/ RecClear(h, p)
    <3>1. /\ UNCHANGED <<reviews, pull, requireReview, ledger, job>> /\ Reconciling(h)
          /\ pc'[h] \notin Merging /\ \A k \in Handler \ {h} : pc'[k] = pc[k]
      BY <1>t, <2>2 DEF RecDone, RecClearUnapplied, RecClear, Reconciling, TypeOK
    <3> QED BY <1>0, <3>1 DEF Reconciling
  <2> QED BY <1>2, <2>1, <2>2 DEF Reconcile, ReconcileOne
<1>3. ASSUME NEW h \in Handler, Route(h) PROVE Gate'
  <2>1. ASSUME NEW u \in User, NEW p \in Pull, NEW b \in Branch, NEW d \in Branch,
               CreatePull(h, u, p, b, d)
        PROVE  Gate'
    <3>1. NeverClosed'
      BY <1>t, <2>1 DEF CreatePull, NeverClosed, TypeOK
    <3> QED BY <1>f, <2>1, <3>1 DEF CreatePull
  <2>2. ASSUME NEW u \in User, NEW p \in Pull, NEW s \in PullState, EditPull(h, u, p, s)
        PROVE  Gate'
    <3>1. ledger[p] = NoOid
      BY <1>t, <2>2, SettledIsUnmerged DEF EditPull, Control, MarkerPhase
    <3>2. NeverClosed'
      BY <1>t, <2>2, <3>1 DEF EditPull, NeverClosed, TypeOK
    <3> QED BY <1>f, <2>2, <3>2 DEF EditPull
  <2>3. ASSUME NEW u \in User, NEW p \in Pull, MergeReadBase(h, u, p) PROVE Gate'
    <3>1. /\ pc[h] = "body" /\ pc'[h] = "head" /\ job'[h].strict = job[h].strict
          /\ UNCHANGED <<reviews, pull, requireReview, ledger>>
          /\ \A k \in Handler \ {h} : pc'[k] = pc[k] /\ job'[k] = job[k]
      BY <1>t, <2>3 DEF MergeReadBase, TypeOK, Job
    <3> QED BY <1>0, <3>1
  <2>4. ASSUME NEW u \in User, NEW p \in Pull, NEW d \in Decision, Review(h, u, p, d)
        PROVE  Gate'
    BY <1>f, <1>t, <2>4 DEF Review, NeverClosed
  <2>5. ASSUME NEW u \in User, NEW on \in BOOLEAN, SetRequireReview(h, u, on) PROVE Gate'
    BY <1>f, <1>t, <2>5 DEF SetRequireReview, NeverClosed
  <2>6. CASE Answer(h)
    BY <1>f, <1>t, <2>6 DEF Answer, NeverClosed
  <2> QED BY <1>3, <2>1, <2>2, <2>3, <2>4, <2>5, <2>6 DEF Route
<1>4. ASSUME NEW h \in Handler, Merge(h) PROVE Gate'
  <2> DEFINE p == job[h].pull
  <2>1. ASSUME NEW c \in Oid, MergeInspect(h, c) PROVE Gate'
    <3>1. p \in Pull /\ pull[p] \in PullRow /\ HeadTip(p) \in Oid
      BY <1>t, <2>1 DEF MergeInspect, TypeInv, JobHasRow, TypeOK, HeadTip, PullRow
    <3>2. /\ job'[h].strict = job[h].strict /\ job'[h].pull = p
          /\ job'[h].head = HeadTip(p) /\ job'[h].writers = Writers
          /\ pc'[h] = "marker" /\ UNCHANGED <<reviews, pull, requireReview, ledger>>
          /\ \A k \in Handler \ {h} : pc[k] = "idle" /\ pc'[k] = "idle"
      BY <1>t, <2>1, Alone DEF MergeInspect, TypeOK, Job
    <3>3. Cleared(p, HeadTip(p), Writers)
      <4>1. ~ChangesRequested(p, HeadTip(p))
        BY <2>1 DEF MergeInspect
      <4>2. requireReview => Approved(p, HeadTip(p))
        BY <1>t, <2>1 DEF MergeInspect, StrictPhase
      <4> QED BY <4>1, <4>2 DEF Cleared, ChangesRequested, Approved
    <3>4. GatePhase'
      BY <3>2, <3>3 DEF GatePhase, Cleared, Verdict, Decisive
    <3>5. StrictPhase'
      BY <1>t, <2>1, <3>2 DEF StrictPhase, MergeInspect
    <3> QED BY <1>t, <3>2, <3>4, <3>5 DEF Gate, NeverClosed
  <2>2. CASE MarkerCreate(h) \/ MarkerWrite(h)
    <3>1. /\ pc[h] \in Merging /\ UNCHANGED <<reviews, pull, requireReview, ledger, job>>
          /\ \A k \in Handler \ {h} : pc'[k] = pc[k]
      BY <1>t, <2>2 DEF MarkerCreate, MarkerWrite, TypeOK
    <3> QED BY <1>0, <3>1
  <2>3. CASE MarkerFail(h) \/ Report(h)
    BY <1>f, <1>t, <2>3 DEF MarkerFail, Report, NeverClosed
  <2>4. ASSUME NEW err \in BOOLEAN, TxnCommit(h, err) PROVE Gate'
    <3>1. p \in Pull /\ pull[p].state = "open"
      BY <2>4 DEF TxnCommit, TypeInv, JobHasRow, Control, JobPhase
    <3>2. /\ pc[h] = "txn" /\ pc'[h] = "settle" /\ job'[h].strict = job[h].strict
          /\ UNCHANGED <<reviews, pull, requireReview>>
          /\ \A q \in Pull \ {p} : ledger'[q] = ledger[q]
          /\ \A k \in Handler \ {h} : pc'[k] = pc[k] /\ job'[k] = job[k]
      BY <1>t, <2>4 DEF TxnCommit, TypeOK, Job
    <3>3. NeverClosed'
      BY <1>t, <3>1, <3>2 DEF NeverClosed
    <3>4. StrictPhase'
      BY <1>t, <3>2 DEF StrictPhase
    <3>5. GatePhase'
      BY <1>t, <3>2 DEF GatePhase, Cleared, Verdict, Decisive
    <3> QED BY <3>3, <3>4, <3>5 DEF Gate
  <2>5. CASE TxnReject(h) \/ TxnTorn(h)
    <3>1. /\ pc[h] = "txn" /\ pc'[h] = "settle" /\ job'[h].strict = job[h].strict
          /\ UNCHANGED <<reviews, pull, requireReview, ledger>>
          /\ \A k \in Handler \ {h} : pc'[k] = pc[k] /\ job'[k] = job[k]
      BY <1>t, <2>5 DEF TxnReject, TxnTorn, TypeOK, Job
    <3> QED BY <1>0, <3>1
  <2> QED BY <1>4, <2>1, <2>2, <2>3, <2>4, <2>5 DEF Merge
<1>5. CASE Outside \/ UNCHANGED vars
  <2>1. UNCHANGED <<reviews, pull, requireReview, ledger, pc, job>>
    BY <1>5 DEF Outside, PushCommit, PushMove, SetRole, vars
  <2> QED BY <1>0, <2>1
<1> QED BY <1>1, <1>2, <1>3, <1>4, <1>5 DEF Next

LEMMA InvInit == Init => IInv
<1> SUFFICES ASSUME Init PROVE IInv
  OBVIOUS
<1>1. Control
  BY DEF Init, Control, OneHolder, MarkerPhase, JobPhase
<1>2. Stores
  BY DEF Init, Stores, MarkerIsTrustworthy, MergeRecoverable, MergedIsProved, MergedColumn,
         NoPull
<1>3. Commits
  BY DEF Init, Commits, Rooted, Closed, JobHistory, Written
<1>4. Gate
  BY DEF Init, Gate, NeverClosed, StrictPhase, GatePhase
<1> QED BY <1>1, <1>2, <1>3, <1>4, TypeInit DEF IInv

\* As long as the lock's session holds, the inductive invariant does.
THEOREM Inductive == ASSUME SessionsHold PROVE Spec => []IInv
<1>1. IInv /\ [Next]_vars => IInv'
  BY TypeStep, RowStep, ControlStep, StoresStep, CommitsStep, GateStep DEF IInv, TypeInv
<1> QED BY <1>1, InvInit, PTL DEF Spec

\* A merge Git has performed is never lost to the metadata: it is recorded, or
\* its marker is there, whatever handler stopped where (collaboration.go:135).
THEOREM Recoverable == ASSUME SessionsHold PROVE Spec => []MergeRecoverable
<1>1. IInv => MergeRecoverable
  BY DEF IInv, Stores
<1> QED BY <1>1, Inductive, PTL

\* No row claims a merge Git does not prove.
THEOREM Proved == ASSUME SessionsHold PROVE Spec => []MergedIsProved
<1>1. IInv => MergedIsProved
  BY DEF IInv, Stores
<1> QED BY <1>1, Inductive, PTL

\* A marker never contradicts the ledger, so the two refusals that call for an
\* operator cannot be about a merge that went through.
THEOREM Trustworthy == ASSUME SessionsHold PROVE Spec => []MarkerIsTrustworthy
<1>1. IInv => MarkerIsTrustworthy
  BY DEF IInv, Stores
<1> QED BY <1>1, Inductive, PTL

\* Without a marker the row is what the ledger says.
LEMMA RowIsLedger ==
  ASSUME IInv, NEW h \in Handler, NEW p \in Pull,
         pc[h] \in {"body", "head", "report"}, ledger[p] # NoOid
  PROVE  pull[p].state = "merged" /\ pull[p].merged = ledger[p]
<1>1. marker[p] # ledger[p]
  BY DEF IInv, Control, MarkerPhase, NoMarker
<1> QED BY <1>1 DEF IInv, Stores, MergeRecoverable

\* What every route reads under the lock is settled.
THEOREM Settled == ASSUME SessionsHold PROVE Spec => []ReadsAreSettled
<1>1. IInv => ReadsAreSettled
  BY RowIsLedger DEF ReadsAreSettled
<1> QED BY <1>1, Inductive, PTL

\* What a merge answers is the truth, whatever git's exit status said.
THEOREM Truthful == ASSUME SessionsHold PROVE Spec => []AnswerIsTruth
<1>1. ASSUME IInv, NEW h \in Handler, pc[h] = "report" PROVE
        LET p == job[h].pull IN
        IF AnswersMerged(h)
          THEN ledger[p] = job[h].commit /\ pull[p].merged = job[h].commit
                                         /\ pull[p].state = "merged"
          ELSE ledger[p] # job[h].commit
  <2> DEFINE p == job[h].pull
  <2>1. p \in Pull /\ pull[p] # NoPull /\ job[h].commit # NoOid
    BY <1>1 DEF IInv, TypeInv, JobHasRow, Control, JobPhase, Oid, NoOid
  <2>2. ~job[h].err => ledger[p] = job[h].commit
    BY <1>1 DEF IInv, Control, JobPhase
  <2>3. pull[p].merged = job[h].commit => pull[p].state = "merged"
    BY <1>1, <2>1 DEF IInv, Stores, MergedColumn
  <2>4. pull[p].state = "merged" => ledger[p] = pull[p].merged
    BY <1>1, <2>1 DEF IInv, Stores, MergedIsProved
  <2>5. ledger[p] # NoOid => pull[p].state = "merged" /\ pull[p].merged = ledger[p]
    BY <1>1, <2>1, RowIsLedger
  <2> QED BY <2>1, <2>2, <2>3, <2>4, <2>5 DEF AnswersMerged
<1>2. IInv => AnswerIsTruth
  BY <1>1 DEF AnswerIsTruth
<1> QED BY <1>2, Inductive, PTL

-----------------------------------------------------------------------------
(* Recovery without an operator.                                            *)

\* Only MarkerCreate leaves a marker without content, and only what its handler
\* does next ends that.
LEMMA TornStep ==
  ASSUME TypeOK, TypeOK', TornIsWritten, [Next]_vars
  PROVE  TornIsWritten'
<1> USE DEF TypeOK, TornIsWritten, gitVars, dbVars
<1>1. ASSUME NEW h \in Handler, pc[h] # "writing", UNCHANGED marker,
             \A k \in Handler \ {h} : pc'[k] = pc[k] /\ job'[k] = job[k]
      PROVE  TornIsWritten'
  BY <1>1
<1>2. ASSUME NEW h \in Handler,
             Acquire(h) \/ AcquireForSettings(h) \/ LoseSession(h) \/ Route(h) \/ Report(h)
             \/ TxnReject(h) \/ TxnTorn(h)
             \/ (\E c \in Oid : MergeInspect(h, c)) \/ (\E err \in BOOLEAN : TxnCommit(h, err))
      PROVE  TornIsWritten'
  <2> DEFINE Elsewhere ==
        /\ pc[h] # "writing" /\ UNCHANGED marker
        /\ \A k \in Handler \ {h} : pc'[k] = pc[k] /\ job'[k] = job[k]
  <2>1. CASE LoseSession(h)
    BY <2>1 DEF LoseSession
  <2>2. CASE Acquire(h) \/ AcquireForSettings(h) \/ Report(h)
    <3>1. CASE Acquire(h)
      <4>1. Elsewhere
        BY <3>1 DEF Acquire
      <4> QED BY <1>1, <4>1
    <3>2. CASE AcquireForSettings(h)
      <4>1. Elsewhere
        BY <3>2 DEF AcquireForSettings
      <4> QED BY <1>1, <4>1
    <3>3. CASE Report(h)
      <4>0. pc[h] = "report" /\ Finish(h) /\ UNCHANGED marker
        BY <3>3 DEF Report
      <4>1. Elsewhere
        BY <4>0 DEF Finish
      <4> QED BY <1>1, <4>1
    <3> QED BY <2>2, <3>1, <3>2, <3>3
  <2>3. CASE Route(h)
    <3>1. CASE \E u \in User, p \in Pull : MergeReadBase(h, u, p)
      <4>1. Elsewhere
        BY <3>1 DEF MergeReadBase
      <4> QED BY <1>1, <4>1
    <3>2. CASE ~ \E u \in User, p \in Pull : MergeReadBase(h, u, p)
      <4>1. pc[h] \in {"body", "head", "settings"} /\ Finish(h) /\ UNCHANGED marker
        BY <2>3, <3>2 DEF Route, Answer, CreatePull, EditPull, Review, SetRequireReview
      <4>2. Elsewhere
        BY <4>1 DEF Finish
      <4> QED BY <1>1, <4>2
    <3> QED BY <3>1, <3>2
  <2>4. CASE TxnReject(h) \/ TxnTorn(h) \/ (\E err \in BOOLEAN : TxnCommit(h, err))
    <3>1. Elsewhere
      BY <2>4 DEF TxnReject, TxnTorn, TxnCommit
    <3> QED BY <1>1, <3>1
  <2>5. ASSUME NEW c \in Oid, MergeInspect(h, c) PROVE TornIsWritten'
    <3>1. Elsewhere
      BY <2>5 DEF MergeInspect
    <3> QED BY <1>1, <3>1
  <2> QED BY <1>2, <2>1, <2>2, <2>3, <2>4, <2>5
<1>3. ASSUME NEW h \in Handler, Abort(h) PROVE TornIsWritten'
  <2>1. "torn_marker" \notin Faults => pc[h] # "writing"
    BY <1>3 DEF Abort
  <2>2. UNCHANGED marker /\ \A k \in Handler \ {h} : pc'[k] = pc[k] /\ job'[k] = job[k]
    BY <1>3 DEF Abort, Finish
  <2> QED BY <2>1, <2>2
<1>4. ASSUME NEW h \in Handler, Reconcile(h) PROVE TornIsWritten'
  <2>1. pc[h] # "writing" /\ UNCHANGED job
        /\ \A k \in Handler \ {h} : pc'[k] = pc[k]
    BY <1>4 DEF Reconcile, RecDone, ReconcileOne, RecClearUnapplied, RecRecord, RecClear, Reconciling
  <2>2. \A p \in Pull : marker'[p] = marker[p] \/ marker'[p] = NoOid
    BY <1>4 DEF Reconcile, RecDone, ReconcileOne, RecClearUnapplied, RecRecord, RecClear
  <2> QED BY <2>1, <2>2 DEF Torn, NoOid
<1>5. ASSUME NEW h \in Handler, MarkerCreate(h) PROVE TornIsWritten'
  <2>1. /\ pc[h] = "marker" /\ pc'[h] = "writing" /\ UNCHANGED job
        /\ \A k \in Handler \ {h} : pc'[k] = pc[k]
        /\ \A p \in Pull : p # job[h].pull => marker'[p] = marker[p]
    BY <1>5 DEF MarkerCreate
  <2> QED BY <2>1
<1>6. ASSUME NEW h \in Handler, MarkerWrite(h) \/ MarkerFail(h) PROVE TornIsWritten'
  <2>1. /\ \A k \in Handler \ {h} : pc'[k] = pc[k] /\ job'[k] = job[k]
        /\ \A p \in Pull : p # job[h].pull => marker'[p] = marker[p]
    BY <1>6 DEF MarkerWrite, MarkerFail, Finish
  <2>2. job[h].commit # Torn /\ NoOid # Torn
    BY DEF Job, Oid, NoOid, Torn
  <2>3. job[h].pull \in Pull => marker'[job[h].pull] # Torn
    BY <1>6, <2>2 DEF MarkerWrite, MarkerFail
  <2>4. ASSUME NEW p \in Pull, marker'[p] = Torn
        PROVE  p # job[h].pull /\ marker[p] = Torn
    BY <2>1, <2>3, <2>4
  <2>5. ASSUME NEW p \in Pull, marker'[p] = Torn, "torn_marker" \notin Faults
        PROVE  \E k \in Handler : pc'[k] = "writing" /\ job'[k].pull = p
    <3>1. PICK k \in Handler : pc[k] = "writing" /\ job[k].pull = p
      BY <2>4, <2>5
    <3> QED BY <2>1, <2>4, <2>5, <3>1
  <2> QED BY <2>5
<1>7. CASE Outside \/ UNCHANGED vars
  <2>1. UNCHANGED <<marker, pc, job>>
    BY <1>7 DEF Outside, PushCommit, PushMove, SetRole, vars
  <2> QED BY <2>1
<1> QED BY <1>2, <1>3, <1>4, <1>5, <1>6, <1>7 DEF Next, Merge

\* The next request settles what an earlier one left behind, after any number of
\* failures in any places except between the creation and the write of a marker
\* (collaboration.go:135-170).  It is what MergeEventuallyRecorded rests on.
THEOREM NeedsNoOperator == ASSUME SessionsHold PROVE Spec => []RecoversByItself
<1>1. Init => TornIsWritten
  BY DEF Init, TornIsWritten, NoOid, Torn
<1>2. IInv /\ TornIsWritten /\ [Next]_vars => TornIsWritten'
  BY TornStep, TypeStep DEF IInv, TypeInv
<1>3. Spec => []TornIsWritten
  BY <1>1, <1>2, Inductive, PTL DEF Spec
<1>4. IInv /\ TornIsWritten => RecoversByItself
  <2> SUFFICES ASSUME IInv, TornIsWritten, "torn_marker" \notin Faults,
                      NEW h \in Handler, NEW p \in Pull, Reconciling(h), marker[p] # NoOid
               PROVE  marker[p] \in Oid /\ ledger[p] \in {NoOid, marker[p]}
    BY DEF RecoversByItself
  <2>1. marker[p] # Torn
    <3>1. \A k \in Handler : pc[k] # "writing"
      BY Alone DEF Reconciling, IInv, Control
    <3> QED BY <3>1 DEF TornIsWritten
  <2>2. ledger[p] # NoOid => marker[p] = ledger[p]
    BY DEF IInv, Stores, MarkerIsTrustworthy
  <2> QED BY <2>1, <2>2 DEF IInv, TypeInv, TypeOK
<1> QED BY <1>3, <1>4, Inductive, PTL

-----------------------------------------------------------------------------
(***************************************************************************)
(* PullMerge implements ReviewedMerge, and what its steps may never do:    *)
(* each step of the protocol is one step of the abstract specification or  *)
(* changes nothing a user can see.  The lock's session is assumed to hold. *)
(***************************************************************************)

\* A pull as its users see it follows its row and its ledger ref.
LEMMA SameView ==
  ASSUME NEW p \in Pull, pull'[p] = pull[p], ledger'[p] = ledger[p]
  PROVE  AbstractPull(p)' = AbstractPull(p)
  BY DEF AbstractPull

LEMMA SameViews ==
  ASSUME UNCHANGED <<pull, ledger>>
  PROVE  AbstractPulls' = AbstractPulls
  BY SameView DEF AbstractPulls

\* The step that publishes a merge is the atomic merge of the abstraction.
LEMMA CommitIsMerge ==
  ASSUME IInv, NEW h \in Handler, NEW err \in BOOLEAN, TxnCommit(h, err),
         NEW p \in Pull, p = job[h].pull, NEW c \in Oid, c = job[h].commit
  PROVE  Abstract!MergeAtomically(p, c)
<1>1. TypeOK /\ pull[p] \in PullRow /\ pull[p] # NoPull
  BY DEF IInv, TypeInv, JobHasRow, TypeOK, TxnCommit
<1>2. pull[p].state = "open" /\ ledger[p] = NoOid
  BY DEF IInv, Control, JobPhase, TxnCommit
<1>3. /\ refs[pull[p].base] = job[h].base /\ refs[pull[p].head] = job[h].head
      /\ refs' = [refs EXCEPT ![pull[p].base] = c]
      /\ ledger' = [ledger EXCEPT ![p] = c] /\ history' = history /\ pull' = pull
  BY DEF TxnCommit, TxnValid, dbVars
<1>4. /\ job[h].base \in Oid /\ job[h].head \in Oid
      /\ history[job[h].base] \cup history[job[h].head] \cup {c} \subseteq history[c]
  BY DEF IInv, Commits, JobHistory, TxnCommit
<1>5. AbstractPull(p) = [status |-> "open", base |-> pull[p].base, head |-> pull[p].head,
                         result |-> NoOid]
  BY <1>1, <1>2 DEF AbstractPull, PullRow, PullState
<1>6. c # NoOid /\ job[h].base # NoOid /\ job[h].head # NoOid
  BY <1>2, <1>4 DEF Oid, NoOid
<1>7. AbstractPull(p)' = [status |-> "merged", base |-> pull[p].base, head |-> pull[p].head,
                          result |-> c]
  <2>1. ledger'[p] = c /\ pull'[p] = pull[p]
    BY <1>1, <1>3 DEF TypeOK
  <2>2. pull'[p].state # "absent" /\ ledger'[p] # NoOid
    BY <1>2, <1>6, <2>1
  <2> QED BY <2>1, <2>2 DEF AbstractPull
<1>8. AbstractPulls' = [AbstractPulls EXCEPT ![p] = AbstractPull(p)']
  <2>1. \A q \in Pull \ {p} : ledger'[q] = ledger[q] /\ pull'[q] = pull[q]
    BY <1>1, <1>3 DEF TypeOK
  <2>2. ASSUME NEW q \in Pull \ {p} PROVE AbstractPull(q)' = AbstractPull(q)
    BY <2>1, SameView
  <2> QED BY <1>1, <2>2 DEF AbstractPulls
<1>9. AbstractPulls[p] = AbstractPull(p)
  BY <1>1 DEF AbstractPulls
<1>10. /\ AbstractPulls[p].status = "open"
       /\ AbstractPulls[p].base = pull[p].base /\ AbstractPulls[p].head = pull[p].head
  BY <1>5, <1>9
<1>11. /\ refs[AbstractPulls[p].base] = job[h].base
       /\ refs[AbstractPulls[p].head] = job[h].head
  BY <1>3, <1>10
<1>12. AbstractPulls' = [AbstractPulls EXCEPT ![p] =
          [status |-> "merged", base |-> AbstractPulls[p].base,
           head |-> AbstractPulls[p].head, result |-> c]]
  BY <1>7, <1>8, <1>10
<1> QED BY <1>1, <1>2, <1>3, <1>4, <1>6, <1>10, <1>11, <1>12
        DEF Abstract!MergeAtomically, Abstract!Contains

\* Writing one new commit changes no other.
LEMMA FreshGrows ==
  ASSUME TypeOK, NEW c \in Oid, ~Written(c), NEW s, history' = [history EXCEPT ![c] = s]
  PROVE  Abstract!Grow
  BY DEF Abstract!Grow, Written, TypeOK

\* Every step is a step of the abstraction or invisible to it.
LEMMA StepImplements ==
  ASSUME IInv, TypeOK', [Next]_vars
  PROVE  [Abstract!ANext]_(Abstract!avars)
<1> USE DEF gitVars, dbVars
<1>t. TypeOK
  BY DEF IInv, TypeInv
<1>0. ASSUME UNCHANGED <<history, refs, pull, ledger>>
      PROVE  [Abstract!ANext]_(Abstract!avars)
  BY <1>0, SameViews DEF Abstract!avars
<1>1. ASSUME NEW h \in Handler,
             Acquire(h) \/ AcquireForSettings(h) \/ Abort(h) \/ LoseSession(h)
      PROVE  [Abstract!ANext]_(Abstract!avars)
  BY <1>0, <1>1 DEF Acquire, AcquireForSettings, Abort, LoseSession
<1>2. ASSUME NEW h \in Handler, Reconcile(h) PROVE [Abstract!ANext]_(Abstract!avars)
  <2>1. ASSUME NEW p \in Pull, RecRecord(h, p) PROVE UNCHANGED Abstract!avars
    <3>1. pull[p] \in PullRow /\ ledger[p] # NoOid
      BY <1>t, <2>1 DEF RecRecord, IInv, TypeInv, LedgerHasRow, TypeOK, Oid, NoOid
    <3>2. /\ pull'[p].state = "merged" /\ pull'[p].base = pull[p].base
          /\ pull'[p].head = pull[p].head /\ ledger' = ledger
          /\ \A q \in Pull \ {p} : pull'[q] = pull[q]
      BY <1>t, <2>1, <3>1 DEF RecRecord, TypeOK, PullRow
    <3>3. pull[p].state # "absent"
      BY <3>1 DEF PullRow, PullState
    <3>4. AbstractPull(p)' = AbstractPull(p)
      BY <3>1, <3>2, <3>3 DEF AbstractPull
    <3>5. ASSUME NEW q \in Pull \ {p} PROVE AbstractPull(q)' = AbstractPull(q)
      BY <3>2, SameView
    <3>6. AbstractPulls' = AbstractPulls
      BY <3>4, <3>5 DEF AbstractPulls
    <3> QED BY <2>1, <3>6 DEF RecRecord, Abstract!avars
  <2>2. CASE RecDone(h) \/ \E p \in Pull : RecClearUnapplied(h, p) \/ RecClear(h, p)
    BY <1>0, <2>2 DEF RecDone, RecClearUnapplied, RecClear
  <2> QED BY <1>2, <2>1, <2>2 DEF Reconcile, ReconcileOne
<1>3. ASSUME NEW h \in Handler, Route(h) PROVE [Abstract!ANext]_(Abstract!avars)
  <2>1. ASSUME NEW u \in User, NEW p \in Pull, NEW b \in Branch, NEW d \in Branch,
               CreatePull(h, u, p, b, d)
        PROVE  Abstract!Open(p, b, d)
    <3>1. ledger[p] = NoOid
      BY <1>t, <2>1, SettledIsUnmerged DEF CreatePull, IInv, Control, MarkerPhase
    <3>2. pull'[p] = [state |-> "open", author |-> u, base |-> b, head |-> d, merged |-> NoOid]
          /\ ledger' = ledger /\ \A q \in Pull \ {p} : pull'[q] = pull[q]
      BY <1>t, <2>1 DEF CreatePull, TypeOK
    <3>3. AbstractPull(p)' = [status |-> "open", base |-> b, head |-> d, result |-> NoOid]
      BY <3>1, <3>2 DEF AbstractPull
    <3>4. AbstractPulls[p].status = "absent"
      BY <2>1 DEF CreatePull, AbstractPulls, AbstractPull
    <3>5. ASSUME NEW q \in Pull \ {p} PROVE AbstractPull(q)' = AbstractPull(q)
      BY <3>2, SameView
    <3>6. AbstractPulls' = [AbstractPulls EXCEPT ![p] = AbstractPull(p)']
      BY <3>5 DEF AbstractPulls
    <3> QED BY <2>1, <3>3, <3>4, <3>6 DEF CreatePull, Abstract!Open
  <2>2. ASSUME NEW u \in User, NEW p \in Pull, NEW s \in PullState, EditPull(h, u, p, s)
        PROVE  s \in {"open", "closed"} /\ Abstract!Toggle(p, s)
    <3>1. ledger[p] = NoOid
      BY <1>t, <2>2, SettledIsUnmerged DEF EditPull, IInv, Control, MarkerPhase
    <3>2. pull[p] \in PullRow
      BY <1>t, <2>2 DEF EditPull, NoPull, TypeOK
    <3>3. /\ pull'[p].state = s /\ pull'[p].base = pull[p].base
          /\ pull'[p].head = pull[p].head
          /\ ledger' = ledger /\ \A q \in Pull \ {p} : pull'[q] = pull[q]
      BY <1>t, <2>2, <3>2 DEF EditPull, TypeOK, PullRow
    <3>4. s \in {"open", "closed"} /\ pull[p].state \in {"open", "closed"}
      BY <2>2 DEF EditPull
    <3>5. AbstractPulls[p] = [status |-> pull[p].state, base |-> pull[p].base,
                              head |-> pull[p].head, result |-> NoOid]
      BY <3>1, <3>4 DEF AbstractPulls, AbstractPull
    <3>6. AbstractPull(p)' = [status |-> s, base |-> pull[p].base,
                              head |-> pull[p].head, result |-> NoOid]
      BY <3>1, <3>3, <3>4 DEF AbstractPull
    <3>7. ASSUME NEW q \in Pull \ {p} PROVE AbstractPull(q)' = AbstractPull(q)
      BY <3>3, SameView
    <3>8. AbstractPulls' = [AbstractPulls EXCEPT ![p] = AbstractPull(p)']
      BY <3>7 DEF AbstractPulls
    <3> QED BY <2>2, <3>4, <3>5, <3>6, <3>8 DEF EditPull, Abstract!Toggle
  <2>3. CASE UNCHANGED <<history, refs, pull, ledger>>
    BY <1>0, <2>3
  <2> QED BY <1>3, <2>1, <2>2, <2>3
          DEF Route, Answer, Review, MergeReadBase, SetRequireReview, Abstract!ANext
<1>4. ASSUME NEW h \in Handler, Merge(h) PROVE [Abstract!ANext]_(Abstract!avars)
  <2>1. ASSUME NEW c \in Oid, MergeInspect(h, c) PROVE Abstract!WriteCommit
    <3>1. Abstract!Grow
      BY <1>t, <2>1, FreshGrows DEF MergeInspect, IsNext
    <3> QED BY <2>1, <3>1, SameViews DEF MergeInspect, Abstract!WriteCommit
  <2>2. ASSUME NEW err \in BOOLEAN, TxnCommit(h, err)
        PROVE  \E p \in Pull, c \in Oid : Abstract!MergeAtomically(p, c)
    <3>1. job[h].pull \in Pull /\ job[h].commit \in Oid
      BY <2>2 DEF TxnCommit, IInv, TypeInv, JobHasRow, Control, JobPhase
    <3> QED BY <2>2, <3>1, CommitIsMerge
  <2>3. ASSUME TxnTorn(h) PROVE \E b \in Branch : Abstract!Push(b)
    <3>1. pull[job[h].pull].base \in Branch /\ job[h].commit \in Oid
      BY <1>t, <2>3 DEF TxnTorn, IInv, TypeInv, JobHasRow, Control, JobPhase, TypeOK, PullRow
    <3>2. Abstract!Grow
      BY <2>3 DEF TxnTorn, Abstract!Grow
    <3> QED BY <2>3, <3>1, <3>2, SameViews DEF TxnTorn, Abstract!Push
  <2>4. CASE UNCHANGED <<history, refs, pull, ledger>>
    BY <1>0, <2>4
  <2> QED BY <1>4, <2>1, <2>2, <2>3, <2>4
          DEF Merge, MarkerCreate, MarkerWrite, MarkerFail, TxnReject, Report, Abstract!ANext
<1>5. CASE Outside
  <2>1. ASSUME NEW b \in Branch, NEW c \in Oid, NEW parent \in Oid \cup {NoOid},
               PushCommit(b, parent, c)
        PROVE  Abstract!Push(b)
    <3>1. Abstract!Grow
      BY <1>t, <2>1, FreshGrows DEF PushCommit, IsNext
    <3> QED BY <2>1, <3>1, SameViews DEF PushCommit, Abstract!Push
  <2>2. ASSUME NEW b \in Branch, NEW c \in Oid \cup {NoOid}, PushMove(b, c)
        PROVE  Abstract!Push(b)
    <3>1. Abstract!Grow
      BY <2>2 DEF PushMove, Abstract!Grow
    <3> QED BY <2>2, <3>1, SameViews DEF PushMove, Abstract!Push
  <2>3. ASSUME NEW a \in User, NEW u \in User, NEW r \in Rank, SetRole(a, u, r)
        PROVE  [Abstract!ANext]_(Abstract!avars)
    BY <1>0, <2>3 DEF SetRole
  <2> QED BY <1>5, <2>1, <2>2, <2>3 DEF Outside, Abstract!ANext
<1>6. CASE UNCHANGED vars
  BY <1>0, <1>6 DEF vars
<1> QED BY <1>1, <1>2, <1>3, <1>4, <1>5, <1>6 DEF Next

LEMMA InitImplements == Init => Abstract!AInit
  BY DEF Init, Abstract!AInit, AbstractPulls, AbstractPull, NoPull, Abstract!NotOpened

\* The whole protocol, crashes and concurrent pushes included, implements one
\* indivisible merge (ReviewedMerge).
THEOREM Atomic == ASSUME SessionsHold PROVE Spec => MergeIsAtomic
<1>1. IInv /\ [Next]_vars => [Abstract!ANext]_(Abstract!avars)
  BY StepImplements, TypeStep DEF IInv
<1> QED BY <1>1, InitImplements, Inductive, PTL DEF Spec, MergeIsAtomic, Abstract!ASpec

-----------------------------------------------------------------------------
(* What no step does.                                                       *)

\* Five steps write rows, reviews or ledger refs.
LEMMA RowWriters ==
  ASSUME [Next]_vars
  PROVE  \/ UNCHANGED <<ledger, pull, reviews>>
         \/ \E h \in Handler, p \in Pull : RecRecord(h, p)
         \/ \E h \in Handler, u \in User, p \in Pull, b, d \in Branch : CreatePull(h, u, p, b, d)
         \/ \E h \in Handler, u \in User, p \in Pull, s \in PullState : EditPull(h, u, p, s)
         \/ \E h \in Handler, u \in User, p \in Pull, d \in Decision : Review(h, u, p, d)
         \/ \E h \in Handler, err \in BOOLEAN : TxnCommit(h, err)
<1> USE DEF gitVars, dbVars
<1>1. ASSUME NEW h \in Handler,
             Acquire(h) \/ AcquireForSettings(h) \/ Abort(h) \/ LoseSession(h)
      PROVE  UNCHANGED <<ledger, pull, reviews>>
  BY <1>1 DEF Acquire, AcquireForSettings, Abort, LoseSession
<1>2. ASSUME NEW h \in Handler, Reconcile(h), \A p \in Pull : ~RecRecord(h, p)
      PROVE  UNCHANGED <<ledger, pull, reviews>>
  BY <1>2 DEF Reconcile, ReconcileOne, RecDone, RecClearUnapplied, RecClear
<1>3. ASSUME NEW h \in Handler,
             \/ Answer(h)
             \/ \E u \in User, p \in Pull : MergeReadBase(h, u, p)
             \/ \E u \in User, on \in BOOLEAN : SetRequireReview(h, u, on)
      PROVE  UNCHANGED <<ledger, pull, reviews>>
  BY <1>3 DEF Answer, MergeReadBase, SetRequireReview
<1>4. ASSUME NEW h \in Handler, Merge(h), \A err \in BOOLEAN : ~TxnCommit(h, err)
      PROVE  UNCHANGED <<ledger, pull, reviews>>
  BY <1>4 DEF Merge, MergeInspect, MarkerCreate, MarkerWrite, MarkerFail, TxnReject, TxnTorn,
              Report
<1>5. CASE Outside \/ UNCHANGED vars
  BY <1>5 DEF Outside, PushCommit, PushMove, SetRole, vars
<1> QED BY <1>1, <1>2, <1>3, <1>4, <1>5 DEF Next, Route

\* Only the ref transaction writes the ledger, and only of the pull it is about.
LEMMA LedgerWriter ==
  ASSUME TypeInv, [Next]_vars, NEW p \in Pull, ledger'[p] # ledger[p]
  PROVE  \E h \in Handler, err \in BOOLEAN :
           /\ TxnCommit(h, err) /\ p = job[h].pull
           /\ ledger[p] = NoOid /\ ledger'[p] = job[h].commit
<1> USE DEF gitVars, dbVars
<1>1. PICK h \in Handler, err \in BOOLEAN : TxnCommit(h, err)
  BY RowWriters DEF RecRecord, CreatePull, EditPull, Review
<1>2. p = job[h].pull /\ ledger[p] = NoOid /\ ledger'[p] = job[h].commit
  BY <1>1 DEF TxnCommit, TxnValid, TypeInv, TypeOK
<1> QED BY <1>1, <1>2

\* The transaction, torn or not, moves the base to a commit that contains both
\* tips.
LEMMA TakesTips ==
  ASSUME TypeInv, Commits, NEW h \in Handler,
         TxnTorn(h) \/ \E err \in BOOLEAN : TxnCommit(h, err)
  PROVE  /\ MovesBase(job[h].pull, job[h].commit)
         /\ HeadTip(job[h].pull) = job[h].head
<1> DEFINE p == job[h].pull
<1>0. /\ pc[h] = "txn" /\ TxnValid(h)
      /\ refs' = [refs EXCEPT ![pull[p].base] = job[h].commit]
  BY DEF TxnTorn, TxnCommit
<1>1. BaseTip(p) = job[h].base /\ HeadTip(p) = job[h].head
  BY <1>0 DEF TxnValid, BaseTip, HeadTip
<1>2. /\ job[h].base \in Oid /\ job[h].head \in Oid
      /\ history[job[h].base] \cup history[job[h].head] \subseteq history[job[h].commit]
  BY <1>0 DEF Commits, JobHistory
<1>3. job[h].base # NoOid /\ job[h].head # NoOid
  BY <1>2 DEF Oid, NoOid
<1> QED BY <1>0, <1>1, <1>2, <1>3 DEF MovesBase, Ancestry

\* No other step of a handler moves a branch.
LEMMA RefWriters ==
  ASSUME TypeOK, [Next]_vars, NEW h \in Handler, pc'[h] # pc[h], refs' # refs
  PROVE  TxnTorn(h) \/ \E err \in BOOLEAN : TxnCommit(h, err)
<1> USE DEF gitVars
<1>1. ~(Outside \/ UNCHANGED vars)
  BY DEF Outside, PushCommit, PushMove, SetRole, vars
<1>2. PICK k \in Handler : \/ Acquire(k) \/ AcquireForSettings(k)
                           \/ Reconcile(k) \/ Route(k) \/ Merge(k)
                           \/ Abort(k) \/ LoseSession(k)
  BY <1>1 DEF Next
<1>3. ~(Acquire(k) \/ AcquireForSettings(k) \/ Reconcile(k) \/ Abort(k) \/ LoseSession(k))
  BY DEF Acquire, AcquireForSettings, Abort, LoseSession, Reconcile, ReconcileOne, RecDone,
         RecClearUnapplied, RecRecord, RecClear
<1>4. ~Route(k)
  BY DEF Route, Answer, CreatePull, EditPull, Review, MergeReadBase, SetRequireReview
<1>5. TxnTorn(k) \/ \E err \in BOOLEAN : TxnCommit(k, err)
  BY <1>2, <1>3, <1>4 DEF Merge, MergeInspect, MarkerCreate, MarkerWrite, MarkerFail,
                          TxnReject, Report
<1>6. pc' = [pc EXCEPT ![k] = "settle"]
  BY <1>5 DEF TxnTorn, TxnCommit
<1>7. k = h
  BY <1>6 DEF TypeOK
<1> QED BY <1>5, <1>7

\* The ref transaction alone keeps every commit and merges a pull once, with or
\* without the lock, torn or not: nothing is assumed about sessions here.
THEOREM NothingLost == Spec => GitLosesNothing
<1>1. TypeInv /\ Commits /\ [Next]_vars => (TypeInv /\ Commits)'
  BY TypeStep, RowStep, CommitsStep DEF TypeInv
<1>2. Init => TypeInv /\ Commits
  BY InvInit DEF IInv
<1>3. ASSUME TypeInv, Commits, [Next]_vars, NEW p \in Pull
      PROVE  /\ ledger[p] # NoOid => ledger'[p] = ledger[p]
             /\ MergesNow(p) => MovesBase(p, ledger'[p])
  <2>1. ledger[p] # NoOid => ledger'[p] = ledger[p]
    BY <1>3, LedgerWriter
  <2>2. ASSUME MergesNow(p) PROVE MovesBase(p, ledger'[p])
    <3>1. PICK h \in Handler, err \in BOOLEAN :
            TxnCommit(h, err) /\ p = job[h].pull /\ ledger'[p] = job[h].commit
      BY <1>3, <2>2, LedgerWriter DEF MergesNow
    <3> QED BY <1>3, <3>1, TakesTips
  <2> QED BY <2>1, <2>2
<1>4. ASSUME TypeInv, Commits, [Next]_vars, NEW h \in Handler, pc'[h] # pc[h], refs' # refs
      PROVE  MovesBase(job[h].pull, job[h].commit)
  BY <1>4, RefWriters, TakesTips DEF TypeInv
<1>5. TypeInv /\ Commits /\ [Next]_vars =>
        [/\ \A p \in Pull : ledger[p] # NoOid => ledger'[p] = ledger[p]
         /\ \A p \in Pull : MergesNow(p) => MovesBase(p, ledger'[p])
         /\ \A h \in Handler : pc'[h] # pc[h] /\ refs' # refs =>
              MovesBase(job[h].pull, job[h].commit)]_vars
  BY <1>3, <1>4
<1> QED BY <1>1, <1>2, <1>5, PTL DEF Spec, GitLosesNothing

\* A merge takes the tips of an open pull as they are when the refs move.
THEOREM TipsAreCurrent == ASSUME SessionsHold PROVE Spec => MergeTakesCurrentTips
<1>1. ASSUME IInv, [Next]_vars, NEW p \in Pull, MergesNow(p)
      PROVE  /\ pull[p].state = "open"
             /\ refs' = [refs EXCEPT ![pull[p].base] = ledger'[p]]
             /\ BaseTip(p) # NoOid /\ HeadTip(p) # NoOid
             /\ history[BaseTip(p)] \cup history[HeadTip(p)] \subseteq history[ledger'[p]]
  <2>1. PICK h \in Handler, err \in BOOLEAN :
          TxnCommit(h, err) /\ p = job[h].pull /\ ledger'[p] = job[h].commit
    BY <1>1, LedgerWriter DEF MergesNow, IInv
  <2>2. pull[p].state = "open"
    BY <1>1, <2>1 DEF IInv, Control, JobPhase, TxnCommit
  <2>3. MovesBase(p, ledger'[p])
    BY <1>1, <2>1, TakesTips DEF IInv
  <2> QED BY <2>2, <2>3 DEF MovesBase, Ancestry
<1>2. IInv /\ [Next]_vars =>
        [\A p \in Pull : MergesNow(p) =>
           /\ pull[p].state = "open"
           /\ refs' = [refs EXCEPT ![pull[p].base] = ledger'[p]]
           /\ BaseTip(p) # NoOid /\ HeadTip(p) # NoOid
           /\ history[BaseTip(p)] \cup history[HeadTip(p)] \subseteq history[ledger'[p]]]_vars
  BY <1>1
<1> QED BY <1>2, Inductive, PTL DEF Spec, MergeTakesCurrentTips

\* Of those who had write access when the merge looked, nobody asks to change
\* the head that is merged and, while review is required, somebody other than the
\* author approves it: at the moment the refs move.
THEOREM Reviewed == ASSUME SessionsHold PROVE Spec => ReviewGate
<1>1. ASSUME IInv, [Next]_vars, NEW p \in Pull, MergesNow(p)
      PROVE  \E h \in Handler :
               pc[h] = "txn" /\ job[h].pull = p /\ Cleared(p, HeadTip(p), job[h].writers)
  <2>1. PICK h \in Handler, err \in BOOLEAN :
          TxnCommit(h, err) /\ p = job[h].pull /\ ledger'[p] = job[h].commit
    BY <1>1, LedgerWriter DEF MergesNow, IInv
  <2>2. HeadTip(p) = job[h].head
    BY <1>1, <2>1, TakesTips DEF IInv
  <2>3. pc[h] = "txn"
    BY <2>1 DEF TxnCommit
  <2> QED BY <1>1, <2>1, <2>2, <2>3 DEF IInv, Gate, GatePhase
<1>2. IInv /\ [Next]_vars =>
        [\A p \in Pull : MergesNow(p) =>
           \E h \in Handler :
             /\ pc[h] = "txn" /\ job[h].pull = p
             /\ \A u \in job[h].writers : ~Verdict(p, u, HeadTip(p), "request_changes")
             /\ requireReview =>
                  \E u \in job[h].writers \ {pull[p].author} :
                    Verdict(p, u, HeadTip(p), "approve")]_vars
  BY <1>1 DEF Cleared
<1> QED BY <1>2, Inductive, PTL DEF Spec, ReviewGate

\* A pull whose merge is in Git is open and only ever becomes merged, with that
\* commit; nobody reviews it any more.
THEOREM Final == ASSUME SessionsHold PROVE Spec => MergedIsFinal
<1> USE DEF gitVars, dbVars
<1>1. ASSUME IInv, [Next]_vars, NEW p \in Pull, ledger[p] # NoOid
      PROVE  /\ ledger'[p] = ledger[p]
             /\ pull'[p] # pull[p] =>
                  /\ pull[p].state = "open"
                  /\ pull'[p] = [pull[p] EXCEPT !.state = "merged", !.merged = ledger[p]]
             /\ \A i \in DOMAIN reviews' \ DOMAIN reviews : reviews'[i].pull # p
  <2>t. TypeInv /\ TypeOK /\ Control /\ Stores /\ NeverClosed
    BY <1>1 DEF IInv, TypeInv, Gate
  <2>1. ledger'[p] = ledger[p]
    BY <1>1, <2>t, LedgerWriter
  <2>2. ASSUME NEW h \in Handler, pc[h] = "body" PROVE pull[p].state = "merged"
    BY <1>1, <2>2, RowIsLedger
  <2>3. ASSUME pull'[p] # pull[p]
        PROVE  /\ pull[p].state = "open"
               /\ pull'[p] = [pull[p] EXCEPT !.state = "merged", !.merged = ledger[p]]
    <3>1. CASE \E h \in Handler, q \in Pull : RecRecord(h, q)
      <4>1. PICK h \in Handler, q \in Pull : RecRecord(h, q)
        BY <3>1
      <4>2. p = q
        BY <2>3, <2>t, <4>1 DEF RecRecord, TypeOK
      <4>3. pull[p].state # "merged"
        BY <2>t, <4>1, <4>2 DEF RecRecord, Recorded, Stores, MergedIsProved
      <4>4. pull[p].state = "open"
        BY <1>1, <2>t, <4>3 DEF NeverClosed
      <4>5. pull'[p] = [pull[p] EXCEPT !.state = "merged", !.merged = ledger[p]]
        BY <2>t, <4>1, <4>2 DEF RecRecord, TypeOK
      <4> QED BY <4>4, <4>5
    <3>2. CASE \E h \in Handler, u \in User, q \in Pull, b, d \in Branch : CreatePull(h, u, q, b, d)
      BY <2>2, <2>3, <2>t, <3>2 DEF CreatePull, TypeOK
    <3>3. CASE \E h \in Handler, u \in User, q \in Pull, s \in PullState : EditPull(h, u, q, s)
      BY <2>2, <2>3, <2>t, <3>3 DEF EditPull, TypeOK
    <3>4. CASE UNCHANGED pull
      BY <2>3, <3>4
    <3> QED BY <1>1, <3>1, <3>2, <3>3, <3>4, RowWriters DEF Review, TxnCommit
  <2>4. ASSUME NEW i \in DOMAIN reviews' \ DOMAIN reviews PROVE reviews'[i].pull # p
    <3>1. CASE \E h \in Handler, u \in User, q \in Pull, d \in Decision : Review(h, u, q, d)
      <4>1. PICK h \in Handler, u \in User, q \in Pull, d \in Decision : Review(h, u, q, d)
        BY <3>1
      <4>2. q # p
        BY <2>2, <4>1 DEF Review
      <4>3. reviews'[i].pull = q
        BY <2>4, <2>t, <4>1 DEF Review, TypeOK
      <4> QED BY <4>2, <4>3
    <3>2. CASE UNCHANGED reviews
      BY <2>4, <3>2
    <3> QED BY <1>1, <3>1, <3>2, RowWriters DEF RecRecord, CreatePull, EditPull, TxnCommit
  <2> QED BY <2>1, <2>3, <2>4
<1>2. IInv /\ [Next]_vars =>
        [\A p \in Pull : ledger[p] # NoOid =>
           /\ ledger'[p] = ledger[p]
           /\ pull'[p] # pull[p] =>
                /\ pull[p].state = "open"
                /\ pull'[p] = [pull[p] EXCEPT !.state = "merged", !.merged = ledger[p]]
           /\ \A i \in DOMAIN reviews' \ DOMAIN reviews : reviews'[i].pull # p]_vars
  BY <1>1
<1> QED BY <1>2, Inductive, PTL DEF Spec, MergedIsFinal
=============================================================================
