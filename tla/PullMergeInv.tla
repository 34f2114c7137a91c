---------------------------- MODULE PullMergeInv ----------------------------
(***************************************************************************)
(* Why PullMerge is correct: what holds between any two of its steps and   *)
(* is kept by each of them.  TLC checks it on small instances              *)
(* (PullMerge.cfg), PullMergeProofs.tla proves it for all of them.         *)
(***************************************************************************)
EXTENDS PullMerge

\* A handler inside a merge works on a row that exists, and so does every
\* ledger ref: rows are never deleted.
JobHasRow ==
  \A h \in Handler :
    pc[h] \in {"head", "marker", "writing", "txn", "settle", "report"}
      => job[h].pull \in Pull /\ pull[job[h].pull] # NoPull

LedgerHasRow == \A p \in Pull : ledger[p] # NoOid => pull[p] # NoPull

TypeInv == TypeOK /\ JobHasRow /\ LedgerHasRow

-----------------------------------------------------------------------------
(* The repository lock serializes: whoever is not idle holds it.            *)
OneHolder == \A h \in Handler : pc[h] # "idle" => lock = h

NoMarker == \A p \in Pull : marker[p] = NoOid
OnlyMarker(p, m) == \A q \in Pull : marker[q] = IF q = p THEN m ELSE NoOid

\* Once a handler has reconciled, the only marker is the one it writes itself.
MarkerPhase ==
  \A h \in Handler :
    /\ pc[h] \in {"body", "head", "marker", "report"} => NoMarker
    /\ pc[h] = "writing" => OnlyMarker(job[h].pull, Torn)
    /\ pc[h] = "txn" => OnlyMarker(job[h].pull, job[h].commit)

\* From the inspection to the transaction the pull stays open and unmerged;
\* afterwards a success reported by git is in the ledger.
JobPhase ==
  \A h \in Handler :
    /\ pc[h] \in {"marker", "writing", "txn"} =>
         /\ job[h].commit \in Oid
         /\ pull[job[h].pull].state = "open" /\ ledger[job[h].pull] = NoOid
    /\ pc[h] \in {"settle", "report"} =>
         /\ job[h].commit \in Oid
         /\ ~job[h].err => ledger[job[h].pull] = job[h].commit

\* Only a merged row names a merge commit.
MergedColumn ==
  \A p \in Pull : pull[p] # NoPull /\ pull[p].merged # NoOid => pull[p].state = "merged"

Control == OneHolder /\ MarkerPhase /\ JobPhase
Stores  == MarkerIsTrustworthy /\ MergeRecoverable /\ MergedIsProved /\ MergedColumn

-----------------------------------------------------------------------------
(* What the commits keep.                                                   *)

\* A ref names a written commit, whose ancestors are written.
Rooted == \A b \in Branch : refs[b] # NoOid => Written(refs[b])
Closed == \A c \in Oid : \A d \in history[c] : Written(d)

\* The commit a merge is about to publish contains both tips it has read.
JobHistory ==
  \A h \in Handler :
    /\ pc[h] \in {"head", "marker", "writing", "txn"} =>
         job[h].base \in Oid /\ Written(job[h].base)
    /\ pc[h] \in {"marker", "writing", "txn"} =>
         /\ job[h].head \in Oid /\ Written(job[h].head)
         /\ job[h].commit \in Oid
         /\ history[job[h].base] \cup history[job[h].head] \cup {job[h].commit}
              \subseteq history[job[h].commit]

Commits == Rooted /\ Closed /\ JobHistory

-----------------------------------------------------------------------------
(* What a merge goes by.                                                    *)

\* A pull was open when its merge got into the ledger, and nobody closes it.
NeverClosed == \A p \in Pull : ledger[p] # NoOid => pull[p].state \in {"open", "merged"}

\* The review requirement a handler has read is the current one.
StrictPhase ==
  \A h \in Handler : pc[h] \notin {"idle", "settings"} => job[h].strict = requireReview

\* Of the accounts W that have a say, nobody asks to change commit c of pull p
\* and, while review is required, somebody other than its author approves it.
Cleared(p, c, W) ==
  /\ \A u \in W : ~Verdict(p, u, c, "request_changes")
  /\ requireReview => \E u \in W \ {pull[p].author} : Verdict(p, u, c, "approve")

\* What the blockers were computed from stands until the merge.
GatePhase ==
  \A h \in Handler : pc[h] \in {"marker", "writing", "txn"} =>
    Cleared(job[h].pull, job[h].head, job[h].writers)

Gate == NeverClosed /\ StrictPhase /\ GatePhase

-----------------------------------------------------------------------------
\* The inductive invariant, as long as no lock session is lost.
IInv == TypeInv /\ Control /\ Stores /\ Commits /\ Gate

-----------------------------------------------------------------------------
(* Recovery without an operator.                                            *)

\* If no process dies between creating a marker and writing it, a marker
\* without content belongs to the handler that is about to write it.
TornIsWritten ==
  "torn_marker" \notin Faults =>
    \A p \in Pull : marker[p] = Torn =>
      \E h \in Handler : pc[h] = "writing" /\ job[h].pull = p

\* Then reconcileMerges() can settle whatever marker it finds, and never ends in
\* one of the refusals that wait for an operator (collaboration.go:144-162):
\* some action of ReconcileOne is possible for every marker that is left.
RecoversByItself ==
  "torn_marker" \notin Faults =>
    \A h \in Handler, p \in Pull :
      Reconciling(h) /\ marker[p] # NoOid =>
        marker[p] \in Oid /\ ledger[p] \in {NoOid, marker[p]}
=============================================================================
