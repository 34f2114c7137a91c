--------------------------- MODULE KaneoSyncProofs ---------------------------
(***************************************************************************)
(* The ledger of the Kaneo worker keeps its promise for any number of      *)
(* workers, pulls, tasks and page sizes.                                   *)
(***************************************************************************)
EXTENDS KaneoSync, FiniteSetTheorems, WellFoundedInduction, TLAPS

\* A page holds merged pulls only.
PageInv == \A w \in Worker : page[w] \subseteq merged

Owner == \A w \in Worker : pc[w] \in Locked => writer = w /\ current[w] \in merged \ completed

\* Every step keeps the types.
LEMMA TypeStep == ASSUME TypeOK, Owner, [Next]_vars PROVE TypeOK'
<1> USE DEF TypeOK, Step, feedVars, Goto
<1>1. ASSUME NEW w \in Worker, Start(w) \/ EndPage(w) \/ FeedFails(w) PROVE TypeOK'
  BY <1>1 DEF Start, EndPage, FeedFails
<1>2. ASSUME NEW w \in Worker, Fetch(w) PROVE TypeOK'
  <2>1. PageAfter(after[w]) \subseteq Pull
    BY DEF PageAfter
  <2> QED BY <1>2, <2>1 DEF Fetch
<1>3. ASSUME NEW w \in Worker, NEW p \in Pull, Settle(w, p) PROVE TypeOK'
  BY <1>3 DEF Settle, Skip, Begin, TakeNext
<1>4. ASSUME NEW w \in Worker, SeeDone(w) \/ SeeOpen(w) PROVE TypeOK'
  BY <1>4 DEF SeeDone, SeeOpen, Owner, Locked
<1>5. ASSUME NEW w \in Worker, NEW step \in Step, EndTransaction(w, step)
      PROVE  /\ writer' \in Worker \cup {Nobody}
             /\ pc' \in [Worker -> Step]
             /\ current' \in [Worker -> Pull \cup {NoPull}]
  BY <1>5 DEF EndTransaction
<1>6. ASSUME NEW w \in Worker, NEW answered \in BOOLEAN, Put(w, answered) PROVE TypeOK'
  <2>1. current[w] \in Pull /\ TaskOf(w) \in Task
    BY <1>6 DEF Put, Owner, Locked, TaskOf
  <2>2. /\ writer' \in Worker \cup {Nobody} /\ pc' \in [Worker -> Step]
        /\ current' \in [Worker -> Pull \cup {NoPull}]
    BY <1>5, <1>6 DEF Put
  <2> QED BY <1>6, <2>1, <2>2 DEF Put
<1>7. ASSUME NEW w \in Worker, Record(w) \/ Fail(w) \/ Crash(w) PROVE TypeOK'
  <2>1. /\ writer' \in Worker \cup {Nobody} /\ pc' \in [Worker -> Step]
        /\ current' \in [Worker -> Pull \cup {NoPull}]
    BY <1>5, <1>7 DEF Record, Fail, Crash
  <2>2. completed' \subseteq Pull
    BY <1>7 DEF Record, Fail, Crash, Owner, Locked
  <2> QED BY <1>7, <2>1, <2>2 DEF Record, Fail, Crash
<1>8. ASSUME NEW p \in Pull, Merged(p) PROVE TypeOK'
  BY <1>8 DEF Merged
<1>9. ASSUME NEW t \in Task, MoveByHand(t) PROVE TypeOK'
  BY <1>9 DEF MoveByHand
<1>10. CASE UNCHANGED vars
  BY <1>10 DEF vars
<1> QED
  BY <1>1, <1>2, <1>3, <1>4, <1>6, <1>7, <1>8, <1>9, <1>10 DEF Next, Sweep

LEMMA PageStep == ASSUME TypeOK, PageInv, [Next]_vars PROVE PageInv'
<1> USE DEF TypeOK, feedVars
<1>1. ASSUME NEW w \in Worker, Fetch(w) PROVE PageInv'
  BY <1>1 DEF Fetch, PageInv, PageAfter
<1>2. ASSUME NEW w \in Worker, NEW p \in Pull, Settle(w, p) PROVE PageInv'
  BY <1>2 DEF Settle, Skip, Begin, TakeNext, PageInv
<1>3. ASSUME UNCHANGED page, merged \subseteq merged' PROVE PageInv'
  BY <1>3 DEF PageInv
<1> QED
  BY <1>1, <1>2, <1>3
  DEF Next, Sweep, Start, EndPage, FeedFails, SeeDone, SeeOpen, Put, Record, Fail,
      Crash, Merged, MoveByHand, vars

\* Who owns the write transaction is the only worker inside one.
LEMMA OwnerStep == ASSUME TypeOK, PageInv, Owner, [Next]_vars PROVE Owner'
<1> USE DEF TypeOK, feedVars, Goto, Locked
<1>1. ASSUME NEW w \in Worker, Start(w) \/ Fetch(w) \/ EndPage(w) \/ FeedFails(w)
      PROVE  Owner'
  BY <1>1 DEF Start, Fetch, EndPage, FeedFails, Owner
<1>2. ASSUME NEW w \in Worker, NEW p \in Pull, Skip(w, p) PROVE Owner'
  BY <1>2 DEF Skip, Owner
<1>3. ASSUME NEW w \in Worker, NEW p \in Pull, Begin(w, p) PROVE Owner'
  BY <1>3, WorkerAssumption DEF Begin, IsFirst, PageInv, Owner
<1>4. ASSUME NEW w \in Worker, SeeDone(w) \/ SeeOpen(w) PROVE Owner'
  BY <1>4 DEF SeeDone, SeeOpen, Owner
<1>5. ASSUME NEW w \in Worker, NEW step \in {"page", "idle"}, EndTransaction(w, step),
             UNCHANGED merged, pc[w] \in Locked => completed' \subseteq completed \cup {current[w]},
             pc[w] \notin Locked => UNCHANGED completed
      PROVE  Owner'
  BY <1>5 DEF EndTransaction, Owner
<1>6. ASSUME NEW w \in Worker, NEW answered \in BOOLEAN, Put(w, answered) PROVE Owner'
  <2>1. CASE answered
    BY <1>6, <2>1 DEF Put, Owner
  <2>2. CASE ~answered
    BY <1>5, <1>6, <2>2 DEF Put
  <2> QED BY <2>1, <2>2
<1>7. ASSUME NEW w \in Worker, Record(w) \/ Fail(w) \/ Crash(w) PROVE Owner'
  BY <1>5, <1>7 DEF Record, Fail, Crash
<1>8. ASSUME NEW p \in Pull, Merged(p) PROVE Owner'
  BY <1>8 DEF Merged, Owner
<1>9. ASSUME NEW t \in Task, MoveByHand(t) PROVE Owner'
  BY <1>9 DEF MoveByHand, Owner
<1>10. CASE UNCHANGED vars
  BY <1>10 DEF vars, Owner
<1> QED
  BY <1>1, <1>2, <1>3, <1>4, <1>6, <1>7, <1>8, <1>9, <1>10 DEF Next, Sweep, Settle

LEMMA SyncInit == Init => TypeOK /\ PageInv /\ Owner
BY DEF Init, TypeOK, PageInv, Owner, Step, Locked, NoPull

\* What the workers and the ledger are known to satisfy after every step.
LEMMA SyncStep ==
  TypeOK /\ PageInv /\ Owner /\ [Next]_vars => TypeOK' /\ PageInv' /\ Owner'
BY TypeStep, PageStep, OwnerStep

LEMMA SyncAlways == Spec => [](TypeOK /\ PageInv /\ Owner)
BY SyncInit, SyncStep, PTL DEF Spec

\* The owner of the transaction is the only worker inside one, and works on a
\* merged pull that the ledger does not have.
THEOREM LedgerSerializes == Spec => []SyncInv
<1>1. TypeOK /\ PageInv /\ Owner => SyncInv
  BY DEF SyncInv, Owner
<1> QED BY <1>1, SyncAlways, PTL

\* No worker moves a task for a pull in the ledger, or for one that has not
\* merged.
THEOREM LedgerIsKept == Spec => CompletedIsLeftAlone
<1> DEFINE Left == \A w \in Worker : pc[w] = "put" /\ done' # done /\ pc'[w] # "put"
                      => current[w] \in merged \ completed
<1>1. TypeOK /\ PageInv /\ Owner => [Left]_vars
  BY DEF Owner, Locked
<1> QED BY <1>1, SyncAlways, PTL DEF CompletedIsLeftAlone

-----------------------------------------------------------------------------
(* Least and greatest elements of sets of numbers.                          *)

Before == {ss \in Nat \X Nat : ss[1] < ss[2]}

LEMMA BeforeWellFounded == IsWellFoundedOn(Before, Nat)
BY NatLessThanWellFounded DEF OpToRel, Before

LEMMA LeastOne ==
  ASSUME NEW T \in SUBSET Nat, T # {}
  PROVE  \E x \in T : \A y \in T : x <= y
<1>1. PICK x \in T : \A y \in T : ~(<<y, x>> \in Before)
  BY BeforeWellFounded, WFMin
<1>2. ASSUME NEW y \in T, y < x PROVE FALSE
  <2>1. <<y, x>> \in Nat \X Nat
    OBVIOUS
  <2>2. <<y, x>>[1] < <<y, x>>[2]
    BY <1>2
  <2>3. <<y, x>> \in Before
    BY <2>1, <2>2, Zenon DEF Before
  <2> QED BY <2>3, <1>1
<1> QED BY <1>2

LEMMA GreatestOne ==
  ASSUME NEW n \in Nat, NEW T \in SUBSET (0..n), T # {}
  PROVE  \E x \in T : \A y \in T : y <= x
<1> DEFINE U == {n - x : x \in T}
<1>1. \A x \in T : x \in Nat /\ n - x \in Nat
  OBVIOUS
<1>2. PICK u \in U : \A y \in U : u <= y
  <2>1. U \in SUBSET Nat /\ U # {}
    BY <1>1
  <2> QED BY <2>1, LeastOne
<1>3. PICK x \in T : u = n - x
  OBVIOUS
<1>4. ASSUME NEW y \in T PROVE y <= x
  <2>1. n - x <= n - y
    BY <1>2, <1>3
  <2>2. x \in Nat /\ y \in Nat
    BY <1>1
  <2> QED BY <2>1, <2>2
<1> QED BY <1>4

-----------------------------------------------------------------------------
(* Pages of the feed.                                                       *)

Between(n, x) == {q \in merged : n < q /\ q < x}

LEMMA BetweenIsFinite ==
  ASSUME TypeOK, NEW n \in Nat, NEW x \in Nat
  PROVE  IsFiniteSet(Between(n, x)) /\ Cardinality(Between(n, x)) \in Nat
<1>1. IsFiniteSet(Pull)
  BY BoundAssumption, FS_Interval DEF Pull
<1>2. Between(n, x) \subseteq Pull
  BY DEF Between, TypeOK
<1> QED BY <1>1, <1>2, FS_Subset, FS_CardinalityType

\* A merged pull ranks after every merged pull with a lower number.
LEMMA Ranks ==
  ASSUME TypeOK, NEW n \in Nat, NEW x \in Nat, NEW y \in Nat, x <= y
  PROVE  /\ Cardinality(Between(n, x)) <= Cardinality(Between(n, y))
         /\ x \in merged /\ n < x /\ x < y =>
              Cardinality(Between(n, x)) < Cardinality(Between(n, y))
<1>1. /\ IsFiniteSet(Between(n, y)) /\ Cardinality(Between(n, y)) \in Nat
      /\ Cardinality(Between(n, x)) \in Nat
  BY BetweenIsFinite
<1>2. Between(n, x) \subseteq Between(n, y)
  <2> SUFFICES ASSUME NEW q \in merged, n < q, q < x PROVE q < y
    BY DEF Between
  <2>1. q \in Nat
    BY BoundAssumption DEF TypeOK, Pull
  <2> QED BY <2>1
<1>3. Cardinality(Between(n, x)) <= Cardinality(Between(n, y))
  BY <1>1, <1>2, FS_Subset
<1>4. ASSUME x \in merged, n < x, x < y
      PROVE  Cardinality(Between(n, x)) < Cardinality(Between(n, y))
  <2>1. x \in Between(n, y) /\ x \notin Between(n, x)
    BY <1>4 DEF Between
  <2>2. Between(n, x) # Between(n, y)
    BY <2>1
  <2> QED BY <1>1, <1>2, <1>3, <2>2, FS_Subset
<1> QED BY <1>3, <1>4

\* A page that leaves out a merged pull above after_id is full, and stops below
\* that pull.
LEMMA FullPage ==
  ASSUME TypeOK, NEW n \in Nat, NEW p \in merged, n < p, p \notin PageAfter(n)
  PROVE  /\ Cardinality(PageAfter(n)) = PageSize
         /\ \A q \in PageAfter(n) : q < p
<1> DEFINE Rank(x) == Cardinality(Between(n, x))
           P == PageAfter(n)
           Rest == {x \in merged : n < x /\ x \notin P}
<1>1. /\ merged \subseteq Nat /\ merged \subseteq 0..MaxPull /\ MaxPull \in Nat
      /\ PageSize \in Nat /\ PageSize > 0
  BY BoundAssumption, PageAssumption DEF TypeOK, Pull
<1>2. \A x \in merged : Rank(x) \in Nat
  BY <1>1, BetweenIsFinite
<1>3. P = {x \in merged : n < x /\ Rank(x) < PageSize}
  BY DEF PageAfter, Between
<1>4. ASSUME NEW q \in P, NEW r \in Rest PROVE q < r
  <2>1. Rank(q) < PageSize /\ ~(Rank(r) < PageSize) /\ q \in merged /\ r \in merged
    BY <1>3
  <2>2. ~(r <= q)
    <3>1. r <= q => Rank(r) <= Rank(q)
      BY <1>1, <2>1, Ranks
    <3> HIDE DEF Rank
    <3> QED BY <1>1, <1>2, <2>1, <3>1
  <2> QED BY <1>1, <2>1, <2>2
<1>5. PICK m \in Rest : \A r \in Rest : m <= r
  <2>1. Rest \in SUBSET Nat /\ p \in Rest
    BY <1>1
  <2> QED BY <2>1, LeastOne
<1>6. Between(n, m) = P
  <2>1. \A q \in Between(n, m) : q \in P
    <3> SUFFICES ASSUME NEW q \in Between(n, m), q \notin P PROVE FALSE
      OBVIOUS
    <3>1. q \in Rest /\ q < m /\ q \in Nat /\ m \in Nat
      BY <1>1 DEF Between
    <3> QED BY <3>1, <1>5
  <2>2. \A q \in P : q \in Between(n, m)
    BY <1>3, <1>4, <1>5 DEF Between
  <2> QED BY <2>1, <2>2
<1>7. Cardinality(P) \in Nat /\ Cardinality(P) >= PageSize
  BY <1>1, <1>2, <1>3, <1>5, <1>6
<1>8. P # {}
  <2>1. P = {} => Cardinality(P) = 0
    BY FS_EmptySet
  <2> HIDE DEF P
  <2> QED BY <1>1, <1>7, <2>1
<1>9. PICK x \in P : \A y \in P : y <= x
  <2>1. P \in SUBSET (0..MaxPull)
    BY <1>1, <1>3
  <2> QED BY <1>1, <1>8, <2>1, GreatestOne
<1>10. x \in merged /\ n < x /\ Rank(x) < PageSize
  BY <1>3, <1>9
<1>11. Between(n, x) = P \ {x}
  <2>1. ASSUME NEW q \in Between(n, x) PROVE q \in P /\ q # x
    <3>1. q \in merged /\ n < q /\ q < x
      BY <2>1 DEF Between
    <3>2. Rank(q) <= Rank(x)
      BY <1>1, <1>10, <3>1, Ranks
    <3>3. Rank(q) < PageSize
      <4> HIDE DEF Rank
      <4> QED BY <1>1, <1>2, <1>10, <3>1, <3>2
    <3> QED BY <1>1, <1>3, <3>1, <3>3
  <2>2. ASSUME NEW q \in P \ {x} PROVE q \in Between(n, x)
    <3>1. q \in merged /\ n < q /\ q <= x /\ q # x
      BY <1>3, <1>9, <2>2
    <3>2. q < x
      BY <1>1, <1>10, <3>1
    <3> QED BY <3>1, <3>2 DEF Between
  <2> QED BY <2>1, <2>2
<1>12. Rank(x) = Cardinality(P) - 1
  <2>1. IsFiniteSet(P)
    BY <1>1, <1>5, <1>6, BetweenIsFinite
  <2> QED BY <1>9, <1>11, <2>1, FS_RemoveElement
<1>13. Cardinality(P) = PageSize
  <2> HIDE DEF P, Rank
  <2> QED BY <1>1, <1>7, <1>10, <1>12
<1>14. \A q \in P : q < p
  BY <1>4
<1> QED BY <1>13, <1>14

-----------------------------------------------------------------------------
(* A sweep.                                                                 *)

LEMMA SweepStep ==
  ASSUME TypeOK, NEW w \in Worker, NEW p \in Pull, Ahead(w, p), [Next]_vars,
         ~Settle(w, p), ~FeedFails(w), ~Crash(w)
  PROVE  Ahead(w, p)'
<1> USE DEF TypeOK, feedVars, Goto
<1>1. /\ p \in merged /\ after[w] < p /\ after[w] \in Nat /\ p \in Nat
      /\ pc[w] # "idle"
  BY DEF Ahead, Pull
<1>2. CASE Fetch(w)
  <2>1. /\ pc[w] = "feed" /\ pc'[w] = "page" /\ UNCHANGED <<merged, after>>
        /\ page'[w] = PageAfter(after[w])
        /\ more'[w] = (Cardinality(PageAfter(after[w])) = PageSize)
    BY <1>2 DEF Fetch
  <2>2. CASE p \in PageAfter(after[w])
    BY <1>1, <2>1, <2>2 DEF Ahead
  <2>3. CASE p \notin PageAfter(after[w])
    <3>1. /\ Cardinality(PageAfter(after[w])) = PageSize
          /\ \A q \in PageAfter(after[w]) : q < p
      BY <1>1, <2>3, FullPage
    <3> QED BY <1>1, <2>1, <3>1 DEF Ahead
  <2> QED BY <2>2, <2>3
<1>3. ASSUME NEW q \in Pull, Settle(w, q) PROVE Ahead(w, p)'
  <2>1. /\ q # p /\ q \in page[w] /\ (\A r \in page[w] : q <= r)
        /\ pc[w] = "page" /\ pc'[w] \in {"page", "task"}
        /\ page'[w] = page[w] \ {q} /\ after'[w] = q /\ UNCHANGED <<merged, more>>
    BY <1>3 DEF Settle, Skip, Begin, IsFirst, TakeNext
  <2>2. p \in page[w] \/ (more[w] /\ \A r \in page[w] : r < p)
    BY <2>1 DEF Ahead
  <2>3. q < p
    BY <2>1, <2>2 DEF Pull
  <2> QED BY <1>1, <2>1, <2>2, <2>3 DEF Ahead
<1>4. CASE EndPage(w)
  BY <1>1, <1>4 DEF EndPage, Ahead
<1>5. ASSUME merged \subseteq merged', after'[w] = after[w], page'[w] = page[w],
             more'[w] = more[w], pc'[w] = pc[w] \/ (pc[w] \in Locked /\ pc'[w] \in Locked \cup {"page"})
      PROVE  Ahead(w, p)'
  BY <1>5 DEF Ahead, Locked
<1>6. CASE Start(w)
  BY <1>1, <1>6 DEF Start
<1>7. CASE SeeDone(w) \/ SeeOpen(w)
  BY <1>5, <1>7 DEF SeeDone, SeeOpen, Locked
<1>8. CASE Record(w) \/ Fail(w) \/ \E answered \in BOOLEAN : Put(w, answered)
  BY <1>5, <1>8 DEF Record, Fail, Put, EndTransaction, Locked
<1>9. ASSUME NEW v \in Worker \ {w}, Sweep(v) \/ Crash(v) PROVE Ahead(w, p)'
  <2>1. /\ UNCHANGED merged /\ after'[w] = after[w] /\ page'[w] = page[w]
        /\ more'[w] = more[w] /\ pc'[w] = pc[w]
    BY <1>9 DEF Sweep, Start, Fetch, EndPage, FeedFails, Settle, Skip, Begin, TakeNext,
                SeeDone, SeeOpen, Put, Record, Fail, Crash, EndTransaction
  <2> QED BY <1>5, <2>1
<1>10. CASE (\E q \in Pull : Merged(q)) \/ (\E t \in Task : MoveByHand(t)) \/ UNCHANGED vars
  BY <1>5, <1>10 DEF Merged, MoveByHand, vars
<1> QED
  BY <1>2, <1>3, <1>4, <1>6, <1>7, <1>8, <1>9, <1>10 DEF Next, Sweep

\* merged_pulls() walks the feed without a gap, for any size of its pages and
\* whatever merges meanwhile: a pull ahead of a sweep gets its turn unless the
\* sweep ends before.
THEOREM FeedIsWalked == Spec => NothingIsPassedOver
<1> DEFINE Walks == \A w \in Worker, p \in Pull :
                      Ahead(w, p) => Ahead(w, p)' \/ Settle(w, p) \/ FeedFails(w) \/ Crash(w)
<1>1. TypeOK /\ [Next]_vars => [Walks]_vars
  BY SweepStep
<1> QED BY <1>1, SyncAlways, PTL DEF NothingIsPassedOver, Spec
=============================================================================
