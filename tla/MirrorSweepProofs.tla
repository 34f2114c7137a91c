------------------------- MODULE MirrorSweepProofs -------------------------
(***************************************************************************)
(* A recovery to the published target names nothing the mirror does not    *)
(* hold, and misses no repository, for any margin that covers the listing. *)
(***************************************************************************)
EXTENDS MirrorSweep, FiniteSetTheorems, TLAPS

-----------------------------------------------------------------------------
USE DEF Time, Commits, Targets, Life

LEMMA MirrorInit == Init => MirrorInv
<1> SUFFICES ASSUME Init PROVE MirrorInv
  OBVIOUS
<1> USE TimeAssumption, BoundAssumption DEF Init
<1>1. TypeOK
  <2>1. shrunk \in BOOLEAN /\ failed \in BOOLEAN
    BY Zenon
  <2>2. now \in Time /\ served \in Time /\ target \in Int /\ gained \in [Repo -> Time]
    BY DEF Never
  <2>3. /\ life \in [Repo -> Life] /\ born \in [Repo -> Time] /\ tip \in [Repo -> Commits]
        /\ named \in [Repo -> [Targets -> Commits]] /\ held \in [Repo -> Commits]
    OBVIOUS
  <2>4. /\ readable \subseteq Repo /\ listed \subseteq Repo /\ left \subseteq Repo
        /\ published \subseteq Repo /\ sweep \in {"idle", "listing", "fetching"}
    OBVIOUS
  <2> QED BY <2>1, <2>2, <2>3, <2>4 DEF TypeOK
<1>2. SweepInv
  BY DEF SweepInv, Rows, Never
<1>3. TargetCovered /\ InventoryComplete
  BY DEF TargetCovered, InventoryComplete, Rows, Never
<1> QED BY <1>1, <1>2, <1>3 DEF MirrorInv

\* The variables of a sweep that has ended.
LEMMA EndTypes ==
  ASSUME SweepEnds
  PROVE  /\ sweep' \in {"idle", "listing", "fetching"}
         /\ shrunk' \in BOOLEAN /\ failed' \in BOOLEAN
         /\ listed' \subseteq Repo /\ left' \subseteq Repo
         /\ served' \in Time
<1>1. shrunk' \in BOOLEAN /\ failed' \in BOOLEAN
  BY Zenon DEF SweepEnds
<1>2. sweep' \in {"idle", "listing", "fetching"} /\ served' \in Time
  BY TimeAssumption DEF SweepEnds
<1>3. listed' \subseteq Repo /\ left' \subseteq Repo
  BY DEF SweepEnds
<1> QED BY <1>1, <1>2, <1>3

LEMMA MirrorTypes == ASSUME TypeOK, [Next]_vars PROVE TypeOK'
<1> USE TimeAssumption, BoundAssumption
        DEF TypeOK, serverVars, sweepVars, stateVars
<1>1. CASE Tick BY <1>1 DEF Tick
<1>2. ASSUME NEW k \in Repo, InsertRow(k) PROVE TypeOK' BY <1>2 DEF InsertRow
<1>3. ASSUME NEW k \in Repo, InitDir(k) PROVE TypeOK' BY <1>3 DEF InitDir
<1>4. ASSUME NEW k \in Repo, CreateFails(k) PROVE TypeOK' BY <1>4 DEF CreateFails, Rows
<1>5. ASSUME NEW k \in Repo, Push(k) PROVE TypeOK'
  <2>1. tip[k] + 1 \in Commits
    BY <1>5 DEF Push
  <2>2. tip' \in [Repo -> Commits]
    BY <1>5, <2>1 DEF Push
  <2> QED BY <1>5, <2>2 DEF Push
<1>6. ASSUME NEW k \in Repo, Name(k) PROVE TypeOK'
  <2>1. PICK c \in Commits : named' = [named EXCEPT ![k] =
          [t \in Targets |-> IF t >= now /\ c > @[t] THEN c ELSE @[t]]]
    BY <1>6 DEF Name
  <2>2. named' \in [Repo -> [Targets -> Commits]]
    BY <2>1
  <2> QED BY <1>6, <2>2 DEF Name
<1>7. ASSUME NEW k \in Repo, LoseAccess(k) \/ GainAccess(k) PROVE TypeOK'
  <2>1. CASE LoseAccess(k) BY <2>1 DEF LoseAccess
  <2>2. CASE GainAccess(k)
    <3>1. readable' \subseteq Repo /\ gained' \in [Repo -> Time]
      BY <2>2 DEF GainAccess
    <3> QED BY <2>2, <3>1 DEF GainAccess
  <2> QED BY <1>7, <2>1, <2>2
<1>8. CASE ListRepos BY <1>8 DEF ListRepos, Rows
<1>9. ASSUME NEW a \in BOOLEAN, ListServed(a) PROVE TypeOK' BY <1>9 DEF ListServed, Shrunk
<1>10. CASE ListRefused BY <1>10, EndTypes DEF ListRefused
<1>11. ASSUME NEW k \in Repo, MirrorOne(k) PROVE TypeOK' BY <1>11 DEF MirrorOne
<1>12. ASSUME NEW k \in Repo, MirrorFails(k) PROVE TypeOK' BY <1>12 DEF MirrorFails
<1>13. CASE Publish BY <1>13, EndTypes DEF Publish
<1>14. CASE Hold BY <1>14, EndTypes DEF Hold
<1>15. CASE Interrupt BY <1>15, EndTypes DEF Interrupt
<1>16. CASE UNCHANGED vars BY <1>16 DEF vars
<1> QED BY <1>1, <1>2, <1>3, <1>4, <1>5, <1>6, <1>7, <1>8, <1>9, <1>10, <1>11,
           <1>12, <1>13, <1>14, <1>15, <1>16 DEF Next, Server, Sweep

\* All that is compared is a number.
LEMMA Numbers ==
  ASSUME TypeOK
  PROVE  /\ now \in Int /\ served \in Int /\ target \in Int /\ Margin \in Int
         /\ \A j \in Repo : /\ tip[j] \in Int /\ held[j] \in Int
                            /\ born[j] \in Int /\ gained[j] \in Int
         /\ \A j \in Repo, t \in Targets : named[j][t] \in Int
<1> USE TimeAssumption, BoundAssumption
<1>1. Commits \subseteq Int /\ Time \subseteq Int
  OBVIOUS
<1> HIDE DEF Commits, Time, Targets
<1>2. /\ now \in Time /\ served \in Time /\ target \in Int
      /\ \A j \in Repo : tip[j] \in Commits /\ held[j] \in Commits
      /\ \A j \in Repo : born[j] \in Time /\ gained[j] \in Time
  BY DEF TypeOK
<1>3. \A j \in Repo, t \in Targets : named[j][t] \in Commits
  BY DEF TypeOK
<1>4. Margin \in Int
  OBVIOUS
<1>5. now \in Int /\ served \in Int
  BY <1>1, <1>2
<1>6. \A j \in Repo : tip[j] \in Int /\ held[j] \in Int /\ born[j] \in Int /\ gained[j] \in Int
  BY <1>1, <1>2
<1>7. \A j \in Repo, t \in Targets : named[j][t] \in Int
  BY <1>1, <1>3
<1> QED BY <1>2, <1>4, <1>5, <1>6, <1>7

\* A row that is written late changes no moment before it.
LEMMA PastIsPast ==
  ASSUME TypeOK, NEW k \in Repo, Name(k), NEW j \in Repo, NEW t \in Targets
  PROVE  /\ named'[j][t] = named[j][t] \/ (t >= now /\ named'[j][t] <= tip[j])
         /\ t < now => named'[j][t] = named[j][t]
<1>1. PICK c \in Commits :
        /\ c <= tip[k]
        /\ named' = [named EXCEPT ![k] =
             [u \in Targets |-> IF u >= now /\ c > @[u] THEN c ELSE @[u]]]
  BY DEF Name
<1>2. CASE j = k
  <2>1. named'[j][t] = IF t >= now /\ c > named[k][t] THEN c ELSE named[k][t]
    BY <1>1, <1>2 DEF TypeOK
  <2> QED BY <1>1, <1>2, <2>1, TimeAssumption, BoundAssumption DEF TypeOK
<1>3. CASE j # k
  BY <1>1, <1>3 DEF TypeOK
<1> QED BY <1>2, <1>3

\* A step of the server that only takes rows or access away, sweeps nothing and
\* names no commit.
LEMMA AccessShrinks ==
  ASSUME MirrorInv, UNCHANGED <<now, tip, named, sweepVars, stateVars, held>>,
         Rows' \cap readable' \subseteq Rows \cap readable,
         \A j \in Rows' \cap readable' : born'[j] = born[j] /\ gained'[j] = gained[j]
  PROVE  (SweepInv /\ TargetCovered /\ InventoryComplete)'
<1> USE DEF sweepVars, stateVars
<1>1. TargetCovered'
  BY DEF MirrorInv, TargetCovered
<1>2. InventoryComplete'
  BY DEF MirrorInv, InventoryComplete
<1>3. SweepInv'
  BY DEF MirrorInv, SweepInv
<1> QED BY <1>1, <1>2, <1>3

LEMMA MirrorSteps ==
  ASSUME MirrorInv, [Next]_vars PROVE (SweepInv /\ TargetCovered /\ InventoryComplete)'
<1> DEFINE Goal == (SweepInv /\ TargetCovered /\ InventoryComplete)'
<1>0. TypeOK /\ TypeOK'
  BY MirrorTypes DEF MirrorInv
<1> USE <1>0, TimeAssumption, MarginAssumption, BoundAssumption
        DEF MirrorInv, TypeOK, SweepInv, TargetCovered, InventoryComplete, Rows,
            serverVars, sweepVars, stateVars, SweepEnds
<1>1. CASE Tick BY <1>1 DEF Tick
<1>2. ASSUME NEW k \in Repo, InsertRow(k) PROVE Goal BY <1>2 DEF InsertRow
<1>3. ASSUME NEW k \in Repo, InitDir(k) PROVE Goal BY <1>3 DEF InitDir
<1>4. ASSUME NEW k \in Repo, CreateFails(k) PROVE Goal
  <2>1. UNCHANGED <<now, tip, named, sweepVars, stateVars, held>>
    BY <1>4 DEF CreateFails
  <2>2. /\ Rows' \cap readable' \subseteq Rows \cap readable
        /\ \A j \in Rows' \cap readable' : born'[j] = born[j] /\ gained'[j] = gained[j]
    BY <1>4 DEF CreateFails
  <2> QED BY <2>1, <2>2, AccessShrinks
<1>5. ASSUME NEW k \in Repo, Push(k) PROVE Goal
  <2>1. UNCHANGED <<now, life, born, named, readable, gained, sweepVars, stateVars, held>>
    BY <1>5 DEF Push
  <2>2. \A j \in Repo : tip[j] <= tip'[j]
    BY <1>5 DEF Push
  <2>3. \A j \in Repo : held'[j] <= tip'[j] /\ \A t \in Targets : named'[j][t] <= tip'[j]
    <3>1. \A j \in Repo : /\ held[j] <= tip[j] /\ \A t \in Targets : named[j][t] <= tip[j]
                          /\ held[j] \in Int /\ tip[j] \in Int /\ tip'[j] \in Int
                          /\ \A t \in Targets : named[j][t] \in Int
      <4>1. \A j \in Repo : held[j] <= tip[j] /\ \A t \in Targets : named[j][t] <= tip[j]
        OBVIOUS
      <4>2. \A j \in Repo : tip'[j] \in Commits
        OBVIOUS
      <4> HIDE DEF TypeOK, MirrorInv, SweepInv, TargetCovered, InventoryComplete
      <4> QED BY <4>1, <4>2, Numbers
    <3>2. UNCHANGED <<named, held>>
      BY <2>1
    <3> HIDE DEF TypeOK, MirrorInv, SweepInv, TargetCovered, InventoryComplete
    <3> QED BY <2>2, <3>1, <3>2
  <2>4. TargetCovered' /\ InventoryComplete'
    BY <2>1
  <2>5. SweepInv'
    BY <2>1, <2>3
  <2> QED BY <2>4, <2>5
<1>6. ASSUME NEW k \in Repo, Name(k) PROVE Goal
  <2>1. \A j \in Repo : \A t \in Targets :
          /\ named'[j][t] <= tip[j]
          /\ t < now => named'[j][t] = named[j][t]
    BY <1>6, PastIsPast
  <2>2. UNCHANGED <<now, life, born, tip, readable, gained, sweepVars, stateVars, held>>
    BY <1>6 DEF Name
  <2>3. SweepInv'
    <3>1. served' <= now' /\ target' <= now' - Margin
      BY <2>2
    <3>2. \A j \in Repo : held'[j] <= tip'[j] /\ \A t \in Targets : named'[j][t] <= tip'[j]
      BY <2>1, <2>2
    <3>3. /\ sweep' = "listing" => \A j \in (Rows' \cap readable') \ listed' :
                                      born'[j] >= served' \/ gained'[j] >= served'
          /\ sweep' = "fetching" =>
               \A j \in (Rows' \cap readable') \ listed' :
                 born'[j] > served' - Margin \/ gained'[j] > served' - Margin
      BY <2>2
    <3>4. sweep' = "fetching" /\ ~failed' =>
            \A j \in listed' \ left' : \A t \in Targets :
              t < served' => named'[j][t] <= held'[j]
      BY <2>1, <2>2
    <3> QED BY <3>1, <3>2, <3>3, <3>4
  <2>4. TargetCovered'
    BY <2>1, <2>2
  <2> QED BY <2>2, <2>3, <2>4
<1>7. ASSUME NEW k \in Repo, LoseAccess(k) \/ GainAccess(k) PROVE Goal
  <2>1. CASE LoseAccess(k)
    <3>1. UNCHANGED <<now, tip, named, sweepVars, stateVars, held>>
      BY <2>1 DEF LoseAccess
    <3>2. /\ Rows' \cap readable' \subseteq Rows \cap readable
          /\ \A j \in Rows' \cap readable' : born'[j] = born[j] /\ gained'[j] = gained[j]
      BY <2>1 DEF LoseAccess
    <3> QED BY <3>1, <3>2, AccessShrinks
  <2>2. CASE GainAccess(k)
    <3>1. /\ UNCHANGED <<now, life, born, tip, named, sweepVars, stateVars, held>>
          /\ readable' = readable \cup {k} /\ gained'[k] = now
          /\ \A j \in Repo \ {k} : gained'[j] = gained[j]
      BY <2>2 DEF GainAccess
    <3>2. InventoryComplete'
      <4>1. target < now
        <5>1. target <= now - Margin /\ Margin > 0
          OBVIOUS
        <5> HIDE DEF TypeOK, MirrorInv, SweepInv, TargetCovered, InventoryComplete
        <5> QED BY <5>1, Numbers
      <4>2. \A j \in Rows' \cap readable' :
              \/ j = k
              \/ j \in Rows \cap readable /\ born'[j] = born[j] /\ gained'[j] = gained[j]
        BY <3>1
      <4>3. ~(gained'[k] <= target')
        <5> HIDE DEF TypeOK, MirrorInv, SweepInv, TargetCovered, InventoryComplete
        <5> QED BY <3>1, <4>1, Numbers
      <4> QED BY <3>1, <4>2, <4>3
    <3>3. TargetCovered'
      BY <3>1
    <3>4. served <= now /\ now > served - Margin
      OBVIOUS
    <3>5. \A j \in (Rows' \cap readable') \ listed' :
            \/ j = k
            \/ j \in (Rows \cap readable) \ listed /\ born'[j] = born[j] /\ gained'[j] = gained[j]
      BY <3>1
    <3>6. /\ sweep' = "listing" =>
               \A j \in (Rows' \cap readable') \ listed' :
                 born'[j] >= served' \/ gained'[j] >= served'
          /\ sweep' = "fetching" =>
               \A j \in (Rows' \cap readable') \ listed' :
                 born'[j] > served' - Margin \/ gained'[j] > served' - Margin
      <4>1. \A j \in (Rows \cap readable) \ listed :
              /\ sweep = "listing" => born[j] >= served \/ gained[j] >= served
              /\ sweep = "fetching" => born[j] > served - Margin \/ gained[j] > served - Margin
        OBVIOUS
      <4>2. UNCHANGED <<sweep, served>> /\ gained'[k] = now
        BY <3>1
      <4> HIDE DEF TypeOK, MirrorInv, SweepInv, TargetCovered, InventoryComplete, Rows
      <4> QED BY <3>4, <3>5, <4>1, <4>2, Numbers
    <3>7. SweepInv'
      BY <3>1, <3>6
    <3> QED BY <3>2, <3>3, <3>7
  <2> QED BY <1>7, <2>1, <2>2
<1>8. CASE ListRepos
  <2>1. /\ sweep' = "listing" /\ listed' = Rows \cap readable /\ served' = now
        /\ UNCHANGED <<now, serverVars, stateVars, held>>
    BY <1>8 DEF ListRepos
  <2>2. TargetCovered' /\ InventoryComplete'
    BY <2>1
  <2>3. SweepInv'
    BY <2>1
  <2> QED BY <2>2, <2>3
<1>9. ASSUME NEW a \in BOOLEAN, ListServed(a) PROVE Goal
  <2>1. /\ sweep = "listing" /\ sweep' = "fetching" /\ served' = now /\ left' = listed
        /\ UNCHANGED <<now, life, born, tip, named, readable, gained, listed, stateVars, held>>
        /\ now - served < ListTimeout
    BY <1>9 DEF ListServed
  <2>2. TargetCovered' /\ InventoryComplete'
    BY <2>1
  <2>3. \A j \in (Rows' \cap readable') \ listed' :
          born'[j] > served' - Margin \/ gained'[j] > served' - Margin
    <3>1. \A j \in (Rows \cap readable) \ listed : born[j] >= served \/ gained[j] >= served
      BY <2>1
    <3>2. Rows' = Rows /\ ListTimeout \in Int
      BY <2>1
    <3> HIDE DEF TypeOK, MirrorInv, SweepInv, TargetCovered, InventoryComplete
    <3>3. \A j \in Rows : j \in Repo
      OBVIOUS
    <3> HIDE DEF Rows
    <3> QED BY <2>1, <3>1, <3>2, <3>3, Numbers
  <2>4. SweepInv'
    BY <2>1, <2>3
  <2> QED BY <2>2, <2>4
<1>10. CASE ListRefused BY <1>10 DEF ListRefused
<1>11. ASSUME NEW k \in Repo, MirrorOne(k) PROVE Goal
  <2>1. /\ UNCHANGED <<now, life, born, tip, named, readable, gained, sweep, shrunk, listed, served,
                       target, published>>
        /\ left' = left \ {k} /\ sweep = "fetching"
    BY <1>11 DEF MirrorOne, Fetching
  <2>2. CASE life[k] = "made" /\ k \in readable
    <3>1. (failed' <=> failed) /\ held' = [held EXCEPT ![k] = tip[k]]
      BY <1>11, <2>2 DEF MirrorOne
    <3>2. \A j \in Repo : /\ held[j] <= held'[j]
                          /\ held'[j] <= tip[j]
                          /\ j = k => held'[j] = tip[j]
      <4>1. \A j \in Repo : held[j] <= tip[j] /\ held[j] \in Int /\ tip[j] \in Int
        OBVIOUS
      <4>2. \A j \in Repo : held'[j] = IF j = k THEN tip[j] ELSE held[j]
        BY <3>1
      <4> HIDE DEF TypeOK, MirrorInv, SweepInv, TargetCovered, InventoryComplete
      <4> QED BY <4>1, <4>2
    <3>3. sweep' = "fetching" /\ ~failed' =>
            \A j \in listed' \ left' : \A t \in Targets :
              t < served' => named'[j][t] <= held'[j]
      <4> SUFFICES ASSUME ~failed, NEW j \in listed \ (left \ {k}), NEW t \in Targets, t < served
                   PROVE  named[j][t] <= held'[j]
        BY <2>1, <3>1
      <4>1. CASE j = k
        BY <4>1, <3>2
      <4>2. CASE j # k
        <5>1. named[j][t] <= held[j]
          BY <4>2, <2>1
        <5>2. j \in Repo /\ named[j][t] \in Int /\ held[j] \in Int /\ tip[j] \in Int
          <6>1. j \in Repo
            OBVIOUS
          <6> HIDE DEF TypeOK, MirrorInv, SweepInv, TargetCovered, InventoryComplete
          <6> QED BY <6>1, Numbers
        <5>3. held[j] <= held'[j] /\ held'[j] \in Int
          BY <5>2, <3>2
        <5> HIDE DEF TypeOK, MirrorInv, SweepInv, TargetCovered, InventoryComplete
        <5> QED BY <5>1, <5>2, <5>3
      <4> QED BY <4>1, <4>2
    <3>4. TargetCovered'
      BY <2>1, <3>2
    <3>5. InventoryComplete'
      BY <2>1
    <3>6. SweepInv'
      BY <2>1, <3>2, <3>3
    <3> QED BY <3>4, <3>5, <3>6
  <2>3. CASE ~(life[k] = "made" /\ k \in readable)
    BY <1>11, <2>1, <2>3 DEF MirrorOne
  <2> QED BY <2>2, <2>3
<1>12. ASSUME NEW k \in Repo, MirrorFails(k) PROVE Goal BY <1>12 DEF MirrorFails, Fetching
<1>13. CASE Publish BY <1>13 DEF Publish
<1>14. CASE Hold BY <1>14 DEF Hold
<1>15. CASE Interrupt BY <1>15 DEF Interrupt
<1>16. CASE UNCHANGED vars BY <1>16 DEF vars
<1> QED BY <1>1, <1>2, <1>3, <1>4, <1>5, <1>6, <1>7, <1>8, <1>9, <1>10, <1>11,
           <1>12, <1>13, <1>14, <1>15, <1>16 DEF Next, Server, Sweep

\* The invariant of the mirror.
THEOREM MirrorCorrect == Spec => []MirrorInv
<1>1. MirrorInv /\ [Next]_vars => MirrorInv'
  BY MirrorTypes, MirrorSteps DEF MirrorInv
<1> QED BY <1>1, MirrorInit, PTL DEF Spec

\* A database restored to the target names no commit of a default branch that
\* the mirror does not hold (gitclub-mirror-sweep:5-9).
THEOREM RecoveryIsSound == Spec => []TargetCovered
<1>1. MirrorInv => TargetCovered
  BY DEF MirrorInv
<1> QED BY <1>1, MirrorCorrect, PTL

\* A database restored to the target has no repository that was never fetched.
THEOREM RecoveryIsComplete == Spec => []InventoryComplete
<1>1. MirrorInv => InventoryComplete
  BY DEF MirrorInv
<1> QED BY <1>1, MirrorCorrect, PTL


-----------------------------------------------------------------------------
\* While repositories are fetched the listing is no shorter than the published
\* state, unless that was accepted.
CountInv ==
  /\ shrunk \in BOOLEAN /\ listed \subseteq Repo /\ published \subseteq Repo
  /\ sweep = "fetching" /\ ~shrunk => Cardinality(listed) >= Cardinality(published)

LEMMA CountInit == Init => CountInv
<1>1. Init => shrunk \in BOOLEAN
  BY Zenon DEF Init
<1>2. Init => listed \subseteq Repo /\ published \subseteq Repo /\ sweep # "fetching"
  BY DEF Init
<1> QED BY <1>1, <1>2 DEF CountInv

LEMMA CountStep == ASSUME CountInv, [Next]_vars PROVE CountInv'
<1> USE DEF CountInv, serverVars, sweepVars, stateVars
<1>1. ASSUME SweepEnds, published' \subseteq Repo PROVE CountInv'
  <2>1. shrunk' \in BOOLEAN
    BY <1>1, Zenon DEF SweepEnds
  <2> QED BY <1>1, <2>1 DEF SweepEnds
<1>2. CASE Server
  BY <1>2 DEF Server, Tick, InsertRow, InitDir, CreateFails, Push, Name, LoseAccess, GainAccess
<1>3. CASE ListRepos
  BY <1>3 DEF ListRepos, Rows
<1>4. ASSUME NEW a \in BOOLEAN, ListServed(a) PROVE CountInv'
  <2>1. Cardinality(listed) \in Nat /\ Cardinality(published) \in Nat
    BY RepoAssumption, FS_Subset, FS_CardinalityType
  <2> QED BY <1>4, <2>1 DEF ListServed, Shrunk
<1>5. CASE ListRefused \/ Publish \/ Hold \/ Interrupt
  BY <1>1, <1>5 DEF ListRefused, Publish, Hold, Interrupt
<1>6. CASE \E k \in Repo : MirrorOne(k) \/ MirrorFails(k)
  BY <1>6 DEF MirrorOne, MirrorFails
<1>7. CASE UNCHANGED vars
  BY <1>7 DEF vars
<1> QED BY <1>2, <1>3, <1>4, <1>5, <1>6, <1>7 DEF Next, Sweep

LEMMA LossStep ==
  ASSUME CountInv, [Next]_vars
  PROVE  [published \subseteq published' \/ published' \ published # {} \/ shrunk]_vars
<1> USE DEF CountInv, serverVars, sweepVars, stateVars
<1>1. CASE Publish
  <2> SUFFICES ASSUME listed \subseteq published, ~shrunk PROVE published \subseteq listed
    BY <1>1 DEF Publish
  <2>1. Cardinality(listed) >= Cardinality(published)
    BY <1>1 DEF Publish, Fetching
  <2>2. IsFiniteSet(published) /\ Cardinality(published) \in Nat
    BY RepoAssumption, FS_Subset, FS_CardinalityType
  <2>3. Cardinality(listed) \in Nat /\ Cardinality(listed) <= Cardinality(published)
        /\ (Cardinality(listed) = Cardinality(published) => listed = published)
    BY <2>2, FS_Subset, FS_CardinalityType
  <2> QED BY <2>1, <2>2, <2>3
<1>2. CASE UNCHANGED vars
  BY <1>2 DEF vars
<1>3. CASE Next /\ ~Publish
  BY <1>3 DEF Next, Server, Sweep, Tick, InsertRow, InitDir, CreateFails, Push, Name,
              LoseAccess, GainAccess, ListRepos, ListServed, ListRefused, MirrorOne, MirrorFails,
              Hold, Interrupt
<1> QED BY <1>1, <1>2, <1>3

\* A repository that leaves the published state unnoticed has a newcomer in its
\* place, however many repositories there are (gitclub-mirror-sweep:170-180).
THEOREM LossIsNoticed == Spec => LossNeedsNewcomer
<1>1. CountInv /\ [Next]_vars => CountInv'
  BY CountStep
<1>2. CountInv /\ [Next]_vars
      => [published \subseteq published' \/ published' \ published # {} \/ shrunk]_vars
  BY LossStep
<1> QED BY <1>1, <1>2, CountInit, PTL DEF Spec, LossNeedsNewcomer
=============================================================================
