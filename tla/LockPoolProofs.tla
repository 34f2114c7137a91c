--------------------------- MODULE LockPoolProofs ---------------------------
(***************************************************************************)
(* The pool cannot be exhausted by requests that all wait for it, as long  *)
(* as it has more connections than there are repositories to lock.         *)
(***************************************************************************)
EXTENDS LockPool, FiniteSetTheorems, TLAPS

-----------------------------------------------------------------------------
LEMMA PoolInit == Init => PoolInv
<1>1. ASSUME Init PROVE TypeOK
  BY <1>1, StepsAssumption DEF Init, TypeOK, Step
<1>2. ASSUME Init PROVE Connections /\ Ownership
  BY <1>2 DEF Init, Connections, Ownership, Querying, Sessions, Holding
<1>3. ASSUME Init PROVE Slots
  BY <1>3, FS_EmptySet, SlotAssumption DEF Init, Slots, Commands, Transfers
<1> QED BY <1>1, <1>2, <1>3 DEF PoolInv

LEMMA PoolTypes == ASSUME TypeOK, [Next]_vars PROVE TypeOK'
<1> USE StepsAssumption DEF TypeOK, Goto, End, Spend, Step, lockVars, slotVars
<1>1. ASSUME NEW r \in Request, Query(r) PROVE TypeOK'
  BY <1>1 DEF Query, Arrive, Grant, Answered, AskAgain, Leave, Asked, Asking, Resumed, Querying
<1>2. ASSUME NEW r \in Request, Lock(r) PROVE TypeOK'
  BY <1>2 DEF Lock, WantLock, Connect, TryLock, TryLockAgain, Acquire, GiveUp, Unlock, UnlockFails
<1>3. ASSUME NEW r \in Request, Process(r) PROVE TypeOK'
  BY <1>3 DEF Process, RunGit, GitDone, Hook, HookRuns, HookTimesOut, StartTransfer, EndTransfer
<1>4. CASE UNCHANGED vars
  BY <1>4 DEF vars
<1>5. CASE \E k \in Repo : Expire(k)
  BY <1>5 DEF Expire
<1> QED BY <1>1, <1>2, <1>3, <1>4, <1>5 DEF Next

LEMMA PoolConnections ==
  ASSUME TypeOK, Connections, [Next]_vars PROVE Connections'
<1> USE DEF Connections, Goto, End, Spend, Step, Asked, Resumed, Asking, Querying, Sessions, Holding, Commands, TypeOK, lockVars, slotVars
<1>1. ASSUME NEW r \in Request, Query(r) PROVE Connections'
  <2>1. CASE Arrive(r) BY <2>1 DEF Arrive
  <2>2. CASE Grant(r) BY <2>2 DEF Grant
  <2>3. CASE Answered(r) BY <2>3 DEF Answered
  <2>4. CASE AskAgain(r) BY <2>4 DEF AskAgain
  <2>5. CASE Leave(r) BY <2>5 DEF Leave
  <2> QED BY <1>1, <2>1, <2>2, <2>3, <2>4, <2>5 DEF Query
<1>2. ASSUME NEW r \in Request, Lock(r) PROVE Connections'
  <2>1. CASE \E k \in Repo : WantLock(r, k) BY <2>1 DEF WantLock
  <2>2. CASE Connect(r) BY <2>2 DEF Connect
  <2>3. CASE TryLock(r) BY <2>3 DEF TryLock, Acquire
  <2>4. CASE TryLockAgain(r) BY <2>4 DEF TryLockAgain, Acquire
  <2>5. CASE GiveUp(r) BY <2>5 DEF GiveUp
  <2>6. CASE Unlock(r) BY <2>6 DEF Unlock
  <2>7. CASE UnlockFails(r) BY <2>7 DEF UnlockFails
  <2> QED BY <1>2, <2>1, <2>2, <2>3, <2>4, <2>5, <2>6, <2>7 DEF Lock
<1>3. ASSUME NEW r \in Request, Process(r) PROVE Connections'
  <2>1. CASE RunGit(r) BY <2>1 DEF RunGit
  <2>2. CASE GitDone(r) BY <2>2 DEF GitDone
  <2>3. CASE Hook(r) BY <2>3 DEF Hook
  <2>4. CASE HookRuns(r) BY <2>4 DEF HookRuns
  <2>5. CASE HookTimesOut(r) BY <2>5 DEF HookTimesOut
  <2>6. CASE StartTransfer(r) BY <2>6 DEF StartTransfer
  <2>7. CASE EndTransfer(r) BY <2>7 DEF EndTransfer
  <2> QED BY <1>3, <2>1, <2>2, <2>3, <2>4, <2>5, <2>6, <2>7 DEF Process
<1>4. CASE UNCHANGED vars
  BY <1>4 DEF vars, slotVars, lockVars
<1>5. CASE \E k \in Repo : Expire(k)
  BY <1>5 DEF Expire, slotVars, lockVars
<1> QED BY <1>1, <1>2, <1>3, <1>4, <1>5 DEF Next

\* Taking a slot that is free, and giving one back, keeps the count within its
\* limit.
LEMMA SlotTaken ==
  ASSUME NEW S \in SUBSET Request, NEW r \in Request, NEW n \in Nat, Cardinality(S) < n
  PROVE  Cardinality(S \cup {r}) <= n
<1>1. IsFiniteSet(S) /\ Cardinality(S) \in Nat
  BY FiniteAssumption, FS_Subset, FS_CardinalityType
<1>2. CASE r \in S
  <2>1. S \cup {r} = S
    BY <1>2
  <2> QED BY <1>1, <2>1
<1>3. CASE r \notin S
  <2>1. Cardinality(S \cup {r}) = Cardinality(S) + 1
    BY <1>1, <1>3, FS_AddElement
  <2> QED BY <1>1, <2>1
<1> QED BY <1>2, <1>3

LEMMA SlotReturned ==
  ASSUME NEW S \in SUBSET Request, NEW r \in Request, NEW n \in Nat, Cardinality(S) <= n
  PROVE  Cardinality(S \ {r}) <= n
<1>1. IsFiniteSet(S) /\ Cardinality(S) \in Nat
  BY FiniteAssumption, FS_Subset, FS_CardinalityType
<1> QED BY <1>1, FS_RemoveElement

LEMMA PoolSlots ==
  ASSUME TypeOK, Slots, [Next]_vars PROVE Slots'
<1> USE DEF Slots, Goto, End, Spend, Step, Asked, Resumed, Asking, Querying, Sessions, Holding, Commands, Transfers, TypeOK, lockVars, slotVars, SlotFree, TransferFree
<1>1. ASSUME NEW r \in Request, Query(r) PROVE Slots'
  <2>1. CASE Arrive(r) BY <2>1 DEF Arrive
  <2>2. CASE Grant(r) BY <2>2 DEF Grant
  <2>3. CASE Answered(r) BY <2>3 DEF Answered
  <2>4. CASE AskAgain(r) BY <2>4 DEF AskAgain
  <2>5. CASE Leave(r) BY <2>5 DEF Leave
  <2> QED BY <1>1, <2>1, <2>2, <2>3, <2>4, <2>5 DEF Query
<1>2. ASSUME NEW r \in Request, Lock(r) PROVE Slots'
  <2>1. CASE \E k \in Repo : WantLock(r, k) BY <2>1 DEF WantLock
  <2>2. CASE Connect(r) BY <2>2 DEF Connect
  <2>3. CASE TryLock(r) BY <2>3 DEF TryLock, Acquire
  <2>4. CASE TryLockAgain(r) BY <2>4 DEF TryLockAgain, Acquire
  <2>5. CASE GiveUp(r) BY <2>5 DEF GiveUp
  <2>6. CASE Unlock(r) BY <2>6 DEF Unlock
  <2>7. CASE UnlockFails(r) BY <2>7 DEF UnlockFails
  <2> QED BY <1>2, <2>1, <2>2, <2>3, <2>4, <2>5, <2>6, <2>7 DEF Lock
<1>3. ASSUME NEW r \in Request, Process(r) PROVE Slots'
  <2>1. CASE RunGit(r) BY <2>1, SlotTaken, SlotAssumption DEF RunGit
  <2>2. CASE GitDone(r) BY <2>2, SlotReturned, SlotAssumption DEF GitDone
  <2>3. CASE Hook(r) BY <2>3 DEF Hook
  <2>4. CASE HookRuns(r) BY <2>4, SlotTaken, SlotAssumption DEF HookRuns
  <2>5. CASE HookTimesOut(r) BY <2>5 DEF HookTimesOut
  <2>6. CASE StartTransfer(r) BY <2>6, SlotTaken, SlotAssumption DEF StartTransfer
  <2>7. CASE EndTransfer(r) BY <2>7, SlotReturned, SlotAssumption DEF EndTransfer
  <2> QED BY <1>3, <2>1, <2>2, <2>3, <2>4, <2>5, <2>6, <2>7 DEF Process
<1>4. CASE UNCHANGED vars
  BY <1>4 DEF vars, slotVars, lockVars
<1>5. CASE \E k \in Repo : Expire(k)
  BY <1>5 DEF Expire, slotVars, lockVars
<1> QED BY <1>1, <1>2, <1>3, <1>4, <1>5 DEF Next

LEMMA PoolOwnership ==
  ASSUME TypeOK, Ownership, [Next]_vars PROVE Ownership'
<1> USE DEF Ownership, Goto, End, Spend, Step, Asked, Resumed, Asking, Querying, Sessions, Holding, Commands, Transfers, TypeOK, lockVars, slotVars
<1>1. ASSUME NEW r \in Request, Query(r) PROVE Ownership'
  <2>1. CASE Arrive(r) BY <2>1 DEF Arrive
  <2>2. CASE Grant(r) BY <2>2 DEF Grant
  <2>3. CASE Answered(r) BY <2>3 DEF Answered
  <2>4. CASE AskAgain(r) BY <2>4 DEF AskAgain
  <2>5. CASE Leave(r) BY <2>5 DEF Leave
  <2> QED BY <1>1, <2>1, <2>2, <2>3, <2>4, <2>5 DEF Query
<1>2. ASSUME NEW r \in Request, Lock(r) PROVE Ownership'
  <2>1. CASE \E k \in Repo : WantLock(r, k) BY <2>1 DEF WantLock
  <2>2. CASE Connect(r) BY <2>2 DEF Connect
  <2>3. CASE TryLock(r) BY <2>3, NobodyAssumption DEF TryLock, Acquire
  <2>4. CASE TryLockAgain(r) BY <2>4, NobodyAssumption DEF TryLockAgain, Acquire
  <2>5. CASE GiveUp(r) BY <2>5 DEF GiveUp
  <2>6. CASE Unlock(r) BY <2>6 DEF Unlock
  <2>7. CASE UnlockFails(r) BY <2>7 DEF UnlockFails
  <2> QED BY <1>2, <2>1, <2>2, <2>3, <2>4, <2>5, <2>6, <2>7 DEF Lock
<1>3. ASSUME NEW r \in Request, Process(r) PROVE Ownership'
  <2>1. CASE RunGit(r) BY <2>1 DEF RunGit
  <2>2. CASE GitDone(r) BY <2>2 DEF GitDone
  <2>3. CASE Hook(r) BY <2>3 DEF Hook
  <2>4. CASE HookRuns(r) BY <2>4 DEF HookRuns
  <2>5. CASE HookTimesOut(r) BY <2>5 DEF HookTimesOut
  <2>6. CASE StartTransfer(r) BY <2>6 DEF StartTransfer
  <2>7. CASE EndTransfer(r) BY <2>7 DEF EndTransfer
  <2> QED BY <1>3, <2>1, <2>2, <2>3, <2>4, <2>5, <2>6, <2>7 DEF Process
<1>4. CASE UNCHANGED vars
  BY <1>4 DEF vars, slotVars, lockVars
<1>5. CASE \E k \in Repo : Expire(k)
  BY <1>5 DEF Expire, slotVars, lockVars
<1> QED BY <1>1, <1>2, <1>3, <1>4, <1>5 DEF Next

\* The invariant, for every pool, repository and request.
THEOREM PoolCorrect == Spec => []PoolInv
<1>1. PoolInv /\ [Next]_vars => PoolInv'
  BY PoolTypes, PoolConnections, PoolSlots, PoolOwnership DEF PoolInv
<1> QED BY <1>1, PoolInit, PTL DEF Spec

-----------------------------------------------------------------------------
\* Requests that own locks own different ones.
LEMMA HoldersAreFew ==
  ASSUME PoolInv, NEW S \in SUBSET Request, \A r \in S : pc[r] \in Holding
  PROVE  IsFiniteSet(S) /\ Cardinality(S) <= Cardinality(Locked)
<1> DEFINE f == [r \in S |-> target[r]]
<1>1. f \in [S -> Locked]
  BY NobodyAssumption DEF PoolInv, TypeOK, Ownership, Locked
<1>2. ASSUME NEW r \in S, NEW q \in S, f[r] = f[q] PROVE r = q
  BY <1>2 DEF PoolInv, Ownership
<1>3. f \in Injection(S, Locked)
  BY <1>1, <1>2 DEF Injection, IsInjective
<1>4. IsFiniteSet(Locked)
  BY FiniteAssumption, FS_Subset DEF Locked
<1> QED BY <1>3, <1>4, FS_Injection

LEMMA FullPoolDrains == ASSUME PoolInv PROVE PoolDrains
<1> SUFFICES ASSUME ~Free, Cardinality(Locked) < PoolSize,
                    \A r \in Request : pc[r] \notin Querying \cup {"wait", "hold", "gitLocked"}
             PROVE  FALSE
  BY DEF PoolDrains
<1>1. busy = {}
  BY DEF PoolInv, Connections
<1>2. session \in SUBSET Request /\ \A r \in session : pc[r] \in Holding
  BY DEF PoolInv, Connections, Sessions
<1>3. IsFiniteSet(session) /\ Cardinality(session) <= Cardinality(Locked)
  BY <1>2, HoldersAreFew
<1>4. Cardinality(session) \in Nat /\ Cardinality(Locked) \in Nat
  <2>1. IsFiniteSet(Locked)
    BY FiniteAssumption, FS_Subset DEF Locked
  <2> QED BY <1>3, <2>1, FS_CardinalityType
<1>5. Cardinality(busy) = 0
  BY <1>1, FS_EmptySet
<1> QED BY <1>3, <1>4, <1>5, PoolAssumption DEF Free, InUse

\* With more connections than repositories that are locked, the pool is never
\* exhausted by requests that all wait for one another, whatever the number of
\* requests (db.go:59-61).  The condition is needed: as many lock holders as
\* connections may each wait for one connection more.
THEOREM PoolNeverStuck == Spec => []PoolDrains
<1>1. PoolInv => PoolDrains
  BY FullPoolDrains
<1> QED BY <1>1, PoolCorrect, PTL

-----------------------------------------------------------------------------
LEMMA FullSlotsDrain == ASSUME PoolInv PROVE SlotsDrain
<1> SUFFICES ASSUME \A r \in Request : pc[r] \notin Commands PROVE SlotFree
  BY DEF SlotsDrain
<1>1. gitSlots = transferSlots
  BY DEF PoolInv, Slots
<1>2. IsFiniteSet(gitSlots) /\ Cardinality(gitSlots) \in Nat
  BY FiniteAssumption, FS_Subset, FS_CardinalityType DEF PoolInv, TypeOK
<1> QED BY <1>1, <1>2, SlotAssumption DEF PoolInv, Slots, SlotFree

\* Transfers never fill the process slots (git.go:508-519): when a hook waits
\* for one, a slot comes back within the thirty seconds of a git command.
THEOREM SlotsNeverStuck == Spec => []SlotsDrain
<1>1. PoolInv => SlotsDrain
  BY FullSlotsDrain
<1> QED BY <1>1, PoolCorrect, PTL
=============================================================================
