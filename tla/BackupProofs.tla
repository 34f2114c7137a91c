---------------------------- MODULE BackupProofs ----------------------------
(***************************************************************************)
(* A backup reads a directory at rest, and a restore that succeeds names   *)
(* no object that is missing, for any number of transfers and locks.       *)
(***************************************************************************)
EXTENDS Backup, TLAPS

-----------------------------------------------------------------------------
USE DEF Index, Step, Snapshot

LEMMA BackupInit == Init => BackupInv
<1> SUFFICES ASSUME Init PROVE BackupInv
  OBVIOUS
<1> USE SlotsAssumption, HolderAssumption DEF Init, Empty
<1>1. TypeOK
  BY DEF TypeOK
<1>2. LockInv
  BY DEF LockInv, Alive
<1>3. DataInv
  BY DEF DataInv
<1> QED BY <1>1, <1>2, <1>3 DEF BackupInv

LEMMA BackupTypes == ASSUME TypeOK, [Next]_vars PROVE TypeOK'
<1> USE SlotsAssumption
        DEF TypeOK, Empty, Goto, Alive, Release, dataVars, xferVars, backupVars
<1>1. CASE Serve
  BY <1>1 DEF Serve, StartServer, StopServer, KillSupervisor, Record
<1>2. ASSUME NEW x \in Transfer, Move(x) PROVE TypeOK'
  <2>1. CASE Authorize(x) BY <2>1 DEF Authorize
  <2>2. CASE StartSSH(x) BY <2>2 DEF StartSSH
  <2>3. CASE RefuseSSH(x) BY <2>3 DEF RefuseSSH
  <2>4. CASE StartHTTP(x) BY <2>4 DEF StartHTTP
  <2>5. CASE Admit(x) BY <2>5 DEF Admit
  <2>6. CASE Store(x) BY <2>6 DEF Store
  <2>7. CASE Land(x) BY <2>7 DEF Land
  <2>8. CASE Finish(x) BY <2>8 DEF Finish
  <2>9. CASE KillAdapter(x) BY <2>9 DEF KillAdapter
  <2> QED BY <1>2, <2>1, <2>2, <2>3, <2>4, <2>5, <2>6, <2>7, <2>8, <2>9 DEF Move
<1>3. CASE BackupStart BY <1>3 DEF BackupStart
<1>4. CASE BackupLock BY <1>4 DEF BackupLock
<1>5. CASE BackupDump BY <1>5 DEF BackupDump
<1>6. CASE CopyObjects BY <1>6 DEF CopyObjects
<1>7. CASE CopyRefs BY <1>7 DEF CopyRefs
<1>8. CASE BackupArchive BY <1>8 DEF BackupArchive
<1>9. CASE BackupRefused \/ BackupFails BY <1>9 DEF BackupRefused, BackupFails, GiveUp
<1>10. CASE Restore BY <1>10 DEF Restore
<1>11. CASE UNCHANGED vars BY <1>11 DEF vars
<1> QED BY <1>1, <1>2, <1>3, <1>4, <1>5, <1>6, <1>7, <1>8, <1>9, <1>10, <1>11
        DEF Next, Advance

LEMMA BackupLocks == ASSUME TypeOK, LockInv, [Next]_vars PROVE LockInv'
<1> USE SlotsAssumption, HolderAssumption
        DEF TypeOK, LockInv, Goto, Alive, Release, dataVars, xferVars, backupVars
<1>1. CASE StartServer BY <1>1 DEF StartServer
<1>2. CASE StopServer BY <1>2 DEF StopServer
<1>3. CASE KillSupervisor BY <1>3 DEF KillSupervisor
<1>4. CASE \E x \in Transfer : Record(x) BY <1>4 DEF Record
<1>5. ASSUME NEW x \in Transfer, Move(x) PROVE LockInv'
  <2>1. CASE Authorize(x) BY <2>1 DEF Authorize
  <2>2. CASE StartSSH(x)
    <3>1. PICK i \in Index : slot[i] = Nobody /\ slot' = [slot EXCEPT ![i] = x]
      BY <2>2 DEF StartSSH
    <3>2. /\ pc[x] = "token" /\ via[x] = "ssh" /\ pc' = [pc EXCEPT ![x] = "running"]
          /\ UNCHANGED <<server, lock, via, orphans, dataVars, backupVars>>
      BY <2>2 DEF StartSSH
    <3>3. \A j \in Index : slot'[j] = IF j = i THEN x ELSE slot[j]
      BY <3>1
    <3>4. \A y \in Transfer : pc'[y] = IF y = x THEN "running" ELSE pc[y]
      BY <3>2
    <3>5. \A j \in Index : slot'[j] = Helper <=> (lock' = "backup" /\ j < next')
      BY <3>1, <3>2, <3>3
    <3>6. x \notin orphans
      BY <3>2
    <3>7. \A j \in Index : slot'[j] \in Transfer =>
            via'[slot'[j]] = "ssh" /\ pc'[slot'[j]] \in Alive /\ slot'[j] \notin orphans'
      BY <3>2, <3>3, <3>4, <3>6
    <3>8. \A y \in Transfer \ orphans' : pc'[y] \in Alive =>
            IF via'[y] = "ssh" THEN \E j \in Index : slot'[j] = y ELSE server' = "up"
      BY <3>1, <3>2, <3>3, <3>4
    <3> QED BY <3>2, <3>4, <3>5, <3>7, <3>8
  <2>3. CASE RefuseSSH(x) BY <2>3 DEF RefuseSSH
  <2>4. CASE StartHTTP(x) BY <2>4 DEF StartHTTP
  <2>5. CASE Admit(x) BY <2>5 DEF Admit
  <2>6. CASE Store(x) BY <2>6 DEF Store
  <2>7. CASE Land(x) BY <2>7 DEF Land
  <2>8. CASE Finish(x) BY <2>8 DEF Finish
  <2>9. CASE KillAdapter(x) BY <2>9 DEF KillAdapter
  <2> QED BY <1>5, <2>1, <2>2, <2>3, <2>4, <2>5, <2>6, <2>7, <2>8, <2>9 DEF Move
<1>6. CASE BackupStart BY <1>6 DEF BackupStart
<1>7. CASE BackupLock BY <1>7 DEF BackupLock
<1>8. CASE BackupDump BY <1>8 DEF BackupDump, Quiet
<1>9. CASE CopyObjects BY <1>9 DEF CopyObjects
<1>10. CASE CopyRefs BY <1>10 DEF CopyRefs
<1>11. CASE BackupArchive BY <1>11 DEF BackupArchive
<1>12. CASE BackupRefused \/ BackupFails
  <2>1. /\ backup' = "idle" /\ lock' = "nobody" /\ lock = "backup"
        /\ UNCHANGED <<server, via, pc, orphans>>
    BY <1>12 DEF BackupRefused, BackupFails, Busy, GiveUp
  <2>2. \A i \in Index : slot'[i] = IF slot[i] = Helper THEN Nobody ELSE slot[i]
    BY <1>12 DEF BackupRefused, BackupFails, GiveUp
  <2>3. /\ \A i \in Index : slot'[i] # Helper
        /\ \A i \in Index : slot'[i] \in Transfer => slot'[i] = slot[i]
        /\ \A i \in Index : slot[i] \in Transfer => slot'[i] = slot[i]
    BY <2>2
  <2> QED BY <2>1, <2>3
<1>13. CASE Restore BY <1>13 DEF Restore
<1>14. CASE UNCHANGED vars BY <1>14 DEF vars
<1> QED BY <1>1, <1>2, <1>3, <1>4, <1>5, <1>6, <1>7, <1>8, <1>9, <1>10, <1>11, <1>12,
           <1>13, <1>14 DEF Next, Serve, Advance

LEMMA BackupData == ASSUME TypeOK, DataInv, [Next]_vars PROVE DataInv'
<1> USE DEF TypeOK, DataInv, Empty, Goto, Release, dataVars, xferVars, backupVars
<1>1. CASE Serve
  BY <1>1 DEF Serve, StartServer, StopServer, KillSupervisor, Record
<1>2. ASSUME NEW x \in Transfer, Move(x) PROVE DataInv'
  <2>1. CASE Authorize(x) BY <2>1 DEF Authorize
  <2>2. CASE StartSSH(x) BY <2>2 DEF StartSSH
  <2>3. CASE RefuseSSH(x) BY <2>3 DEF RefuseSSH
  <2>4. CASE StartHTTP(x) BY <2>4 DEF StartHTTP
  <2>5. CASE Admit(x) BY <2>5 DEF Admit
  <2>6. CASE Store(x) BY <2>6 DEF Store
  <2>7. CASE Land(x) BY <2>7 DEF Land
  <2>8. CASE Finish(x) BY <2>8 DEF Finish
  <2>9. CASE KillAdapter(x) BY <2>9 DEF KillAdapter
  <2> QED BY <1>2, <2>1, <2>2, <2>3, <2>4, <2>5, <2>6, <2>7, <2>8, <2>9 DEF Move
<1>3. CASE BackupStart BY <1>3 DEF BackupStart
<1>4. CASE BackupLock BY <1>4 DEF BackupLock
<1>5. CASE BackupDump BY <1>5 DEF BackupDump
<1>6. CASE CopyObjects BY <1>6 DEF CopyObjects
<1>7. CASE CopyRefs BY <1>7 DEF CopyRefs
<1>8. CASE BackupArchive BY <1>8 DEF BackupArchive
<1>9. CASE BackupRefused \/ BackupFails BY <1>9 DEF BackupRefused, BackupFails, Busy, GiveUp
<1>10. CASE Restore BY <1>10 DEF Restore
<1>11. CASE UNCHANGED vars BY <1>11 DEF vars
<1> QED BY <1>1, <1>2, <1>3, <1>4, <1>5, <1>6, <1>7, <1>8, <1>9, <1>10, <1>11
        DEF Next, Advance

\* The invariant, for every number of transfers and file locks.
THEOREM BackupCorrect == Spec => []BackupInv
<1>1. BackupInv /\ [Next]_vars => BackupInv'
  BY BackupTypes, BackupLocks, BackupData DEF BackupInv
<1> QED BY <1>1, BackupInit, PTL DEF Spec

\* A restore that succeeds is sound, whatever ran during the backup
\* (scripts/gitclub:124-200).
THEOREM RestoreCorrect == Spec => []RestoreIsSound
<1>1. BackupInv => RestoreIsSound
  BY DEF BackupInv, DataInv, RestoreIsSound
<1> QED BY <1>1, BackupCorrect, PTL

\* With all file locks in the backup's hands and no process astray, no git
\* process is alive and no server runs.
LEMMA AllQuiet ==
  ASSUME BackupInv, backup = "copying", ~Stray
  PROVE  server = "down" /\ \A x \in Transfer : pc[x] \notin Alive
<1> USE SlotsAssumption, HolderAssumption DEF BackupInv, TypeOK, LockInv, Stray
<1>1. lock = "backup" /\ server = "down"
  OBVIOUS
<1>2. \A i \in Index : slot[i] = Helper
  BY <1>1
<1>3. ASSUME NEW x \in Transfer, pc[x] \in Alive PROVE FALSE
  <2>1. CASE via[x] = "ssh" BY <1>2, <1>3, <2>1
  <2>2. CASE via[x] # "ssh" BY <1>1, <1>3, <2>2
  <2> QED BY <2>1, <2>2
<1> QED BY <1>1, <1>3

\* Nothing changes what a backup reads (scripts/gitclub:98-114).
LEMMA CopyIsQuiet ==
  ASSUME BackupInv, [Next]_vars, backup = "copying", ~Stray PROVE UNCHANGED dataVars
<1>1. server = "down" /\ \A x \in Transfer : pc[x] \notin Alive
  BY AllQuiet
<1>2. CASE Serve
  BY <1>1, <1>2 DEF Serve, StartServer, StopServer, KillSupervisor, Record, dataVars
<1>3. ASSUME NEW x \in Transfer, Move(x) PROVE UNCHANGED dataVars
  BY <1>1, <1>3 DEF Move, Authorize, StartSSH, RefuseSSH, StartHTTP, Admit, Store, Land,
                    Finish, KillAdapter, Alive, dataVars
<1>4. CASE Advance
  BY <1>4 DEF Advance, BackupStart, BackupLock, BackupDump, CopyObjects, CopyRefs,
              BackupArchive, dataVars
<1>5. CASE BackupRefused \/ BackupFails \/ Restore
  BY <1>5 DEF BackupRefused, BackupFails, GiveUp, Restore, dataVars
<1>6. CASE UNCHANGED vars
  BY <1>6 DEF vars, dataVars
<1> QED BY <1>2, <1>3, <1>4, <1>5, <1>6 DEF Next

\* Nor does anything lose its parent: the server and every git process are gone,
\* and neither can start.
LEMMA NothingGoesAstray ==
  ASSUME BackupInv, [Next]_vars, backup = "copying", ~Stray, backup' = "copying"
  PROVE  ~Stray'
<1> USE DEF xferVars, backupVars, dataVars, Stray
<1>1. server = "down" /\ (\A x \in Transfer : pc[x] \notin Alive) /\ orphans = {}
  BY AllQuiet
<1>2. lock = "backup"
  BY DEF BackupInv, LockInv
<1>3. CASE Serve
  BY <1>1, <1>2, <1>3 DEF Serve, StartServer, StopServer, KillSupervisor, Record
<1>4. ASSUME NEW x \in Transfer, Move(x) PROVE ~Stray'
  BY <1>1, <1>4 DEF Move, Authorize, StartSSH, RefuseSSH, StartHTTP, Admit, Store, Land,
                    Finish, KillAdapter
<1>5. CASE Advance
  BY <1>1, <1>5 DEF Advance, BackupStart, BackupLock, BackupDump, CopyObjects, CopyRefs,
                    BackupArchive, Release
<1>6. CASE BackupRefused \/ BackupFails \/ Restore
  BY <1>1, <1>6 DEF BackupRefused, BackupFails, GiveUp, Restore
<1>7. CASE UNCHANGED vars
  BY <1>1, <1>7 DEF vars
<1> QED BY <1>3, <1>4, <1>5, <1>6, <1>7 DEF Next

\* What moves the backup itself: it goes on, is over, or has been given up.
LEMMA CopyGoesOn ==
  ASSUME BackupInv, [Next]_vars, backup = "copying"
  PROVE  \/ backup' = "idle"
         \/ CopyObjects \/ CopyRefs \/ BackupArchive
         \/ UNCHANGED backupVars
<1>1. CASE Serve
  BY <1>1 DEF Serve, StartServer, StopServer, KillSupervisor, Record
<1>2. ASSUME NEW x \in Transfer, Move(x) PROVE UNCHANGED backupVars
  BY <1>2 DEF Move, Authorize, StartSSH, RefuseSSH, StartHTTP, Admit, Store, Land,
              Finish, KillAdapter
<1>3. CASE Advance
  BY <1>3 DEF Advance, BackupStart, BackupLock, BackupDump
<1>4. CASE BackupRefused \/ BackupFails \/ Restore
  BY <1>4 DEF BackupRefused, BackupFails, GiveUp, Restore
<1>5. CASE UNCHANGED vars
  BY <1>5 DEF vars
<1> QED BY <1>1, <1>2, <1>3, <1>4, <1>5 DEF Next

\* A backup that dumps while nothing is astray archives one moment, for any
\* number of transfers and file locks (scripts/gitclub:98-156).
THEOREM ArchiveCorrect == Spec => ArchiveIsOneMoment
<1> DEFINE
      Moment == ~Stray /\ (BackupDump \/ (backup = "copying" /\ Faithful)) =>
        \/ backup' = "idle"
        \/ backup' = "copying" /\ ~Stray' /\ Faithful'
        \/ /\ backup' = "done" /\ archive'.refs \subseteq archive'.objects
           /\ archive' = [rows |-> rows, objects |-> objects, refs |-> refs]
<1>1. BackupInv /\ [Next]_vars => [Moment]_vars
  <2> SUFFICES ASSUME BackupInv, [Next]_vars, ~Stray,
                      BackupDump \/ (backup = "copying" /\ Faithful), backup' # "idle"
               PROVE  \/ backup' = "copying" /\ ~Stray' /\ Faithful'
                      \/ /\ backup' = "done" /\ archive'.refs \subseteq archive'.objects
                         /\ archive' = [rows |-> rows, objects |-> objects, refs |-> refs]
    OBVIOUS
  <2> USE DEF BackupInv, TypeOK, dataVars
  <2>1. CASE BackupDump
    <3>1. backup' = "copying" /\ ~Stray'
      BY <2>1 DEF BackupDump, Stray, xferVars
    <3>2. copied' = {} /\ snapshot'.rows = rows' /\ UNCHANGED rows
      BY <2>1 DEF BackupDump, DataInv
    <3> QED BY <3>1, <3>2 DEF Faithful
  <2>2. CASE backup = "copying" /\ Faithful
    <3>1. UNCHANGED dataVars
      BY <2>2, CopyIsQuiet
    <3>2. CASE CopyObjects \/ CopyRefs \/ UNCHANGED backupVars
      <4>1. backup' = "copying"
        BY <2>2, <3>2 DEF CopyObjects, CopyRefs, backupVars
      <4>2. ~Stray'
        BY <2>2, <4>1, NothingGoesAstray
      <4>3. Faithful'
        BY <2>2, <3>1, <3>2 DEF CopyObjects, CopyRefs, backupVars, Faithful
      <4> QED BY <4>1, <4>2, <4>3
    <3>3. CASE BackupArchive
      <4>1. backup' = "done" /\ archive' = snapshot /\ copied = {"objects", "refs"}
        BY <3>3 DEF BackupArchive
      <4>2. snapshot = [rows |-> rows, objects |-> objects, refs |-> refs]
        BY <2>2, <4>1 DEF Faithful
      <4> QED BY <4>1, <4>2 DEF DataInv
    <3> QED BY <2>2, <3>2, <3>3, CopyGoesOn
  <2> QED BY <2>1, <2>2
<1> QED BY <1>1, BackupCorrect, PTL DEF Spec, ArchiveIsOneMoment
=============================================================================
