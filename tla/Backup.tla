------------------------------- MODULE Backup -------------------------------
(***************************************************************************)
(* The server, Git transfers and `gitclub backup` of one data directory.   *)
(* The supervisor of the server and a backup exclude one another by a file *)
(* lock; each SSH transfer holds one of a few file locks, all of which a   *)
(* backup takes before it dumps the database and copies the repositories.  *)
(* A file lock lives in the process that took it and not in its children:  *)
(* a git process that outlives the adapter or the server that started it   *)
(* holds no lock.                                                          *)
(*                                                                         *)
(* What transfers bring is one commit each: `objects` has its objects,     *)
(* `refs` a reference to it, and `rows` a name of it in the database.      *)
(***************************************************************************)
EXTENDS Integers, FiniteSets

CONSTANTS
  Transfer,   \* git transfers, each of which takes place at most once
  Slots,      \* file locks for SSH transfers
  Helper,     \* the backup, as holder of such a lock
  Nobody      \* holder of a free lock

ASSUME SlotsAssumption == Slots \in Nat \ {0}
ASSUME HolderAssumption == Helper \notin Transfer /\ Nobody \notin Transfer /\ Helper # Nobody

VARIABLES
  server,     \* whether the server process runs
  lock,       \* holder of server.lock: "serve", "backup" or "nobody"
  via,        \* via[x]: how x reaches git
  pc,         \* pc[x]: how far it is
  orphans,    \* transfers whose git process has lost its parent
  slot,       \* slot[i]: holder of file lock i
  objects, refs, rows,
  backup,     \* how far the backup is
  next,       \* the next file lock it takes
  copied,     \* what it has copied of the repositories
  snapshot,   \* what it has read so far
  archive,    \* the archive, once it is written
  restored    \* the archive has been restored

dataVars   == <<objects, refs, rows>>
xferVars   == <<via, pc, orphans>>
backupVars == <<backup, next, copied, snapshot, archive, restored>>
vars == <<server, lock, xferVars, slot, dataVars, backupVars>>

-----------------------------------------------------------------------------
Index == 1..Slots
Step  == {"idle", "token", "running", "admitted", "stored", "landed", "done"}
Alive == {"running", "admitted", "stored", "landed"}   \* a git process exists

Snapshot == [rows : SUBSET Transfer, objects : SUBSET Transfer, refs : SUBSET Transfer]
Empty    == [rows |-> {}, objects |-> {}, refs |-> {}]

TypeOK ==
  /\ server \in {"up", "down"}
  /\ lock \in {"serve", "backup", "nobody"}
  /\ via \in [Transfer -> {"ssh", "http"}]
  /\ pc \in [Transfer -> Step]
  /\ orphans \subseteq Transfer
  /\ slot \in [Index -> Transfer \cup {Helper, Nobody}]
  /\ objects \subseteq Transfer /\ refs \subseteq Transfer /\ rows \subseteq Transfer
  /\ backup \in {"idle", "locking", "copying", "done"}
  /\ next \in 1..(Slots + 1)
  /\ copied \subseteq {"objects", "refs"}
  /\ snapshot \in Snapshot /\ archive \in Snapshot
  /\ restored \in {"no", "yes"}

Init ==
  /\ server = "down" /\ lock = "nobody"
  /\ via \in [Transfer -> {"ssh", "http"}]
  /\ pc = [x \in Transfer |-> "idle"] /\ orphans = {}
  /\ slot = [i \in Index |-> Nobody]
  /\ objects = {} /\ refs = {} /\ rows = {}
  /\ backup = "idle" /\ next = 1 /\ copied = {}
  /\ snapshot = Empty /\ archive = Empty /\ restored = "no"

Goto(x, step) == pc' = [pc EXCEPT ![x] = step]

-----------------------------------------------------------------------------
(* scripts/gitclub serve, and the server it supervises.                     *)

StartServer ==
  /\ server = "down" /\ lock = "nobody"
  /\ server' = "up" /\ lock' = "serve"
  /\ UNCHANGED <<xferVars, slot, dataVars, backupVars>>

\* On SIGTERM main() returns as soon as the listener is closed, as after a
\* crash: handlers end where they are, and git processes they have started,
\* which have process groups of their own, go on without them.
StopServer ==
  /\ server = "up"
  /\ server' = "down"
  /\ lock' = IF lock = "serve" THEN "nobody" ELSE lock
  /\ orphans' = orphans \cup {x \in Transfer : via[x] = "http" /\ pc[x] \in Alive}
  /\ pc' = [x \in Transfer |->
              IF via[x] = "http" /\ pc[x] = "token" THEN "done" ELSE pc[x]]
  /\ UNCHANGED <<via, slot, dataVars, backupVars>>

\* The supervisor is killed and its lock is gone; the server goes on.
KillSupervisor ==
  /\ lock = "serve"
  /\ lock' = "nobody"
  /\ UNCHANGED <<server, xferVars, slot, dataVars, backupVars>>

\* refresh(), a merge or a review names a commit that a reference reaches.
Record(x) ==
  /\ server = "up" /\ x \in refs
  /\ rows' = rows \cup {x}
  /\ UNCHANGED <<server, lock, xferVars, slot, objects, refs, backupVars>>

-----------------------------------------------------------------------------
(* Transfers: gitHTTP(), and ssh.py serve().                                *)

\* The server knows who asks and hands out, or has received, a token.
Authorize(x) ==
  /\ pc[x] = "idle" /\ server = "up"
  /\ Goto(x, "token")
  /\ UNCHANGED <<server, lock, via, orphans, slot, dataVars, backupVars>>

\* The adapter takes the first file lock it can get and starts git.
StartSSH(x) ==
  /\ pc[x] = "token" /\ via[x] = "ssh"
  /\ \E i \in Index :
       /\ slot[i] = Nobody /\ \A j \in Index : slot[j] = Nobody => i <= j
       /\ slot' = [slot EXCEPT ![i] = x]
  /\ Goto(x, "running")
  /\ UNCHANGED <<server, lock, via, orphans, dataVars, backupVars>>

\* All of them are taken.
RefuseSSH(x) ==
  /\ pc[x] = "token" /\ via[x] = "ssh"
  /\ \A i \in Index : slot[i] # Nobody
  /\ Goto(x, "done")
  /\ UNCHANGED <<server, lock, via, orphans, slot, dataVars, backupVars>>

StartHTTP(x) ==
  /\ pc[x] = "token" /\ via[x] = "http"
  /\ Goto(x, "running")
  /\ UNCHANGED <<server, lock, via, orphans, slot, dataVars, backupVars>>

\* The pre-receive hook asks the server.
Admit(x) ==
  /\ pc[x] = "running" /\ server = "up"
  /\ Goto(x, "admitted")
  /\ UNCHANGED <<server, lock, via, orphans, slot, dataVars, backupVars>>

\* Objects leave the quarantine before references are updated.
Store(x) ==
  /\ pc[x] = "admitted"
  /\ objects' = objects \cup {x}
  /\ Goto(x, "stored")
  /\ UNCHANGED <<server, lock, via, orphans, slot, refs, rows, backupVars>>

Land(x) ==
  /\ pc[x] = "stored"
  /\ refs' = refs \cup {x}
  /\ Goto(x, "landed")
  /\ UNCHANGED <<server, lock, via, orphans, slot, objects, rows, backupVars>>

\* Mutant of Finish: the adapter exits and its file lock stays.
FinishLeaks(x) ==
  /\ pc[x] \in Alive
  /\ Goto(x, "done")
  /\ orphans' = orphans \ {x}
  /\ UNCHANGED <<server, lock, via, slot, dataVars, backupVars>>

\* git ends, successfully or not; it is killed after 120 seconds, or when the
\* adapter or the handler is told to stop.
Finish(x) ==
  /\ pc[x] \in Alive
  /\ Goto(x, "done")
  /\ orphans' = orphans \ {x}
  /\ slot' = [i \in Index |-> IF slot[i] = x THEN Nobody ELSE slot[i]]
  /\ UNCHANGED <<server, lock, via, dataVars, backupVars>>

\* The adapter is killed, and git goes on.
KillAdapter(x) ==
  /\ via[x] = "ssh" /\ pc[x] \in Alive /\ x \notin orphans
  /\ orphans' = orphans \cup {x}
  /\ slot' = [i \in Index |-> IF slot[i] = x THEN Nobody ELSE slot[i]]
  /\ UNCHANGED <<server, lock, via, pc, dataVars, backupVars>>

-----------------------------------------------------------------------------
(* scripts/gitclub backup and restore.                                      *)

\* exclusive_data().
BackupStart ==
  /\ backup = "idle" /\ lock = "nobody"
  /\ lock' = "backup"
  /\ backup' = "locking" /\ next' = 1
  /\ UNCHANGED <<server, xferVars, slot, dataVars, copied, snapshot, archive, restored>>

\* quiescent_transfers(), one file lock after the other.
BackupLock ==
  /\ backup = "locking" /\ next <= Slots /\ slot[next] = Nobody
  /\ slot' = [slot EXCEPT ![next] = Helper]
  /\ next' = next + 1
  /\ UNCHANGED <<server, lock, xferVars, dataVars, backup, copied, snapshot, archive, restored>>

\* Both context managers end: the backup is over or has failed.
Release ==
  /\ slot' = [i \in Index |-> IF slot[i] = Helper THEN Nobody ELSE slot[i]]
  /\ lock' = "nobody"

GiveUp ==
  /\ Release
  /\ backup' = "idle" /\ next' = 1 /\ copied' = {} /\ snapshot' = Empty
  /\ UNCHANGED <<server, xferVars, dataVars, archive, restored>>

\* "An SSH transfer is still active."
Busy == backup = "locking" /\ next <= Slots /\ slot[next] # Nobody

BackupRefused == Busy /\ GiveUp

\* A command fails, or the backup is interrupted.
BackupFails == backup \in {"locking", "copying"} /\ ~Busy /\ GiveUp

\* Mutant of Quiet: file locks of transfers are not waited for.
QuietEnough == TRUE

Quiet == next = Slots + 1

\* pg_dump, before anything of the repositories is copied.
BackupDump ==
  /\ backup = "locking" /\ Quiet
  /\ snapshot' = [snapshot EXCEPT !.rows = rows]
  /\ backup' = "copying"
  /\ UNCHANGED <<server, lock, xferVars, slot, dataVars, next, copied, archive, restored>>

\* copytree() takes the entries of a directory in any order.
CopyObjects ==
  /\ backup = "copying" /\ "objects" \notin copied
  /\ snapshot' = [snapshot EXCEPT !.objects = objects]
  /\ copied' = copied \cup {"objects"}
  /\ UNCHANGED <<server, lock, xferVars, slot, dataVars, backup, next, archive, restored>>

CopyRefs ==
  /\ backup = "copying" /\ "refs" \notin copied
  /\ snapshot' = [snapshot EXCEPT !.refs = refs]
  /\ copied' = copied \cup {"refs"}
  /\ UNCHANGED <<server, lock, xferVars, slot, dataVars, backup, next, archive, restored>>

\* Mutant of BackupArchive: the database is dumped last.
BackupArchiveDumpsLast ==
  /\ backup = "copying" /\ copied = {"objects", "refs"}
  /\ archive' = [snapshot EXCEPT !.rows = rows]
  /\ backup' = "done"
  /\ Release
  /\ UNCHANGED <<server, xferVars, dataVars, next, copied, snapshot, restored>>

BackupArchive ==
  /\ backup = "copying" /\ copied = {"objects", "refs"}
  /\ archive' = snapshot
  /\ backup' = "done"
  /\ Release
  /\ UNCHANGED <<server, xferVars, dataVars, next, copied, snapshot, restored>>

\* restore() into an empty directory and an empty database: git fsck refuses
\* references to objects that are missing.
Restore ==
  /\ backup = "done" /\ restored = "no"
  /\ archive.refs \subseteq archive.objects
  /\ restored' = "yes"
  /\ UNCHANGED <<server, lock, xferVars, slot, dataVars,
                 backup, next, copied, snapshot, archive>>

-----------------------------------------------------------------------------
Serve == StartServer \/ StopServer \/ KillSupervisor \/ \E x \in Transfer : Record(x)

Move(x) ==
  \/ Authorize(x) \/ StartSSH(x) \/ RefuseSSH(x) \/ StartHTTP(x)
  \/ Admit(x) \/ Store(x) \/ Land(x) \/ Finish(x) \/ KillAdapter(x)

Advance == BackupStart \/ BackupLock \/ BackupDump \/ CopyObjects \/ CopyRefs \/ BackupArchive

Next ==
  \/ Serve
  \/ \E x \in Transfer : Move(x)
  \/ Advance \/ BackupRefused \/ BackupFails \/ Restore

Spec == Init /\ [][Next]_vars

\* git processes end, adapters that have a token use it, and somebody who wants
\* a backup tries again when one was refused for an active transfer.
FairSpec ==
  /\ Spec
  /\ \A x \in Transfer :
       /\ WF_vars(Finish(x))
       /\ WF_vars(StartSSH(x) \/ RefuseSSH(x) \/ StartHTTP(x))
  /\ WF_vars(Advance \/ BackupRefused)

-----------------------------------------------------------------------------
\* Something runs that lost the process which held the lock for it.
Stray == orphans # {} \/ (server = "up" /\ lock # "serve")

\* Who holds which lock.
LockInv ==
  /\ backup \in {"locking", "copying"} <=> lock = "backup"
  /\ lock = "serve" => server = "up"
  /\ \A i \in Index : slot[i] = Helper <=> (lock = "backup" /\ i < next)
  /\ \A i \in Index : slot[i] \in Transfer =>
       via[slot[i]] = "ssh" /\ pc[slot[i]] \in Alive /\ slot[i] \notin orphans
  /\ \A x \in orphans : pc[x] \in Alive
  /\ \A x \in Transfer \ orphans : pc[x] \in Alive =>
       IF via[x] = "ssh" THEN \E i \in Index : slot[i] = x ELSE server = "up"
  /\ \A x \in Transfer : via[x] = "http" /\ pc[x] = "token" => server = "up"
  /\ backup = "copying" => next = Slots + 1

\* Names need references and references need objects, in the directory and in
\* what a backup has read of it.
DataInv ==
  /\ rows \subseteq refs /\ refs \subseteq objects
  /\ \A x \in Transfer : pc[x] = "stored" => x \in objects
  /\ snapshot.rows \subseteq objects
  /\ backup \in {"idle", "locking"} => copied = {}
  /\ "objects" \in copied => snapshot.rows \subseteq snapshot.objects
  /\ backup = "done" => archive.rows \subseteq archive.objects
  /\ restored = "yes" => backup = "done" /\ archive.refs \subseteq archive.objects

BackupInv == TypeOK /\ LockInv /\ DataInv

\* What the backup has read so far is what is there now.
Faithful ==
  /\ snapshot.rows = rows
  /\ "objects" \in copied => snapshot.objects = objects
  /\ "refs" \in copied => snapshot.refs = refs

\* A backup that starts to dump when nothing has lost its parent archives the
\* database and the repositories of one moment, which fsck accepts: nothing runs
\* astray, and nothing changes what has been read, before the archive is written,
\* not even by a transfer that had got its token before the server was stopped
\* and gets to its file lock only now.
ArchiveIsOneMoment ==
  [][ ~Stray /\ (BackupDump \/ (backup = "copying" /\ Faithful)) =>
        \/ backup' = "idle"
        \/ backup' = "copying" /\ ~Stray' /\ Faithful'
        \/ /\ backup' = "done" /\ archive'.refs \subseteq archive'.objects
           /\ archive' = [rows |-> rows, objects |-> objects, refs |-> refs] ]_vars

\* A restore that succeeds leaves no row that names a missing object, whatever
\* ran during the backup: rows are read first, and fsck checks the rest.
RestoreIsSound ==
  restored = "yes" => archive.rows \cup archive.refs \subseteq archive.objects

\* Once the server is stopped for good, a backup gets all its locks: no transfer
\* keeps one beyond its end, and no new transfer is let in.
BackupEventuallyDone ==
  <>[](lock # "serve") /\ <>[][~BackupFails]_vars => <>(backup = "done")
=============================================================================
