------------------------------- MODULE SignIn -------------------------------
(***************************************************************************)
(* Signing in and registering.  Each attempt is admitted by rate(), which  *)
(* looks at the failures of its host, and is counted by authAttempt() only *)
(* when it has failed: attempts in progress at the same time do not see    *)
(* one another.  The table of hosts is bounded; entries a minute old are   *)
(* dropped when it is full.  A registration writes the account and its     *)
(* namespace in one transaction, and competes for the name with other      *)
(* registrations and with new organizations.                               *)
(***************************************************************************)
EXTENDS Integers, FiniteSets

CONSTANTS
  Host,       \* peers, by address
  Attempt,    \* requests in progress at the same time
  Name,       \* names of accounts and namespaces
  Limit,      \* failures after which a host is refused
  Window,     \* a minute
  TableSize,  \* hosts in the table
  None        \* no host, no name

ASSUME FiniteAssumption == IsFiniteSet(Host) /\ IsFiniteSet(Attempt)
ASSUME LimitAssumption ==
  Limit \in Nat \ {0} /\ Window \in Nat /\ TableSize \in Nat \ {0}

VARIABLES
  known,      \* hosts with an entry in `rates`
  count,      \* count[h]: failures of its entry
  age,        \* age[h]: time since its entry's `since`, up to Window + 1
  pc,         \* pc[a]: where attempt a is
  host,       \* host[a]: where it comes from, if it is counted
  name,       \* name[a]: the name it is about
  users,      \* accounts
  kind,       \* kind[n]: what namespace n is
  admins      \* namespaces with a member who administers them

rateVars == <<known, count, age>>
nameVars == <<users, kind, admins>>
vars == <<rateVars, pc, host, name, nameVars>>

-----------------------------------------------------------------------------
\* "admitted": past rate(); "user": the row of users is inserted, "account" and
\* "organization": that of namespaces too; "account" is a registration.  Rows
\* of a transaction are nobody else's to see before it commits, but whoever
\* inserts the same key waits for its end.
Step == {"idle", "admitted", "user", "account", "organization", "session"}
Old  == Window + 1    \* age of an entry that is past its window, or absent

TypeOK ==
  /\ known \subseteq Host
  /\ count \in [Host -> Nat]
  /\ age \in [Host -> 0..Old]
  /\ pc \in [Attempt -> Step]
  /\ host \in [Attempt -> Host \cup {None}]
  /\ name \in [Attempt -> Name \cup {None}]
  /\ users \subseteq Name
  /\ kind \in [Name -> {"none", "user", "organization"}]
  /\ admins \subseteq Name

Init ==
  /\ known = {}
  /\ count = [h \in Host |-> 0]
  /\ age = [h \in Host |-> Old]
  /\ pc = [a \in Attempt |-> "idle"]
  /\ host = [a \in Attempt |-> None]
  /\ name = [a \in Attempt |-> None]
  /\ users = {}
  /\ kind = [n \in Name |-> "none"]
  /\ admins = {}

Goto(a, step) == pc' = [pc EXCEPT ![a] = step] /\ UNCHANGED <<host, name>>

End(a) ==
  /\ pc' = [pc EXCEPT ![a] = "idle"]
  /\ host' = [host EXCEPT ![a] = None]
  /\ name' = [name EXCEPT ![a] = None]

-----------------------------------------------------------------------------
(* rate() and authAttempt().                                                *)

Tick ==
  /\ age' = [h \in Host |-> IF age[h] < Old THEN age[h] + 1 ELSE Old]
  /\ UNCHANGED <<known, count, pc, host, name, nameVars>>

\* Mutant of Kept: nothing is ever dropped.
KeptAll == known

\* What is left of a full table.
Kept == IF Cardinality(known) >= TableSize THEN {h \in known : age[h] <= Window} ELSE known

\* The table after rate() of host h: stale entries are gone, and the entry of h
\* has a new window if its last one is over.
Swept(h) ==
  /\ known' = Kept \cup {h}
  /\ count' = [k \in Host |->
       IF k \notin Kept \cup {h} \/ (k = h /\ age[h] > Window) THEN 0 ELSE count[k]]
  /\ age' = [k \in Host |->
       IF k = h /\ age[h] > Window THEN 0 ELSE IF k \in Kept \cup {h} THEN age[k] ELSE Old]

Failures(h) == IF age[h] > Window THEN 0 ELSE count[h]

Arrive(a, h, n) ==
  /\ pc' = [pc EXCEPT ![a] = "admitted"]
  /\ host' = [host EXCEPT ![a] = h]
  /\ name' = [name EXCEPT ![a] = n]

\* Mutant of Admit: the table takes every host.
AdmitAlways(a, h, n) ==
  /\ pc[a] = "idle"
  /\ Failures(h) < Limit
  /\ known' = known \cup {h}
  /\ count' = [count EXCEPT ![h] = Failures(h)]
  /\ age' = [age EXCEPT ![h] = IF @ > Window THEN 0 ELSE @]
  /\ Arrive(a, h, n)
  /\ UNCHANGED nameVars

\* Mutant of Admit: one failure more is let through.
AdmitOneMore(a, h, n) ==
  /\ pc[a] = "idle"
  /\ Cardinality(Kept) < TableSize /\ Failures(h) <= Limit
  /\ Swept(h)
  /\ Arrive(a, h, n)
  /\ UNCHANGED nameVars

Admit(a, h, n) ==
  /\ pc[a] = "idle"
  /\ Cardinality(Kept) < TableSize /\ Failures(h) < Limit
  /\ Swept(h)
  /\ Arrive(a, h, n)
  /\ UNCHANGED nameVars

\* "Too many authentication attempts": the entry is kept.
Refuse(a, h) ==
  /\ pc[a] = "idle"
  /\ Cardinality(Kept) < TableSize /\ Failures(h) >= Limit
  /\ Swept(h)
  /\ UNCHANGED <<pc, host, name, nameVars>>

\* "Authentication busy": no entry is stale, whether h has one or not.
RefuseBusy(a, h) ==
  /\ pc[a] = "idle"
  /\ Cardinality(Kept) >= TableSize
  /\ UNCHANGED <<rateVars, pc, host, name, nameVars>>

\* The answer is an error of the client's: its host's entry is counted up, and
\* made if it was dropped meanwhile.
Counted(a) ==
  /\ known' = known \cup {host[a]}
  /\ count' = [count EXCEPT ![host[a]] = @ + 1]
  /\ UNCHANGED age

-----------------------------------------------------------------------------
(* POST /api/auth/login, /api/auth/register and /api/namespaces.            *)

\* A wrong password, a body that is not accepted, or an insertion that fails:
\* "Username already exists" and "Namespace already exists" is what the code
\* says of every error there.  The transaction ends, and its rows are gone.
Reject(a) ==
  /\ pc[a] \in {"admitted", "user"}
  /\ Counted(a)
  /\ End(a)
  /\ UNCHANGED nameVars

Login(a) ==
  /\ pc[a] = "admitted" /\ name[a] \in users
  /\ Goto(a, "session")
  /\ UNCHANGED <<rateVars, nameVars>>

Inserting(n, steps) == \E b \in Attempt : name[b] = n /\ pc[b] \in steps

\* Mutant of InsertUser: the row is written outside the transaction.
InsertUserAtOnce(a) ==
  /\ pc[a] = "admitted"
  /\ name[a] \notin users /\ ~Inserting(name[a], {"user", "account"})
  /\ users' = users \cup {name[a]}
  /\ Goto(a, "user")
  /\ UNCHANGED <<rateVars, kind, admins>>

InsertUser(a) ==
  /\ pc[a] = "admitted"
  /\ name[a] \notin users /\ ~Inserting(name[a], {"user", "account"})
  /\ Goto(a, "user")
  /\ UNCHANGED <<rateVars, nameVars>>

InsertNamespace(a) ==
  /\ pc[a] = "user"
  /\ kind[name[a]] = "none" /\ ~Inserting(name[a], {"account", "organization"})
  /\ Goto(a, "account")
  /\ UNCHANGED <<rateVars, nameVars>>

\* Organizations are created by somebody who is signed in, at no rate.
InsertOrganization(a, n) ==
  /\ pc[a] = "idle"
  /\ kind[n] = "none" /\ ~Inserting(n, {"account", "organization"})
  /\ name' = [name EXCEPT ![a] = n]
  /\ pc' = [pc EXCEPT ![a] = "organization"]
  /\ UNCHANGED <<rateVars, host, nameVars>>

\* Mutant of Commit: the creator is not made a member.
CommitAlone(a) ==
  /\ pc[a] \in {"account", "organization"}
  /\ kind' = [kind EXCEPT ![name[a]] = IF pc[a] = "account" THEN "user" ELSE "organization"]
  /\ users' = IF pc[a] = "account" THEN users \cup {name[a]} ELSE users
  /\ IF pc[a] = "account" THEN Goto(a, "session") ELSE End(a)
  /\ UNCHANGED <<rateVars, admins>>

\* The creator becomes an admin of the namespace, and the transaction commits.
Commit(a) ==
  /\ pc[a] \in {"account", "organization"}
  /\ kind' = [kind EXCEPT ![name[a]] = IF pc[a] = "account" THEN "user" ELSE "organization"]
  /\ users' = IF pc[a] = "account" THEN users \cup {name[a]} ELSE users
  /\ admins' = admins \cup {name[a]}
  /\ IF pc[a] = "account" THEN Goto(a, "session") ELSE End(a)
  /\ UNCHANGED rateVars

\* newToken().
GetToken(a) ==
  /\ pc[a] = "session"
  /\ End(a)
  /\ UNCHANGED <<rateVars, nameVars>>

\* The server fails, or the database does elsewhere than in the two insertions:
\* the transaction is rolled back, and the attempt is not counted.
Breaks(a) ==
  /\ pc[a] # "idle"
  /\ End(a)
  /\ UNCHANGED <<rateVars, nameVars>>

-----------------------------------------------------------------------------
Check(h) ==
  \E a \in Attempt :
    (\E n \in Name : Admit(a, h, n)) \/ Refuse(a, h) \/ RefuseBusy(a, h)

Proceed(a) ==
  \/ Reject(a) \/ Login(a) \/ InsertUser(a) \/ InsertNamespace(a)
  \/ Commit(a) \/ GetToken(a)

Next ==
  \/ Tick
  \/ \E h \in Host : Check(h)
  \/ \E a \in Attempt, n \in Name : InsertOrganization(a, n)
  \/ \E a \in Attempt : Proceed(a) \/ Breaks(a)

Spec == Init /\ [][Next]_vars

\* Time passes, statements end, and every host keeps trying.
FairSpec ==
  /\ Spec
  /\ WF_vars(Tick)
  /\ \A a \in Attempt : WF_vars(Proceed(a))
  /\ \A h \in Host : SF_vars(Check(h))

-----------------------------------------------------------------------------
InProgress(h) == {a \in Attempt : host[a] = h /\ pc[a] \in {"admitted", "user", "account"}}

\* Attempts in parallel get past the limit, but not by more than their number:
\* a host that fails has fewer than Limit + |Attempt| tries in a window.
FailuresBounded ==
  \A h \in Host : count[h] + Cardinality(InProgress(h)) < Limit + Cardinality(Attempt)

\* The state of the limiter is bounded (CONTRACT.md:17): authAttempt() adds an
\* entry that rate() has dropped without looking at their number, but it can do
\* so no more often than there are other attempts in progress.
TableBounded == Cardinality(known) < TableSize + Cardinality(Attempt)

\* Who has an account has its namespace and administers it, no organization has
\* a user's name, and no namespace is left without an admin, whoever asked for
\* the name at the same time and wherever requests broke off.
AccountIsWhole ==
  \A n \in Name :
    /\ n \in users <=> kind[n] = "user"
    /\ kind[n] # "none" => n \in admins

\* An attempt that can still be counted has a host, and one that inserts rows has
\* a name.
Attributed ==
  \A a \in Attempt :
    /\ pc[a] \in {"admitted", "user", "account"} => host[a] \in Host
    /\ pc[a] # "idle" => name[a] \in Name

\* The primary keys: rows that are not committed yet are new, and no two attempts
\* hold the same one.
Fresh(a) ==
  /\ pc[a] \in {"user", "account"} =>
       name[a] \notin users
       /\ \A b \in Attempt \ {a} : pc[b] \in {"user", "account"} => name[b] # name[a]
  /\ pc[a] \in {"account", "organization"} =>
       kind[name[a]] = "none"
       /\ \A b \in Attempt \ {a} : pc[b] \in {"account", "organization"} => name[b] # name[a]

Keys == \A a \in Attempt : Fresh(a)

\* The hosts that may still get into the table by failing count as if they were
\* in it.
Counting == {a \in Attempt : pc[a] \in {"admitted", "user"}}
TableCovered ==
  Cardinality(known \cup {host[a] : a \in Counting}) < TableSize + Cardinality(Attempt)

SignInInv ==
  TypeOK /\ Attributed /\ FailuresBounded /\ TableCovered /\ Keys /\ AccountIsWhole

\* A host that keeps trying is let in again and again, unless the table is full
\* of others: a lockout ends with its window, however often the host asks
\* meanwhile, and "Authentication busy" ends for the hosts of the table too.
LockoutEnds ==
  \A h \in Host :
    <>[](Cardinality(known \cup {h}) <= TableSize) => []<>(InProgress(h) # {})
=============================================================================
