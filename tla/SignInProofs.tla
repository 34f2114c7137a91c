---------------------------- MODULE SignInProofs ----------------------------
(***************************************************************************)
(* However many attempts run at once, from however many hosts: the limit   *)
(* is exceeded by less than their number, the table stays bounded, and     *)
(* accounts and namespaces are made whole.                                 *)
(***************************************************************************)
EXTENDS SignIn, FiniteSetTheorems, TLAPS

-----------------------------------------------------------------------------
(* Sets of attempts and of hosts.                                           *)

\* The hosts of attempts.
Of(S, f) == {f[a] : a \in S}

\* Attempts have at most as many hosts as there are of them.
LEMMA HostsOfAttempts ==
  ASSUME NEW S \in SUBSET Attempt, NEW f
  PROVE  IsFiniteSet(Of(S, f)) /\ Cardinality(Of(S, f)) <= Cardinality(S)
<1> DEFINE g == [a \in S |-> f[a]]
<1>1. IsFiniteSet(S)
  BY FiniteAssumption, FS_Subset
<1>2. g \in Surjection(S, Of(S, f))
  BY DEF Surjection, Of
<1> QED BY <1>1, <1>2, FS_Surjection

\* Adding the hosts of attempts to a table.
LEMMA TableAndHosts ==
  ASSUME NEW K \in SUBSET Host, NEW S \in SUBSET Attempt, NEW f
  PROVE  /\ IsFiniteSet(K \cup Of(S, f))
         /\ Cardinality(K \cup Of(S, f)) \in Nat
         /\ Cardinality(K \cup Of(S, f)) <= Cardinality(K) + Cardinality(S)
         /\ Cardinality(K) \in Nat /\ Cardinality(S) \in Nat
<1> DEFINE T == Of(S, f)
<1>1. IsFiniteSet(K) /\ IsFiniteSet(S) /\ Cardinality(K) \in Nat /\ Cardinality(S) \in Nat
  BY FiniteAssumption, FS_Subset, FS_CardinalityType
<1>2. IsFiniteSet(T) /\ Cardinality(T) \in Nat /\ Cardinality(T) <= Cardinality(S)
  BY HostsOfAttempts, FS_CardinalityType
<1>3. IsFiniteSet(K \cap T) /\ Cardinality(K \cap T) \in Nat
  BY <1>1, FS_Intersection, FS_CardinalityType
<1>4. /\ IsFiniteSet(K \cup T)
      /\ Cardinality(K \cup T) = Cardinality(K) + Cardinality(T) - Cardinality(K \cap T)
  BY <1>1, <1>2, FS_Union
<1>5. Cardinality(K \cup T) \in Nat
  BY <1>4, FS_CardinalityType
<1> HIDE DEF T
<1>6. Cardinality(K \cup T) <= Cardinality(K) + Cardinality(S)
  BY <1>1, <1>2, <1>3, <1>4
<1> QED BY <1>1, <1>4, <1>5, <1>6 DEF T

\* A smaller set has no more elements.
LEMMA Fewer ==
  ASSUME NEW S, NEW T, IsFiniteSet(T), S \subseteq T
  PROVE  IsFiniteSet(S) /\ Cardinality(S) \in Nat /\ Cardinality(T) \in Nat
         /\ Cardinality(S) <= Cardinality(T)
  BY FS_Subset, FS_CardinalityType

\* Without one that is idle there is one attempt less.
LEMMA OthersAreFewer ==
  ASSUME NEW a \in Attempt, NEW S \in SUBSET (Attempt \ {a})
  PROVE  Cardinality(S) \in Nat /\ Cardinality(Attempt) \in Nat
         /\ Cardinality(S) < Cardinality(Attempt)
<1>1. /\ IsFiniteSet(Attempt \ {a})
      /\ Cardinality(Attempt \ {a}) = Cardinality(Attempt) - 1
  BY FiniteAssumption, FS_RemoveElement
<1>2. /\ Cardinality(S) \in Nat /\ Cardinality(Attempt \ {a}) \in Nat
      /\ Cardinality(S) <= Cardinality(Attempt \ {a})
  BY <1>1, Fewer
<1>3. Cardinality(Attempt) \in Nat
  BY FiniteAssumption, FS_CardinalityType
<1> QED BY <1>1, <1>2, <1>3

-----------------------------------------------------------------------------
(* Types and attribution.                                                   *)

LEMMA SignInTypes ==
  ASSUME TypeOK, Attributed, [Next]_vars PROVE TypeOK' /\ Attributed'
<1> USE DEF TypeOK, Attributed, Goto, End, Step, nameVars, rateVars
<1>1. CASE Tick
  BY <1>1, LimitAssumption DEF Tick, Old
<1>2. ASSUME NEW h \in Host, Check(h) PROVE TypeOK' /\ Attributed'
  <2> USE LimitAssumption DEF Old
  <2>1. Kept \subseteq known
    BY DEF Kept
  <2>2. Swept(h) => known' \in SUBSET Host /\ count' \in [Host -> Nat] /\ age' \in [Host -> 0..Old]
    BY <2>1 DEF Swept
  <2>3. ASSUME NEW a \in Attempt, NEW n \in Name, Admit(a, h, n) PROVE TypeOK' /\ Attributed'
    BY <2>2, <2>3 DEF Admit, Arrive
  <2>4. ASSUME NEW a \in Attempt, Refuse(a, h) PROVE TypeOK' /\ Attributed'
    BY <2>2, <2>4 DEF Refuse
  <2>5. ASSUME NEW a \in Attempt, RefuseBusy(a, h) PROVE TypeOK' /\ Attributed'
    BY <2>5 DEF RefuseBusy
  <2> QED BY <1>2, <2>3, <2>4, <2>5 DEF Check
<1>3. ASSUME NEW a \in Attempt, NEW n \in Name, InsertOrganization(a, n)
      PROVE  TypeOK' /\ Attributed'
  BY <1>3 DEF InsertOrganization
<1>4. ASSUME NEW a \in Attempt, Proceed(a) PROVE TypeOK' /\ Attributed'
  <2>1. CASE Reject(a) BY <2>1 DEF Reject, Counted
  <2>2. CASE Login(a) BY <2>2 DEF Login
  <2>3. CASE InsertUser(a) BY <2>3 DEF InsertUser
  <2>4. CASE InsertNamespace(a) BY <2>4 DEF InsertNamespace
  <2>5. CASE Commit(a) BY <2>5 DEF Commit
  <2>6. CASE GetToken(a) BY <2>6 DEF GetToken
  <2> QED BY <1>4, <2>1, <2>2, <2>3, <2>4, <2>5, <2>6 DEF Proceed
<1>5. ASSUME NEW a \in Attempt, Breaks(a) PROVE TypeOK' /\ Attributed'
  BY <1>5 DEF Breaks
<1>6. CASE UNCHANGED vars
  BY <1>6 DEF vars
<1> QED BY <1>1, <1>2, <1>3, <1>4, <1>5, <1>6 DEF Next

-----------------------------------------------------------------------------
(* The limit.                                                               *)

\* A step that counts nothing and admits nobody keeps the bound.
LEMMA NoMoreFailures ==
  ASSUME TypeOK, FailuresBounded, TypeOK',
         \A h \in Host : count'[h] <= count[h] /\ InProgress(h)' \subseteq InProgress(h)
  PROVE  FailuresBounded'
<1> SUFFICES ASSUME NEW h \in Host
             PROVE  count'[h] + Cardinality(InProgress(h)') < Limit + Cardinality(Attempt)
  BY DEF FailuresBounded
<1>1. IsFiniteSet(InProgress(h))
  BY FiniteAssumption, FS_Subset DEF InProgress
<1>2. /\ Cardinality(InProgress(h)') \in Nat /\ Cardinality(InProgress(h)) \in Nat
      /\ Cardinality(InProgress(h)') <= Cardinality(InProgress(h))
  BY <1>1, Fewer
<1>3. count[h] \in Nat /\ count'[h] \in Nat
  BY DEF TypeOK
<1>4. Cardinality(Attempt) \in Nat
  BY FiniteAssumption, FS_CardinalityType
<1> QED BY <1>2, <1>3, <1>4, LimitAssumption DEF FailuresBounded

\* rate() never raises a count, and counts as failures what it compares.
LEMMA SweptCounts ==
  ASSUME TypeOK, NEW h \in Host, Swept(h)
  PROVE  /\ \A k \in Host : count'[k] <= count[k]
         /\ count'[h] = Failures(h)
  BY LimitAssumption DEF TypeOK, Swept, Failures, Old

LEMMA SignInFailures ==
  ASSUME TypeOK, Attributed, FailuresBounded, [Next]_vars PROVE FailuresBounded'
<1>1. TypeOK'
  BY SignInTypes
<1>2. CASE Tick
  BY <1>1, <1>2, NoMoreFailures DEF Tick, TypeOK, InProgress
<1>3. ASSUME NEW h \in Host, NEW a \in Attempt, NEW n \in Name, Admit(a, h, n)
      PROVE  FailuresBounded'
  <2> SUFFICES ASSUME NEW k \in Host
               PROVE  count'[k] + Cardinality(InProgress(k)') < Limit + Cardinality(Attempt)
    BY DEF FailuresBounded
  <2>1. /\ Cardinality(Attempt) \in Nat /\ Cardinality(InProgress(k)') \in Nat
        /\ Cardinality(InProgress(k)') <= Cardinality(Attempt)
    BY FiniteAssumption, Fewer DEF InProgress
  <2>2. Swept(h) /\ Failures(h) < Limit /\ count'[k] \in Nat /\ count[k] \in Nat
    BY <1>1, <1>3 DEF Admit, TypeOK
  <2>3. CASE k = h
    <3>1. count'[k] < Limit
      BY <2>2, <2>3, SweptCounts
    <3> QED BY <3>1, <2>1, <2>2, LimitAssumption
  <2>4. CASE k # h
    <3>1. InProgress(k)' = InProgress(k)
      BY <1>3, <2>4 DEF Admit, Arrive, InProgress, TypeOK
    <3>2. count'[k] <= count[k]
      BY <2>2, SweptCounts
    <3> QED BY <3>1, <3>2, <2>1, <2>2, LimitAssumption DEF FailuresBounded
  <2> QED BY <2>3, <2>4
<1>4. ASSUME NEW h \in Host, NEW a \in Attempt, Refuse(a, h) PROVE FailuresBounded'
  <2>1. Swept(h) /\ UNCHANGED <<pc, host>>
    BY <1>4 DEF Refuse
  <2>2. \A k \in Host : InProgress(k)' = InProgress(k)
    BY <2>1 DEF InProgress
  <2> QED BY <1>1, <2>1, <2>2, SweptCounts, NoMoreFailures
<1>5. ASSUME NEW h \in Host, NEW a \in Attempt, RefuseBusy(a, h) PROVE FailuresBounded'
  BY <1>1, <1>5, NoMoreFailures DEF RefuseBusy, rateVars, TypeOK, InProgress
<1>6. ASSUME NEW a \in Attempt, Reject(a) PROVE FailuresBounded'
  <2> SUFFICES ASSUME NEW k \in Host
               PROVE  count'[k] + Cardinality(InProgress(k)') < Limit + Cardinality(Attempt)
    BY DEF FailuresBounded
  <2>1. host[a] \in Host /\ a \in InProgress(host[a])
    BY <1>6 DEF Reject, Attributed, InProgress
  <2>2. /\ IsFiniteSet(InProgress(k)) /\ Cardinality(InProgress(k)) \in Nat
        /\ Cardinality(InProgress(k)') \in Nat /\ Cardinality(Attempt) \in Nat
    BY FiniteAssumption, Fewer DEF InProgress
  <2>3. count[k] \in Nat /\ count[k] + Cardinality(InProgress(k)) < Limit + Cardinality(Attempt)
    BY DEF TypeOK, FailuresBounded
  <2>4. InProgress(k)' \subseteq InProgress(k) \ {a}
    BY <1>6 DEF Reject, End, InProgress, TypeOK
  <2>5. CASE k = host[a]
    <3>1. count'[k] = count[k] + 1
      BY <1>6, <2>1, <2>5 DEF Reject, Counted, TypeOK
    <3>2. /\ IsFiniteSet(InProgress(k) \ {a})
          /\ Cardinality(InProgress(k) \ {a}) = Cardinality(InProgress(k)) - 1
      BY <2>1, <2>2, <2>5, FS_RemoveElement
    <3>3. Cardinality(InProgress(k)') <= Cardinality(InProgress(k)) - 1
      BY <2>4, <3>2, Fewer
    <3> QED BY <2>2, <2>3, <3>1, <3>3, LimitAssumption
  <2>6. CASE k # host[a]
    <3>1. count'[k] = count[k]
      BY <1>6, <2>1, <2>6 DEF Reject, Counted, TypeOK
    <3>2. Cardinality(InProgress(k)') <= Cardinality(InProgress(k))
      BY <2>2, <2>4, Fewer
    <3> QED BY <2>2, <2>3, <3>1, <3>2, LimitAssumption
  <2> QED BY <2>5, <2>6
<1>7. ASSUME NEW a \in Attempt, Proceed(a) \/ Breaks(a), ~Reject(a) PROVE FailuresBounded'
  <2>1. UNCHANGED count
    BY <1>7 DEF Proceed, Login, InsertUser, InsertNamespace, Commit, GetToken, Breaks, rateVars
  <2>2. \A h \in Host : InProgress(h)' \subseteq InProgress(h)
    <3> USE DEF TypeOK, Goto, End, InProgress
    <3>1. CASE Login(a) BY <3>1 DEF Login
    <3>2. CASE InsertUser(a) BY <3>2 DEF InsertUser
    <3>3. CASE InsertNamespace(a) BY <3>3 DEF InsertNamespace
    <3>4. CASE Commit(a) BY <3>4 DEF Commit
    <3>5. CASE GetToken(a) BY <3>5 DEF GetToken
    <3>6. CASE Breaks(a) BY <3>6 DEF Breaks
    <3> QED BY <1>7, <3>1, <3>2, <3>3, <3>4, <3>5, <3>6 DEF Proceed
  <2> QED BY <1>1, <2>1, <2>2, NoMoreFailures DEF TypeOK
<1>8. ASSUME NEW a \in Attempt, NEW n \in Name, InsertOrganization(a, n) PROVE FailuresBounded'
  BY <1>1, <1>8, NoMoreFailures DEF InsertOrganization, rateVars, TypeOK, InProgress
<1>9. CASE UNCHANGED vars
  BY <1>1, <1>9, NoMoreFailures DEF vars, rateVars, TypeOK, InProgress
<1> QED BY <1>2, <1>3, <1>4, <1>5, <1>6, <1>7, <1>8, <1>9 DEF Next, Check, Proceed

-----------------------------------------------------------------------------
(* The table of hosts.                                                      *)

LEMMA Covered ==
  ASSUME TypeOK
  PROVE  /\ IsFiniteSet(known \cup Of(Counting, host))
         /\ TableCovered => Cardinality(known \cup Of(Counting, host)) < TableSize + Cardinality(Attempt)
<1>1. known \in SUBSET Host /\ Counting \in SUBSET Attempt
  BY DEF TypeOK, Counting
<1>2. IsFiniteSet(known \cup Of(Counting, host))
  BY <1>1, TableAndHosts
<1>3. Of(Counting, host) = {host[a] : a \in Counting}
  BY DEF Of
<1> QED BY <1>2, <1>3 DEF TableCovered

\* A step after which nobody is in the table, or may get there by failing, who
\* was not before.
LEMMA NobodyNew ==
  ASSUME TypeOK, TableCovered,
         known' \subseteq known \cup {host[a] : a \in Counting},
         \A a \in Counting' : host'[a] \in known \cup {host[b] : b \in Counting}
  PROVE  TableCovered'
<1> DEFINE W == known \cup Of(Counting, host)
           V == known' \cup Of(Counting', host')
<1>1. IsFiniteSet(W)
  BY Covered
<1>2. V \subseteq W
  BY DEF Of
<1>3. Cardinality(V) \in Nat /\ Cardinality(W) \in Nat /\ Cardinality(V) <= Cardinality(W)
  BY <1>1, <1>2, Fewer
<1>4. Cardinality(Attempt) \in Nat
  BY FiniteAssumption, FS_CardinalityType
<1>5. Cardinality(V) < TableSize + Cardinality(Attempt)
  <2>1. Cardinality(W) < TableSize + Cardinality(Attempt)
    BY Covered
  <2> HIDE DEF V, W
  <2> QED BY <2>1, <1>3, <1>4, LimitAssumption
<1> QED BY <1>5 DEF TableCovered, Of

\* rate() lets a host into the table only if there is room: the entries and the
\* attempts other than the one it looks at are fewer than TableSize + |Attempt|.
LEMMA RoomForOneMore ==
  ASSUME TypeOK, NEW h \in Host, NEW a \in Attempt,
         Cardinality(Kept) < TableSize, known' = Kept \cup {h},
         \A b \in Counting' : host'[b] = h \/ (b \in Counting \ {a} /\ host'[b] = host[b])
  PROVE  TableCovered'
<1> DEFINE K == Kept \cup {h}
           S == Counting \ {a}
           W == K \cup Of(S, host)
           V == known' \cup Of(Counting', host')
<1>1. Kept \in SUBSET Host /\ K \in SUBSET Host
  BY DEF Kept, TypeOK
<1>2. IsFiniteSet(Kept) /\ Cardinality(Kept) \in Nat
  BY <1>1, FiniteAssumption, Fewer
<1>3. Cardinality(K) \in Nat /\ Cardinality(K) <= TableSize
  <2>1. Cardinality(K) = Cardinality(Kept) \/ Cardinality(K) = Cardinality(Kept) + 1
    BY <1>2, FS_AddElement
  <2> QED BY <1>2, <2>1, LimitAssumption
<1>4. /\ S \in SUBSET (Attempt \ {a}) /\ S \in SUBSET Attempt
      /\ Cardinality(S) \in Nat /\ Cardinality(Attempt) \in Nat
      /\ Cardinality(S) < Cardinality(Attempt)
  <2>1. S \in SUBSET (Attempt \ {a}) /\ S \in SUBSET Attempt
    BY DEF Counting
  <2> QED BY <2>1, OthersAreFewer
<1>5. /\ IsFiniteSet(W) /\ Cardinality(W) \in Nat
      /\ Cardinality(W) <= Cardinality(K) + Cardinality(S)
  BY <1>1, <1>4, TableAndHosts
<1>6. V \subseteq W
  BY DEF Of
<1>7. Cardinality(V) \in Nat /\ Cardinality(V) <= Cardinality(W)
  BY <1>5, <1>6, Fewer
<1> HIDE DEF K, S, W
<1>8. Cardinality(V) < TableSize + Cardinality(Attempt)
  <2> HIDE DEF V
  <2> QED BY <1>3, <1>4, <1>5, <1>7, LimitAssumption
<1> QED BY <1>8 DEF TableCovered, Of

LEMMA SignInTable ==
  ASSUME TypeOK, Attributed, TableCovered, [Next]_vars PROVE TableCovered'
<1> USE DEF TypeOK, Goto, End, Counting, nameVars, rateVars
<1>1. CASE Tick
  BY <1>1, NobodyNew DEF Tick
<1>2. ASSUME NEW h \in Host, NEW a \in Attempt, NEW n \in Name, Admit(a, h, n)
      PROVE  TableCovered'
  <2>1. \A b \in Counting' : host'[b] = h \/ (b \in Counting \ {a} /\ host'[b] = host[b])
    BY <1>2 DEF Admit, Arrive
  <2> QED BY <1>2, <2>1, RoomForOneMore DEF Admit, Swept
<1>3. ASSUME NEW h \in Host, NEW a \in Attempt, Refuse(a, h) PROVE TableCovered'
  <2>1. \A b \in Counting' : host'[b] = h \/ (b \in Counting \ {a} /\ host'[b] = host[b])
    BY <1>3 DEF Refuse
  <2> QED BY <1>3, <2>1, RoomForOneMore DEF Refuse, Swept
<1>4. ASSUME NEW h \in Host, NEW a \in Attempt, RefuseBusy(a, h) PROVE TableCovered'
  BY <1>4, NobodyNew DEF RefuseBusy
<1>5. ASSUME NEW a \in Attempt, NEW n \in Name, InsertOrganization(a, n) PROVE TableCovered'
  BY <1>5, NobodyNew DEF InsertOrganization
<1>6. ASSUME NEW a \in Attempt, Proceed(a) \/ Breaks(a) PROVE TableCovered'
  <2>1. known' \subseteq known \cup {host[b] : b \in Counting}
    BY <1>6 DEF Proceed, Reject, Counted, Login, InsertUser, InsertNamespace, Commit,
                GetToken, Breaks
  <2>2. \A b \in Counting' : b \in Counting /\ host'[b] = host[b]
    <3>1. CASE Reject(a) BY <3>1 DEF Reject
    <3>2. CASE Login(a) BY <3>2 DEF Login
    <3>3. CASE InsertUser(a) BY <3>3 DEF InsertUser
    <3>4. CASE InsertNamespace(a) BY <3>4 DEF InsertNamespace
    <3>5. CASE Commit(a) BY <3>5 DEF Commit
    <3>6. CASE GetToken(a) BY <3>6 DEF GetToken
    <3>7. CASE Breaks(a) BY <3>7 DEF Breaks
    <3> QED BY <1>6, <3>1, <3>2, <3>3, <3>4, <3>5, <3>6, <3>7 DEF Proceed
  <2> QED BY <2>1, <2>2, NobodyNew
<1>7. CASE UNCHANGED vars
  BY <1>7, NobodyNew DEF vars
<1> QED BY <1>1, <1>2, <1>3, <1>4, <1>5, <1>6, <1>7 DEF Next, Check

-----------------------------------------------------------------------------
(* Accounts and namespaces.                                                 *)

\* Only a commit changes what is there, and for the rows of its transaction; whoever
\* else holds rows has other names.
LEMMA SignInKeys ==
  ASSUME TypeOK, Attributed, Keys, AccountIsWhole, [Next]_vars
  PROVE  Keys' /\ AccountIsWhole'
<1> USE DEF TypeOK, Attributed, Keys, Fresh, AccountIsWhole, Goto, End, nameVars, rateVars
<1>1. CASE Tick
  BY <1>1 DEF Tick
<1>2. ASSUME NEW h \in Host, Check(h) PROVE Keys' /\ AccountIsWhole'
  BY <1>2 DEF Check, Admit, Arrive, Refuse, RefuseBusy
<1>3. ASSUME NEW a \in Attempt, NEW n \in Name, InsertOrganization(a, n)
      PROVE  Keys' /\ AccountIsWhole'
  BY <1>3 DEF InsertOrganization, Inserting
<1>4. ASSUME NEW a \in Attempt, Proceed(a) PROVE Keys' /\ AccountIsWhole'
  <2>1. CASE Reject(a) BY <2>1 DEF Reject
  <2>2. CASE Login(a) BY <2>2 DEF Login
  <2>3. CASE InsertUser(a) BY <2>3 DEF InsertUser, Inserting
  <2>4. CASE InsertNamespace(a) BY <2>4 DEF InsertNamespace, Inserting
  <2>5. CASE Commit(a)
    <3>1. AccountIsWhole'
      BY <2>5 DEF Commit
    <3>2. Keys'
      BY <2>5 DEF Commit
    <3> QED BY <3>1, <3>2
  <2>6. CASE GetToken(a) BY <2>6 DEF GetToken
  <2> QED BY <1>4, <2>1, <2>2, <2>3, <2>4, <2>5, <2>6 DEF Proceed
<1>5. ASSUME NEW a \in Attempt, Breaks(a) PROVE Keys' /\ AccountIsWhole'
  BY <1>5 DEF Breaks
<1>6. CASE UNCHANGED vars
  BY <1>6 DEF vars
<1> QED BY <1>1, <1>2, <1>3, <1>4, <1>5, <1>6 DEF Next

-----------------------------------------------------------------------------
(* The theorems.                                                            *)

LEMMA SignInStarts == ASSUME Init PROVE SignInInv
<1> USE DEF Init
<1>1. TypeOK /\ Attributed /\ Keys /\ AccountIsWhole
  BY LimitAssumption DEF TypeOK, Attributed, Keys, Fresh, AccountIsWhole, Step, Old
<1>2. Counting = {} /\ \A h \in Host : InProgress(h) = {}
  BY DEF Counting, InProgress
<1>3. Cardinality({}) = 0 /\ Cardinality(Attempt) \in Nat
  BY FS_EmptySet, FiniteAssumption, FS_CardinalityType
<1>4. FailuresBounded
  <2> SUFFICES ASSUME NEW h \in Host
               PROVE  count[h] + Cardinality(InProgress(h)) < Limit + Cardinality(Attempt)
    BY DEF FailuresBounded
  <2>1. count[h] = 0 /\ Cardinality(InProgress(h)) = 0
    BY <1>2, <1>3
  <2> QED BY <1>3, <2>1, LimitAssumption
<1>5. known \cup Of(Counting, host) = {}
  BY <1>2 DEF Of
<1>6. TableCovered
  <2>1. Cardinality(known \cup Of(Counting, host)) = 0
    BY <1>3, <1>5
  <2>2. Cardinality(known \cup Of(Counting, host)) < TableSize + Cardinality(Attempt)
    BY <1>3, <2>1, LimitAssumption
  <2> QED BY <2>2 DEF TableCovered, Of
<1> QED BY <1>1, <1>4, <1>6 DEF SignInInv

\* The inductive invariant of sign-in: types, who is counted for whom, the two
\* bounds of the limiter, and the keys of rows that are not committed.
THEOREM SignInCorrect == Spec => []SignInInv
<1>1. Init => SignInInv
  BY SignInStarts
<1>2. SignInInv /\ [Next]_vars => SignInInv'
  BY SignInTypes, SignInFailures, SignInTable, SignInKeys DEF SignInInv
<1> QED BY <1>1, <1>2, PTL DEF Spec

\* Attempts that rate() admits before any of them has failed exceed the limit of
\* authAttempt() by less than their number.
THEOREM LimitIsKept == Spec => []FailuresBounded
BY SignInCorrect, PTL DEF SignInInv

\* The table that rate() sweeps and authAttempt() adds to without looking stays
\* bounded.
THEOREM TableIsBounded == Spec => []TableBounded
<1>1. SignInInv => TableBounded
  <2> SUFFICES ASSUME SignInInv PROVE TableBounded
    OBVIOUS
  <2> DEFINE W == known \cup Of(Counting, host)
  <2>1. IsFiniteSet(W) /\ Cardinality(W) < TableSize + Cardinality(Attempt)
    BY Covered DEF SignInInv
  <2>2. Cardinality(known) \in Nat /\ Cardinality(W) \in Nat
        /\ Cardinality(known) <= Cardinality(W)
    BY <2>1, Fewer
  <2>3. Cardinality(Attempt) \in Nat
    BY FiniteAssumption, FS_CardinalityType
  <2> HIDE DEF W
  <2> QED BY <2>1, <2>2, <2>3, LimitAssumption DEF TableBounded
<1> QED BY <1>1, SignInCorrect, PTL

\* Registrations and new organizations that want one name at once, and break off
\* anywhere, leave accounts and namespaces whole.
THEOREM AccountsAreWhole == Spec => []AccountIsWhole
BY SignInCorrect, PTL DEF SignInInv
=============================================================================
