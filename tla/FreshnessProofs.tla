--------------------------- MODULE FreshnessProofs ---------------------------
(***************************************************************************)
(* PATCH requests are serial on the settings row and on HEAD, for any      *)
(* number of requests, visitors and branches.                              *)
(***************************************************************************)
EXTENDS Freshness, TLAPS

LEMMA ViewShape ==
  ASSUME NEW u \in View
  PROVE  /\ u.branch \in Branch /\ u.oid \in Oid \cup {NoOid} /\ u.stamp \in Time
         /\ \A oid \in Oid \cup {NoOid} : [u EXCEPT !.oid = oid] \in View
         /\ \A t \in Time : [u EXCEPT !.stamp = t] \in View
BY DEF View

LEMMA RowDefault ==
  ASSUME NEW u \in Row, NEW b \in Branch
  PROVE  /\ [u EXCEPT !.default = b] \in Row
         /\ [u EXCEPT !.default = b].default = b
BY DEF Row

\* No request of one kind does the other kind's work.
LEMMA Apart == ASSUME NEW v \in Visitor, NEW a \in Admin PROVE v # a /\ a # Nobody
BY RequestAssumption

LEMMA PatchInit == Init => PatchInv
BY BoundAssumption, RequestAssumption
DEF Init, PatchInv, TypeOK, Row, Time, Oid, NoOid, NoView, Step

LEMMA PatchStep == ASSUME PatchInv, [Next]_vars PROVE PatchInv'
<1> USE DEF PatchInv, TypeOK, Step, gitVars, patchVars, Goto
<1>1. ASSUME NEW b \in Branch, Push(b) \/ Delete(b) PROVE PatchInv'
  <2>1. clock' \in Time /\ tip' \in [Branch -> Oid \cup {NoOid}]
    BY <1>1, BoundAssumption DEF Push, Delete, Time, Oid, NoOid
  <2> QED BY <1>1, <2>1 DEF Push, Delete
<1>2. ASSUME NEW v \in Visitor, Visit(v) PROVE PatchInv'
  <2>1. [branch |-> row.default, oid |-> NoOid, stamp |-> 0] \in View
    BY BoundAssumption DEF View, Row, Time
  <2> QED BY <1>2, <2>1, Apart DEF Visit
<1>3. ASSUME NEW v \in Visitor, ReadTip(v) PROVE PatchInv'
  <2>1. view[v] \in View
    BY <1>3 DEF ReadTip
  <2>2. [view[v] EXCEPT !.oid = tip[view[v].branch]] \in View
    BY <2>1, ViewShape
  <2> QED BY <1>3, <2>2, Apart DEF ReadTip
<1>4. ASSUME NEW v \in Visitor, Compare(v) PROVE PatchInv'
  <2>1. view[v] \in View
    BY <1>4 DEF Compare
  <2>2. [view[v] EXCEPT !.stamp = clock] \in View
    BY <2>1, ViewShape
  <2> QED BY <1>4, <2>2, Apart DEF Compare
<1>5. ASSUME NEW v \in Visitor, Leave(v) PROVE PatchInv'
  BY <1>5, Apart DEF Leave
<1>6. ASSUME NEW v \in Visitor, Update(v) PROVE PatchInv'
  <2>1. view[v] \in View
    BY <1>6 DEF Update
  <2>2. view[v].oid \in Oid \cup {NoOid} /\ view[v].stamp \in Time /\ row \in Row
    BY <2>1, ViewShape
  <2>3. /\ [row EXCEPT !.oid = view[v].oid, !.updated = view[v].stamp] \in Row
        /\ [row EXCEPT !.oid = view[v].oid, !.updated = view[v].stamp].default = row.default
    BY <2>2 DEF Row
  <2>4. row' \in Row /\ row'.default = row.default
    BY <1>6, <2>2, <2>3 DEF Update
  <2> QED BY <1>6, <2>4, Apart DEF Update
<1>7. ASSUME NEW a \in Admin, NEW b \in Branch \cup {NoBranch}, Patch(a, b) PROVE PatchInv'
  BY <1>7, Apart, RequestAssumption DEF Patch
<1>8. ASSUME NEW a \in Admin, MoveHead(a) PROVE PatchInv'
  <2>1. copy[a] \in Row /\ want[a] \in Branch /\ lock = a
    BY <1>8 DEF MoveHead
  <2>2. /\ [copy[a] EXCEPT !.default = want[a]] \in Row
        /\ [copy[a] EXCEPT !.default = want[a]].default = want[a]
    BY <2>1, RowDefault
  <2> QED BY <1>8, <2>1, <2>2, Apart, NoBranchAssumption DEF MoveHead
<1>9. ASSUME NEW a \in Admin, NEW oid \in Oid \cup {NoOid}, Resolve(a, oid) PROVE PatchInv'
  <2>1. copy[a] \in Row /\ lock = a /\ want[a] # NoBranch /\ copy[a].default = want[a]
    BY <1>9 DEF Resolve
  <2>2. /\ [copy[a] EXCEPT !.oid = oid, !.updated = clock] \in Row
        /\ [copy[a] EXCEPT !.oid = oid, !.updated = clock].default = want[a]
    BY <2>1 DEF Row
  <2> QED BY <1>9, <2>1, <2>2, Apart DEF Resolve
<1>10. ASSUME NEW a \in Admin, Save(a) \/ PatchFails(a) PROVE PatchInv'
  <2>1. lock = a /\ copy[a] \in Row
    BY <1>10 DEF Save, PatchFails
  <2>2. \A c \in Admin : c # a => pc[c] = "idle"
    BY <2>1
  <2> QED BY <1>10, <2>1, <2>2, Apart DEF Save, PatchFails, Release
<1>11. CASE UNCHANGED vars
  BY <1>11 DEF vars
<1> QED
  BY <1>1, <1>2, <1>3, <1>4, <1>5, <1>6, <1>7, <1>8, <1>9, <1>10, <1>11
  DEF Next, Refresh, Settings

\* PATCH requests are serial, whatever visitors and pushes do meanwhile.
THEOREM PatchIsSerial == Spec => []PatchInv
<1>1. PatchInv /\ [Next]_vars => PatchInv'
  BY PatchStep
<1> QED BY PatchInit, <1>1, PTL DEF Spec

LEMMA SavesIsSave ==
  ASSUME PatchInv, [Next]_vars, NEW a \in Admin, Saves(a)
  PROVE  row' = copy[a] /\ head' = head
<1> USE DEF Saves, PatchInv, TypeOK, gitVars, patchVars, Goto
<1>1. lock = a /\ \A c \in Admin : pc[c] # "idle" => c = a
  OBVIOUS
<1>2. ASSUME NEW v \in Visitor, Refresh(v) PROVE FALSE
  BY <1>2, Apart DEF Refresh, Visit, ReadTip, Compare, Leave, Update
<1>3. ASSUME NEW c \in Admin, Settings(c) PROVE Save(a)
  <2>1. c = a
    BY <1>1, <1>3, Apart DEF Settings, Patch, MoveHead, Resolve, Save, PatchFails, Release
  <2> QED
    BY <1>3, <2>1 DEF Settings, Patch, MoveHead, Resolve, Save, PatchFails, Release
<1> QED
  BY <1>2, <1>3 DEF Next, Push, Delete, Save, vars

\* A PATCH that does not name the default branch leaves it alone.
THEOREM DefaultIsKept == Spec => OthersDefaultIsKept
<1> DEFINE Kept == \A a \in Admin : Saves(a) /\ want[a] = NoBranch => row'.default = row.default
<1>1. PatchInv /\ [Next]_vars => [Kept]_vars
  BY SavesIsSave DEF PatchInv, Saves
<1> QED BY PatchIsSerial, <1>1, PTL DEF Spec, OthersDefaultIsKept

\* A PATCH that changed the default branch has moved HEAD to it.
THEOREM HeadIsDefault == Spec => HeadFollowsDefault
<1> DEFINE Follows == \A a \in Admin : Saves(a) /\ want[a] # NoBranch => head' = row'.default
<1>1. PatchInv /\ [Next]_vars => [Follows]_vars
  BY SavesIsSave DEF PatchInv, Saves
<1> QED BY PatchIsSerial, <1>1, PTL DEF Spec, HeadFollowsDefault
=============================================================================
