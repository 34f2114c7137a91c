--------------------------- MODULE PushGateProofs ---------------------------
(***************************************************************************)
(* The default branch is protected for any number of pushes, branches and  *)
(* commits, as long as no push in flight was admitted under other settings *)
(* than the current ones.                                                  *)
(***************************************************************************)
EXTENDS PushGate, TLAPS

ShapeOK ==
  /\ TypeOK
  /\ \A p \in Push : stage[p] # "idle" => update[p] \in Update

\* A push that asks for an update that type-checks keeps the table of updates
\* well typed.
LEMMA UpdateShape ==
  ASSUME NEW b \in Branch, NEW old \in Oid \cup {NoOid}, NEW new \in Oid \cup {NoOid}
  PROVE  [ref |-> b, old |-> old, new |-> new, seen |-> NoSettings] \in Update
BY DEF Update

LEMMA SeenShape ==
  ASSUME NEW u \in Update, NEW s \in Settings
  PROVE  /\ [u EXCEPT !.seen = s] \in Update
         /\ [u EXCEPT !.seen = s].seen = s
         /\ [u EXCEPT !.seen = s].ref = u.ref
         /\ [u EXCEPT !.seen = s].old = u.old
         /\ [u EXCEPT !.seen = s].new = u.new
BY DEF Update

LEMMA SettingsShape ==
  ASSUME NEW s \in Settings
  PROVE  /\ \A b \in Branch : [s EXCEPT !.default = b] \in Settings
         /\ \A on \in BOOLEAN : [s EXCEPT !.review = on] \in Settings
BY DEF Settings

LEMMA ShapeStep == ASSUME ShapeOK, [Next]_vars PROVE ShapeOK'
<1> USE DEF ShapeOK, TypeOK, Stage
<1>1. ASSUME NEW p \in Push, NEW b \in Branch, NEW new \in Oid \cup {NoOid},
             Send(p, b, new)
      PROVE  ShapeOK'
  <2>1. [ref |-> b, old |-> refs[b], new |-> new, seen |-> NoSettings] \in Update
    BY UpdateShape
  <2> QED BY <1>1, <2>1 DEF Send
<1>2. ASSUME NEW p \in Push, Admit(p) PROVE ShapeOK'
  <2>1. update[p] \in Update
    BY <1>2 DEF Admit
  <2>2. [update[p] EXCEPT !.seen = settings] \in Update
    BY <2>1, SeenShape
  <2> QED BY <1>2, <2>2 DEF Admit
<1>3. ASSUME NEW p \in Push, Land(p) PROVE ShapeOK'
  <2>1. update[p] \in Update
    BY <1>3 DEF Land
  <2>2. update[p].new \in Oid \cup {NoOid} /\ update[p].ref \in Branch
    BY <2>1 DEF Update
  <2> QED BY <1>3, <2>2 DEF Land
<1>4. ASSUME NEW p \in Push, ReadHead(p) \/ Refuse(p) PROVE ShapeOK'
  BY <1>4 DEF ReadHead, Refuse
<1>5. ASSUME NEW c \in Oid, NEW parent \in Oid \cup {NoOid}, Commit(parent, c)
      PROVE  ShapeOK'
  BY <1>5 DEF Commit, Ancestry
<1>6. ASSUME NEW base \in Branch, NEW head \in Branch, NEW c \in Oid, Merge(base, head, c)
      PROVE  ShapeOK'
  BY <1>6 DEF Merge, Ancestry
<1>7. CASE WriteDefault \/ \E b \in Branch : MoveHead(b)
  BY <1>7, SettingsShape DEF MoveHead, WriteDefault
<1>8. ASSUME NEW on \in BOOLEAN, SetRequireReview(on) PROVE ShapeOK'
  BY <1>8, SettingsShape DEF SetRequireReview
<1>9. ASSUME NEW may \in BOOLEAN, SetWriter(may) PROVE ShapeOK'
  BY <1>9 DEF SetWriter
<1>10. CASE UNCHANGED vars
  BY <1>10 DEF vars
<1> QED
  BY <1>1, <1>2, <1>3, <1>4, <1>5, <1>6, <1>7, <1>8, <1>9, <1>10
  DEF Next, Transfer, Elsewhere

-----------------------------------------------------------------------------
\* Commits are written once.
LEMMA WrittenOnce ==
  ASSUME ShapeOK, [Next]_vars, NEW d \in Oid, history[d] # {}
  PROVE  history'[d] = history[d]
<1> USE DEF ShapeOK, TypeOK
<1>1. ASSUME NEW c \in Oid, NEW parent \in Oid \cup {NoOid}, Commit(parent, c)
      PROVE  history'[d] = history[d]
  BY <1>1 DEF Commit, IsNext, Written
<1>2. ASSUME NEW base \in Branch, NEW head \in Branch, NEW c \in Oid, Merge(base, head, c)
      PROVE  history'[d] = history[d]
  BY <1>2 DEF Merge, IsNext, Written
<1>3. ASSUME NEW p \in Push, Transfer(p) PROVE history'[d] = history[d]
  BY <1>3 DEF Transfer, Send, Admit, ReadHead, Land, Refuse
<1>4. CASE UNCHANGED history
  BY <1>4
<1> QED
  BY <1>1, <1>2, <1>3, <1>4
  DEF Next, Elsewhere, MoveHead, WriteDefault, SetRequireReview, SetWriter, vars

LEMMA StaysWritten ==
  ASSUME ShapeOK, [Next]_vars, NEW d \in Oid, Written(d)
  PROVE  Written(d)' /\ history'[d] = history[d]
BY WrittenOnce DEF Written

\* What an update names stays written while the update is unchanged.
LEMMA NamesStay ==
  ASSUME ShapeOK, Rooted, [Next]_vars, NEW q \in Push, stage[q] # "idle"
  PROVE  /\ update[q].old # NoOid => history'[update[q].old] # {}
         /\ update[q].new # NoOid => history'[update[q].new] # {}
<1>1. update[q].old \in Oid \cup {NoOid} /\ update[q].new \in Oid \cup {NoOid}
  BY DEF ShapeOK, Update
<1> QED BY <1>1, StaysWritten DEF Rooted, Written

LEMMA TipsStay ==
  ASSUME ShapeOK, Rooted, [Next]_vars, NEW b \in Branch, refs[b] # NoOid
  PROVE  history'[refs[b]] # {}
BY StaysWritten DEF ShapeOK, TypeOK, Rooted, Written

LEMMA RootedStep == ASSUME ShapeOK, Rooted, [Next]_vars PROVE Rooted'
<1> USE DEF Written
<1>1. ASSUME UNCHANGED <<refs, stage, update>> PROVE Rooted'
  BY <1>1, NamesStay, TipsStay DEF Rooted
<1>2. ASSUME NEW p \in Push, NEW b \in Branch, NEW new \in Oid \cup {NoOid},
             Send(p, b, new)
      PROVE  Rooted'
  BY <1>2 DEF Send, Rooted, ShapeOK, TypeOK
<1>3. ASSUME NEW p \in Push, Admit(p) PROVE Rooted'
  <2>1. update[p] \in Update
    BY <1>3 DEF Admit, ShapeOK
  <2>2. update'[p] = [update[p] EXCEPT !.seen = settings]
    BY <1>3 DEF Admit, ShapeOK, TypeOK
  <2>3. update'[p].old = update[p].old /\ update'[p].new = update[p].new
    BY <2>1, <2>2, SeenShape DEF ShapeOK, TypeOK
  <2>4. \A q \in Push : q # p => update'[q] = update[q] /\ stage'[q] = stage[q]
    BY <1>3 DEF Admit, ShapeOK, TypeOK
  <2>5. stage[p] # "idle" /\ UNCHANGED <<refs, history>>
    BY <1>3 DEF Admit
  <2> QED BY <2>3, <2>4, <2>5 DEF Rooted
<1>4. ASSUME NEW p \in Push, ReadHead(p) \/ Land(p) PROVE Rooted'
  BY <1>4 DEF ReadHead, Land, Rooted, ShapeOK, TypeOK
<1>5. ASSUME NEW p \in Push, Refuse(p) PROVE Rooted'
  BY <1>5 DEF Refuse, Rooted, ShapeOK, TypeOK
<1>6. ASSUME NEW base \in Branch, NEW head \in Branch, NEW c \in Oid, Merge(base, head, c)
      PROVE  Rooted'
  <2>1. history'[c] # {} /\ refs' = [refs EXCEPT ![base] = c]
    BY <1>6 DEF Merge, ShapeOK, TypeOK
  <2>2. \A b \in Branch : refs'[b] # NoOid => history'[refs'[b]] # {}
    BY <2>1, TipsStay DEF ShapeOK, TypeOK
  <2>3. UNCHANGED <<stage, update>>
    BY <1>6 DEF Merge
  <2> QED BY <2>2, <2>3, NamesStay DEF Rooted
<1> QED
  BY <1>1, <1>2, <1>3, <1>4, <1>5, <1>6
  DEF Next, Transfer, Elsewhere, Commit, MoveHead, WriteDefault, SetRequireReview, SetWriter,
      vars

-----------------------------------------------------------------------------
\* What was allowed stays allowed: ancestry between written commits is fixed.
LEMMA AdmittedStep == ASSUME ShapeOK, Rooted, Admitted, [Next]_vars PROVE Admitted'
<1> DEFINE InFlight == {"admitted", "checked"}
<1> SUFFICES ASSUME NEW q \in Push, stage'[q] \in InFlight
             PROVE  /\ update'[q].seen \in Settings
                    /\ Allowed(update[q].seen, update[q].ref, update[q].old, update[q].new)'
  BY DEF Admitted
<1>1. ASSUME stage[q] \in InFlight, update'[q] = update[q]
      PROVE  /\ update'[q].seen \in Settings
             /\ Allowed(update[q].seen, update[q].ref, update[q].old, update[q].new)'
  <2>1. update[q].old \in Oid \cup {NoOid} /\ update[q].new \in Oid \cup {NoOid}
    BY <1>1 DEF ShapeOK, Update
  <2>2. Allowed(update[q].seen, update[q].ref, update[q].old, update[q].new)'
    <3> DEFINE u == update[q]
    <3>1. Allowed(u.seen, u.ref, u.old, u.new)
      BY <1>1 DEF Admitted
    <3>2. /\ u.old # NoOid => history[u.old] # {} /\ history'[u.old] = history[u.old]
          /\ u.new # NoOid => history[u.new] # {} /\ history'[u.new] = history[u.new]
      BY <1>1, <2>1, WrittenOnce DEF Rooted, Written
    <3> QED BY <1>1, <3>1, <3>2 DEF Allowed, FastForward, Ancestry
  <2> QED BY <1>1, <2>2 DEF Admitted
<1>2. ASSUME NEW p \in Push, NEW b \in Branch, NEW new \in Oid \cup {NoOid},
             Send(p, b, new)
      PROVE  stage[q] \in InFlight /\ update'[q] = update[q]
  BY <1>2 DEF Send, ShapeOK, TypeOK
<1>3. ASSUME NEW p \in Push, ReadHead(p) \/ Land(p) \/ Refuse(p)
      PROVE  stage[q] \in InFlight /\ update'[q] = update[q]
  BY <1>3 DEF ReadHead, Land, Refuse, ShapeOK, TypeOK
<1>4. ASSUME NEW p \in Push, Admit(p), p # q
      PROVE  stage[q] \in InFlight /\ update'[q] = update[q]
  BY <1>4 DEF Admit, ShapeOK, TypeOK
<1>5. CASE Admit(q)
  <2>1. update[q] \in Update
    BY <1>5 DEF Admit, ShapeOK
  <2>2. update'[q] = [update[q] EXCEPT !.seen = settings] /\ UNCHANGED history
    BY <1>5 DEF Admit, ShapeOK, TypeOK
  <2>3. settings \in Settings
    BY DEF ShapeOK, TypeOK
  <2>4. /\ update'[q].seen = settings /\ update'[q].ref = update[q].ref
        /\ update'[q].old = update[q].old /\ update'[q].new = update[q].new
    BY <2>1, <2>2, <2>3, SeenShape
  <2>5. Allowed(settings, update[q].ref, update[q].old, update[q].new)
    BY <1>5 DEF Admit
  <2> QED BY <2>2, <2>3, <2>4, <2>5 DEF Allowed, FastForward, Ancestry
<1>6. CASE UNCHANGED <<stage, update>>
  BY <1>1, <1>6
<1> QED
  BY <1>1, <1>2, <1>3, <1>4, <1>5, <1>6
  DEF Next, Transfer, Elsewhere, Commit, Merge, MoveHead, WriteDefault, SetRequireReview,
      SetWriter, vars

LEMMA PushInit == Init => PushInv
<1> SUFFICES ASSUME Init PROVE PushInv
  OBVIOUS
<1>1. TypeOK
  BY DEF Init, TypeOK, Settings, Stage
<1>2. \A p \in Push : stage[p] = "idle"
  BY DEF Init
<1>3. \A b \in Branch : refs[b] = NoOid
  BY DEF Init
<1> QED BY <1>1, <1>2, <1>3 DEF PushInv, Rooted, Admitted

LEMMA PushStep == PushInv /\ [Next]_vars => PushInv'
<1> SUFFICES ASSUME PushInv, [Next]_vars PROVE PushInv'
  OBVIOUS
<1>1. ShapeOK /\ Rooted /\ Admitted
  BY DEF PushInv, ShapeOK
<1>2. ShapeOK' /\ Rooted' /\ Admitted'
  BY <1>1, ShapeStep, RootedStep, AdmittedStep
<1> QED BY <1>2 DEF PushInv, ShapeOK

\* At every moment, what the hook let through was allowed by the row it read,
\* whatever has landed, merged or been reconfigured since.
THEOREM PushCorrect == Spec => []PushInv
<1>1. Init => PushInv
  BY PushInit
<1>2. PushInv /\ [Next]_vars => PushInv'
  BY PushStep
<1> QED BY <1>1, <1>2, PTL DEF Spec

-----------------------------------------------------------------------------
LEMMA ProtectedStep == ASSUME PushInv, [Next]_vars, Settled PROVE Protected
<1> DEFINE b == settings.default
<1> SUFFICES ASSUME refs[b] # NoOid, refs'[b] # refs[b]
             PROVE  Kept(b) /\ (settings.review => refs'[b] \in merges')
  BY DEF Protected
<1>0. /\ ShapeOK /\ b \in Branch /\ refs[b] \in Oid
      /\ history[refs[b]] # {} /\ history'[refs[b]] = history[refs[b]]
  <2>1. ShapeOK /\ b \in Branch
    BY DEF PushInv, ShapeOK, TypeOK, Settings
  <2>2. refs[b] \in Oid
    BY <2>1 DEF ShapeOK, TypeOK
  <2> QED BY <2>1, <2>2, WrittenOnce DEF PushInv, Rooted, Written
<1>1. ASSUME NEW p \in Push, Land(p)
      PROVE  Kept(b) /\ (settings.review => refs'[b] \in merges')
  <2> DEFINE u == update[p]
  <2>1. u \in Update /\ u.seen = settings /\ UNCHANGED history
    BY <1>1 DEF Land, PushInv, Settled
  <2>2. u.ref = b /\ refs'[b] = u.new /\ u.old = refs[b]
    BY <1>0, <1>1, <2>1 DEF Land, Current, ShapeOK, TypeOK, Update
  <2>3. Allowed(settings, b, refs[b], refs'[b])
    BY <1>1, <2>1, <2>2 DEF Land, PushInv, Admitted
  <2>4. ~settings.review /\ FastForward(refs[b], refs'[b])
    BY <2>3 DEF Allowed
  <2> QED BY <1>0, <2>1, <2>4 DEF Kept, FastForward, Ancestry
<1>2. ASSUME NEW base \in Branch, NEW head \in Branch, NEW c \in Oid, Merge(base, head, c)
      PROVE  Kept(b) /\ (settings.review => refs'[b] \in merges')
  <2>1. base = b /\ refs'[b] = c /\ c \in merges'
    BY <1>0, <1>2 DEF Merge, ShapeOK, TypeOK
  <2>2. history'[c] = Ancestry(refs[b]) \cup Ancestry(refs[head]) \cup {c}
    BY <1>0, <1>2, <2>1 DEF Merge, ShapeOK, TypeOK
  <2>3. c # NoOid
    BY BoundAssumption DEF Oid, NoOid
  <2> QED BY <1>0, <2>1, <2>2, <2>3 DEF Kept, Ancestry
<1> QED
  BY <1>1, <1>2
  DEF Next, Transfer, Elsewhere, Send, Admit, ReadHead, Refuse, Commit, MoveHead,
      WriteDefault, SetRequireReview, SetWriter, vars

\* The default branch loses no commit and moves past no review, as long as no
\* push in flight was admitted under settings that have changed since.
THEOREM DefaultIsProtected == Spec => DefaultProtected
<1>1. PushInv /\ [Next]_vars => (Settled => Protected)
  BY ProtectedStep
<1>2. (Settled => Protected) => [Settled => Protected]_vars
  OBVIOUS
<1> QED BY PushCorrect, <1>1, PTL DEF Spec, DefaultProtected
=============================================================================
