---------------------------- MODULE ReviewedMerge ----------------------------
(***************************************************************************)
(* What merging a pull request promises its users, with no marker, lock,   *)
(* database or failure in sight: commits are never rewritten, a pull is    *)
(* open or closed until one indivisible step merges it, that step moves    *)
(* exactly its base branch, to a commit containing the base and the head   *)
(* as they are at that moment, and a merged pull never changes again.      *)
(* PullMerge.tla implements this (PullMerge!Abstract).                     *)
(***************************************************************************)
EXTENDS Integers

CONSTANTS Pull, Branch, Oid, NoOid

VARIABLES
  lineage,   \* lineage[c]: the commits c contains; {} while c is unwritten
  tip,       \* tip[b]: where branch b points
  pulls      \* pulls[p]: [status, base, head, result]

avars == <<lineage, tip, pulls>>

NotOpened == [status |-> "absent"]

Contains(c) == IF c = NoOid THEN {} ELSE lineage[c]

AInit ==
  /\ lineage = [c \in Oid |-> {}]
  /\ tip = [b \in Branch |-> NoOid]
  /\ pulls = [p \in Pull |-> NotOpened]

\* Commits appear; none changes.
Grow == \A c \in Oid : lineage[c] # {} => lineage'[c] = lineage[c]

\* Somebody opens a pull.
Open(p, b, d) ==
  /\ pulls[p].status = "absent" /\ b # d
  /\ tip[b] # NoOid /\ tip[d] # NoOid
  /\ pulls' = [pulls EXCEPT ![p] = [status |-> "open", base |-> b, head |-> d,
                                    result |-> NoOid]]
  /\ UNCHANGED <<lineage, tip>>

\* Its author closes or reopens it.
Toggle(p, s) ==
  /\ pulls[p].status \in {"open", "closed"}
  /\ pulls' = [pulls EXCEPT ![p] = [status |-> s, base |-> pulls[p].base,
                                    head |-> pulls[p].head, result |-> NoOid]]
  /\ UNCHANGED <<lineage, tip>>

\* The merge, all at once.
MergeAtomically(p, c) ==
  LET b == pulls[p].base
      d == pulls[p].head
  IN /\ pulls[p].status = "open"
     /\ tip[b] # NoOid /\ tip[d] # NoOid
     /\ Contains(tip[b]) \cup Contains(tip[d]) \cup {c} \subseteq Contains(c)
     /\ tip' = [tip EXCEPT ![b] = c]
     /\ pulls' = [pulls EXCEPT ![p] = [status |-> "merged", base |-> b, head |-> d,
                                       result |-> c]]
     /\ UNCHANGED lineage

\* Pushes move one branch; a merge being prepared writes a commit.
Push(b) ==
  /\ Grow
  /\ \E c \in Oid \cup {NoOid} : tip' = [tip EXCEPT ![b] = c]
  /\ UNCHANGED pulls

WriteCommit == Grow /\ UNCHANGED <<tip, pulls>>

ANext ==
  \/ WriteCommit
  \/ \E b \in Branch : Push(b)
  \/ \E p \in Pull :
       \/ \E b, d \in Branch : Open(p, b, d)
       \/ \E s \in {"open", "closed"} : Toggle(p, s)
       \/ \E c \in Oid : MergeAtomically(p, c)

ASpec == AInit /\ [][ANext]_avars
=============================================================================
