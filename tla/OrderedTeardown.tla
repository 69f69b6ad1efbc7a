--------------------------- MODULE OrderedTeardown ---------------------------
(***************************************************************************)
(* What an uninstall promises about order, whatever it deletes and however *)
(* it goes about it: the teardown goes through stages, only forwards; in   *)
(* each stage it deletes objects that belong to that stage, and it enters  *)
(* the next stage only when it has seen every one of them gone.  The       *)
(* cluster changes at any time, as it likes.                               *)
(***************************************************************************)
EXTENDS Naturals

CONSTANTS
  Objects,  \* what the cluster may hold
  Stages,   \* the stages of a teardown and, before them, its start
  First,    \* the start
  Rank      \* the order of the stages, a natural number for each

VARIABLES
  live,     \* objects in the cluster
  stage,    \* the current stage
  left,     \* objects of this stage that have not been seen gone
  deleted   \* objects that were deleted

vars == <<live, stage, left, deleted>>

Init ==
  /\ live \subseteq Objects
  /\ stage = First /\ left = {} /\ deleted = {}

\* A teardown starts, or starts again, with nothing deleted.
Begin ==
  /\ stage' = First /\ left' = {} /\ deleted' = {}
  /\ UNCHANGED live

\* The next stage, which may be any later one.
Enter ==
  /\ left = {}
  /\ stage' \in Stages /\ Rank[stage'] > Rank[stage]
  /\ left' \subseteq Objects
  /\ UNCHANGED <<live, deleted>>

Delete ==
  /\ \E o \in left \cap live : deleted' = deleted \cup {o}
  /\ UNCHANGED <<live, stage, left>>

SeeGone ==
  /\ \E o \in left \ live : left' = left \ {o}
  /\ UNCHANGED <<live, stage, deleted>>

Environment ==
  /\ live' \subseteq Objects
  /\ UNCHANGED <<stage, left, deleted>>

Next == Begin \/ Enter \/ Delete \/ SeeGone \/ Environment

Spec == Init /\ [][Next]_vars
=============================================================================
