----------------------------- MODULE OwnedObject -----------------------------
(***************************************************************************)
(* What a command that creates an object promises about it, whatever the   *)
(* object is: it creates one at most, waits for it, and if it gives up it  *)
(* sees to it that the object goes, or says that it has not.  Others may   *)
(* delete the object at any time; nobody brings it back.                   *)
(***************************************************************************)
CONSTANT Runs

VARIABLES
  stage,  \* how far a run has got
  lives   \* the object that it has created is there, and not being deleted

vars == <<stage, lives>>

Init ==
  /\ stage = [r \in Runs |-> "before"]
  /\ lives = [r \in Runs |-> FALSE]

Goes(r, from, to) == stage[r] = from /\ stage' = [stage EXCEPT ![r] = to]

Create(r) ==
  /\ Goes(r, "before", "waiting")
  /\ lives' = [lives EXCEPT ![r] = TRUE]

\* The run does not know what its only attempt has done.
Refuse(r) ==
  /\ Goes(r, "before", "refused")
  /\ lives' \in {lives, [lives EXCEPT ![r] = TRUE]}

Succeed(r) == Goes(r, "waiting", "succeeded") /\ UNCHANGED lives

GiveUp(r) == Goes(r, "waiting", "undoing") /\ UNCHANGED lives

\* Objects are deleted by name: that of another run may go as well.
Undo(r) ==
  /\ Goes(r, "undoing", "undone")
  /\ lives' \in [Runs -> BOOLEAN]
  /\ ~lives'[r] /\ \A q \in Runs : lives'[q] => lives[q]

\* The run fails, and does not say that the object is gone.
Leave(r) == Goes(r, "undoing", "left") /\ UNCHANGED lives

OthersDelete ==
  /\ lives' \in [Runs -> BOOLEAN]
  /\ \A q \in Runs : lives'[q] => lives[q]
  /\ UNCHANGED stage

Next ==
  \/ \E r \in Runs : Create(r) \/ Refuse(r) \/ Succeed(r) \/ GiveUp(r) \/ Undo(r) \/ Leave(r)
  \/ OthersDelete

Spec == Init /\ [][Next]_vars
=============================================================================
