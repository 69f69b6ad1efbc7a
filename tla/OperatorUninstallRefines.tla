---------------------- MODULE OperatorUninstallRefines ----------------------
(***************************************************************************)
(* The uninstall command implements OrderedTeardown: a stage is a phase,   *)
(* and what is left of it is what the running deleteObjects call waits for *)
(* together with what later rounds of the same loop will delete.           *)
(***************************************************************************)
EXTENDS OperatorUninstallProofs

USE DEF Fail, Goto, deleteObjects, BatchDone

\* What is left of the stage, as the abstract specification sees it.
Left == waiting \cup rest

\* The types of the abstract state are those of the concrete one.
LEMMA LeftType == ASSUME TypeOK PROVE Left \subseteq Objects
BY SubsetsOfKinds DEF Left, TypeOK, Objects

\* The initial states are initial states of the abstract specification.
LEMMA InitRefines == ASSUME Init PROVE Teardown!Init
BY InitIInv DEF Init, InitCluster, Teardown!Init

\* What the stutters of the abstract specification look like.
LEMMA Stutter ==
  ASSUME UNCHANGED <<live, phase, deleted>>, Left' = Left
  PROVE  UNCHANGED Teardown!vars
BY DEF Teardown!vars, Left

\* The stages in their order.
LEMMA Ranks ==
  /\ StageRank["none"] = 0 /\ StageRank["sub"] = 1
  /\ StageRank["operand"] = 2 /\ StageRank["csv"] = 3
  /\ StageRank["refs"] = 4 /\ StageRank["operator"] = 5
  /\ StageRank["group"] = 6
BY DEF StageRank, Phases

\* Every step of the command is a step of a teardown in stages.
LEMMA CommandRefines ==
  ASSUME IInv, Command \/ GiveUp, TypeOK'
  PROVE  [Teardown!Next]_(Teardown!vars)
<1> USE DEF IInv, TypeOK, clusterVars, found, batch, history
<1>0. Left \subseteq Objects /\ Left' \subseteq Objects
  BY LeftType, SubsetsOfKinds DEF Left, Objects
<1>1. CASE ListSubs  BY <1>1, Stutter DEF ListSubs, Left
<1>2. CASE GetCSV  BY <1>2, Stutter DEF GetCSV, Left
<1>3. CASE ReadOperator  BY <1>3, Stutter DEF ReadOperator, Left
<1>4. CASE ReadGroups  BY <1>4, Stutter DEF ReadGroups, Left
<1>5. CASE ListOperands
  <2>1. CASE phase' = "sub"
    <3>1. phase = "none" /\ Left = {}
      BY <1>5 DEF ListOperands, ControlInv, TargetInv, Checking, Left
    <3> QED
      BY <1>0, <1>5, <2>1, <3>1, Ranks
         DEF ListOperands, Left, Phases, Teardown!Next, Teardown!Enter
  <2>2. CASE UNCHANGED batch
    BY <1>5, <2>2, Stutter DEF ListOperands, Left
  <2> QED
    BY <1>5, <2>1, <2>2 DEF ListOperands
<1>6. ASSUME NEW o \in Objects, DeleteObject(o)
      PROVE  [Teardown!Next]_(Teardown!vars)
  <2>1. CASE o \in live
    <3>1. o \in Left \cap live /\ deleted' = deleted \cup {o}
      BY <1>6, <2>1 DEF DeleteObject, TargetInv, Left
    <3> QED
      BY <1>6, <3>1 DEF DeleteObject, Left, Teardown!Next, Teardown!Delete
  <2>2. CASE o \notin live
    BY <1>6, <2>2, Stutter DEF DeleteObject, Left
  <2> QED
    BY <2>1, <2>2
<1>7. ASSUME NEW o \in Objects, SeeGone(o)
      PROVE  [Teardown!Next]_(Teardown!vars)
  <2>1. CASE o \in rest
    BY <1>7, <2>1, Stutter DEF SeeGone, Left
  <2>2. CASE o \notin rest
    <3>1. o \in Left \ live /\ Left' = Left \ {o}
      BY <1>7, <2>2 DEF SeeGone, Left
    <3> QED
      BY <1>7, <3>1 DEF SeeGone, Left, Teardown!Next, Teardown!SeeGone
  <2> QED
    BY <2>1, <2>2
<1>8. CASE AfterSubscription
  <2>1. Left = {}
    BY <1>8 DEF AfterSubscription, TargetInv, Left
  <2>2. CASE csv = NoCSV
    BY <1>8, <2>2, Stutter DEF AfterSubscription, Left
  <2>3. CASE csv # NoCSV
    BY <1>0, <1>8, <2>1, <2>3, Ranks
       DEF AfterSubscription, Left, Phases, Teardown!Next, Teardown!Enter
  <2> QED
    BY <2>2, <2>3
<1>9. CASE AfterOperand
  <2>1. CASE rest = {} /\ phase' = "csv"
    BY <1>0, <1>9, <2>1, Ranks
       DEF AfterOperand, Left, Phases, Teardown!Next, Teardown!Enter
  <2>2. CASE phase' = "operand"
    BY <1>9, <2>2, Stutter DEF AfterOperand, Left
  <2> QED
    BY <1>9, <2>1, <2>2 DEF AfterOperand
<1>10. CASE AfterCSVDeletion  BY <1>10, Stutter DEF AfterCSVDeletion, Left
<1>11. CASE GetOperator
  <2>1. CASE UNCHANGED batch
    BY <1>11, <2>1, Stutter DEF GetOperator, Left
  <2>2. CASE phase' = "refs"
    <3>1. phase \in {"sub", "csv"} /\ Left = {}
      BY <1>11 DEF GetOperator, ControlInv, TargetInv, Later, Left
    <3> QED
      BY <1>0, <1>11, <2>2, <3>1, Ranks
         DEF GetOperator, Left, Phases, Teardown!Next, Teardown!Enter
  <2> QED
    BY <1>11, <2>1, <2>2 DEF GetOperator
<1>12. CASE AfterRefs  BY <1>12, Stutter DEF AfterRefs, Left
<1>13. CASE PollRefs
  <2>1. phase = "refs" /\ Left = {}
    BY <1>13 DEF PollRefs, ControlInv, TargetInv, Later, Left
  <2> QED
    BY <1>0, <1>13, <2>1, Ranks
       DEF PollRefs, Left, Phases, Teardown!Next, Teardown!Enter
<1>14. CASE AfterOperatorDeletion
  BY <1>14, Stutter DEF AfterOperatorDeletion, Left
<1>15. CASE RecheckSubs  BY <1>15, Stutter DEF RecheckSubs, Left
<1>16. CASE ListGroups
  <2>1. phase \in {"sub", "csv", "operator"} /\ Left = {}
    BY <1>16 DEF ListGroups, ControlInv, TargetInv, Later, Left
  <2>2. phase' = "group" /\ StageRank[phase'] > StageRank[phase]
    BY <1>16, <2>1, Ranks DEF ListGroups
  <2> QED
    BY <1>0, <1>16, <2>1, <2>2, Ranks
       DEF ListGroups, Left, Phases, Teardown!Next, Teardown!Enter
<1>17. CASE AfterGroup  BY <1>17, Stutter DEF AfterGroup, Left
<1>18. CASE GiveUp  BY <1>18, Stutter DEF GiveUp, Left
<1> QED
  BY <1>1, <1>2, <1>3, <1>4, <1>5, <1>6, <1>7, <1>8, <1>9, <1>10, <1>11, <1>12,
     <1>13, <1>14, <1>15, <1>16, <1>17, <1>18 DEF Command

\* So is the start of a run, and every step of the rest of the cluster.
LEMMA OthersRefine ==
  ASSUME IInv, Start \/ Cluster \/ Outsiders, TypeOK'
  PROVE  [Teardown!Next]_(Teardown!vars)
<1>1. CASE Start
  BY <1>1 DEF Start, clusterVars, Teardown!Next, Teardown!Begin
<1>2. CASE Cluster \/ Outsiders
  <2>1. Rely
    BY <1>2, ClusterRelies DEF IInv
  <2> QED
    BY <2>1 DEF Rely, commandVars, batch, TypeOK, Teardown!Next,
                Teardown!Environment
<1> QED
  BY <1>1, <1>2

\* The uninstall command implements a teardown in stages.
THEOREM Refinement == Spec => InStages
<1>1. ASSUME IInv, [Next]_vars PROVE [Teardown!Next]_(Teardown!vars)
  <2>1. TypeOK'
    BY <1>1, NextKeepsIInv DEF IInv
  <2>2. CASE UNCHANGED vars
    BY <2>2, Stutter DEF vars, clusterVars, batch, Left
  <2> QED
    BY <1>1, <2>1, <2>2, CommandRefines, OthersRefine DEF Next
<1> QED
  BY <1>1, InitRefines, Inductive, PTL DEF Spec, InStages, Teardown!Spec
=============================================================================
