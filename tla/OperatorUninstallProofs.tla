----------------------- MODULE OperatorUninstallProofs -----------------------
(***************************************************************************)
(* The safety properties of OperatorUninstall, for every set of objects    *)
(* and any number of runs.                                                 *)
(*                                                                         *)
(* The properties are about what the run has deleted and what is left in   *)
(* the cluster; they are not inductive, because they do not say what the   *)
(* command is about to delete or what it has yet to wait for.  IInv adds   *)
(* that: which objects the current deleteObjects call may be waiting for   *)
(* (TargetInv), what earlier calls have seen to be gone (GoneInv), what    *)
(* each phase may have deleted so far (DeletedInv), and what keeps the     *)
(* Operator or the groups (KeptInv).                                       *)
(***************************************************************************)
EXTENDS OperatorUninstall, TLAPS

Checking == {"Idle", "ListSubs", "GetCSV", "ReadOperator", "ReadGroups",
             "ListOperands"}

\* The calls between two deleteObjects calls, and success.
Later == {"GetOperator", "PollRefs", "RecheckSubs", "ListGroups", "Done"}

\* How the program counter and the phase go together.
ControlInv ==
  /\ pc \in Checking => phase = "none"
  /\ pc = "Deleting" => phase # "none"
  /\ pc = "GetOperator" => opts.operator /\ phase \in {"sub", "csv"}
  /\ pc = "PollRefs" => phase = "refs"
  /\ pc \in {"RecheckSubs", "ListGroups"} => phase \in {"sub", "csv", "operator"}
  /\ pc = "Done" => phase \in {"sub", "csv", "operator", "group"}
  /\ pc \in Later => waiting = {}
  /\ phase = "sub" /\ pc \in Later => csv = NoCSV
  /\ phase = "operand" => pc \in {"Deleting", "Failed"}
  /\ phase \in {"operand", "csv"} => csv # NoCSV
  /\ phase \in {"none", "sub", "operand", "csv"} => opRefs = {}
  /\ phase \in {"refs", "operator"} => opts.operator
  /\ opRefs # {} => opts.operator

\* What the deleteObjects call of each phase is about.
TargetInv ==
  /\ todo \subseteq waiting
  /\ phase = "none" => waiting = {}
  /\ phase \notin {"operand", "group"} => rest = {}
  /\ phase = "sub" => waiting \subseteq {Sub}
  /\ phase = "operand" => waiting \cup rest \subseteq OperandsToDelete
  /\ phase = "csv" => waiting \subseteq {csv}
  /\ phase = "refs" => waiting \subseteq opRefs
  /\ phase = "operator" => waiting \subseteq {Operator}
  /\ phase = "group" => waiting \cup rest \subseteq SelectedGroups(Groups)

\* What may have been deleted so far.
DeletedInv ==
  /\ deleted \subseteq {Sub, csv} \cup OperandsToDelete \cup opRefs
                         \cup {Operator} \cup SelectedGroups(Groups)
  /\ phase = "none" => deleted = {}
  /\ phase = "sub" => deleted \subseteq {Sub}
  /\ phase = "operand" => deleted \subseteq {Sub} \cup OperandsToDelete
  /\ Operator \in deleted => phase \in {"operator", "group"}
  /\ deleted \cap Groups # {} => phase = "group"

\* What is gone for good.
GoneInv ==
  /\ phase # "none" /\ Sub \in live => phase = "sub" /\ Sub \in waiting
  /\ phase = "operand" => OperandsToDelete \cap live \subseteq waiting \cup rest
  /\ phase \in {"csv", "refs", "operator", "group"} /\ csv # NoCSV
       => OperandsToDelete \cap live = {}
  /\ phase = "csv" => {csv} \cap live \subseteq waiting
  /\ phase \in {"refs", "operator", "group"} => csv \notin live
  /\ phase = "refs" => opRefs \cap live \subseteq waiting
  /\ phase \in {"operator", "group"} => opRefs \cap live = {}
  /\ pc = "ListGroups" \/ phase = "group" => elders \cap OtherSubs \cap live = {}

\* What the two listings, of subscriptions and of operands, have established.
ListedInv ==
  /\ pc # "Idle" /\ Sub \in live => Sub \in elders
  /\ pc \in Checking \ {"Idle", "ListSubs"} => Sub \in elders
  /\ phase # "none" =>
       /\ Sub \in elders
       /\ ElderOperands \subseteq operands
       /\ opts.strategy = "abort" => operands = {}

\* The run has been told, by now, that the Operator is not there.
OperatorGone ==
  /\ opts.operator
  /\ \/ pc \in {"RecheckSubs", "ListGroups", "Done"}
     \/ phase = "group"
     \/ phase = "operator" /\ Operator \notin waiting

\* What keeps the Operator and the groups, and what no longer does.
KeptInv ==
  /\ phase = "refs" /\ opRefs # {} /\ refs = {} => Components \cap live = {}
  /\ phase \in {"none", "sub", "operand", "csv"}
       /\ pc \notin {"RecheckSubs", "ListGroups", "Done", "Failed"} => keepers = {}
  /\ keepers \cap opRefs = {}
  /\ OperatorGone =>
       /\ Components \cap live \subseteq keepers
       /\ Operator \in live => keepers \cap Components # {}
  /\ phase = "group" => elders \cap SelectedGroups(Groups) \cap live \subseteq waiting \cup rest
  /\ pc = "Done" /\ opts.groups => phase = "group" \/ keepers \cap OtherSubs # {}
  /\ pc = "Done" => rest = {}

IInv == /\ TypeOK /\ ControlInv /\ TargetInv /\ DeletedInv
        /\ GoneInv /\ ListedInv /\ KeptInv

-----------------------------------------------------------------------------

USE DEF Calls, Ended, Phases, Reasons, Options, Strategies, Fail, Goto,
        deleteObjects, BatchDone

\* The options that Run computes from the flags are well formed.
LEMMA NormaliseType ==
  ASSUME NEW flags, NEW strategy \in Strategies, NEW names \in SUBSET Groups
  PROVE  Normalise(flags, strategy, names) \in Options
BY DEF Normalise

\* A step of the command other than the start of a run keeps the types.
LEMMA CommandType ==
  ASSUME TypeOK, ControlInv, Command \/ GiveUp PROVE TypeOK'
<1> USE KindsDiffer, SubsetsOfKinds, NullsDiffer
    DEF TypeOK, clusterVars, found, batch, history, Objects, Subscriptions,
        Components, NilComponents
<1>1. CASE ListSubs  BY <1>1 DEF ListSubs, csvNameFromSubscription
<1>2. CASE GetCSV  BY <1>2 DEF GetCSV
<1>3. CASE ReadOperator  BY <1>3 DEF ReadOperator
<1>4. CASE ReadGroups  BY <1>4 DEF ReadGroups
<1>5. CASE ListOperands  BY <1>5 DEF ListOperands, inNamespaces
<1>6. ASSUME NEW o \in Objects, DeleteObject(o) PROVE TypeOK'
  BY <1>6 DEF DeleteObject
<1>7. ASSUME NEW o \in Objects, SeeGone(o) PROVE TypeOK'
  BY <1>7 DEF SeeGone, NoteOperatorGone
<1>8. CASE AfterSubscription
  BY <1>8 DEF AfterSubscription, AfterCSV, AfterOperator, OperandsToDelete
<1>9. CASE AfterOperand  BY <1>9 DEF AfterOperand, ControlInv
<1>10. CASE AfterCSVDeletion
  BY <1>10 DEF AfterCSVDeletion, AfterCSV, AfterOperator
<1>11. CASE GetOperator  BY <1>11 DEF GetOperator, AfterOperator, NoteOperatorGone
<1>12. CASE AfterRefs  BY <1>12 DEF AfterRefs
<1>13. CASE PollRefs  BY <1>13 DEF PollRefs
<1>14. CASE AfterOperatorDeletion
  BY <1>14 DEF AfterOperatorDeletion, AfterOperator
<1>15. CASE RecheckSubs  BY <1>15 DEF RecheckSubs
<1>16. CASE ListGroups  BY <1>16 DEF ListGroups, SelectedGroups
<1>17. CASE AfterGroup  BY <1>17 DEF AfterGroup
<1>18. CASE GiveUp  BY <1>18 DEF GiveUp
<1> QED
  BY <1>1, <1>2, <1>3, <1>4, <1>5, <1>6, <1>7, <1>8, <1>9, <1>10, <1>11, <1>12,
     <1>13, <1>14, <1>15, <1>16, <1>17, <1>18 DEF Command

\* So does a step of anything else in the cluster.
LEMMA ClusterType == ASSUME TypeOK, Cluster \/ Outsiders PROVE TypeOK'
<1> USE KindsDiffer, SubsetsOfKinds, NullsDiffer
    DEF TypeOK, commandVars, found, batch, history, Objects, Subscriptions,
        Components, NilComponents
<1>1. ASSUME NEW o \in Objects, Finalize(o) PROVE TypeOK'
  BY <1>1 DEF Finalize
<1>2. CASE CascadeCrd  BY <1>2 DEF CascadeCrd
<1>3. ASSUME NEW x \in Extras, GarbageCollect(x) PROVE TypeOK'
  BY <1>3 DEF GarbageCollect
<1>4. CASE SyncOperator  BY <1>4 DEF SyncOperator
<1>5. CASE RecreateOperator  BY <1>5 DEF RecreateOperator
<1>6. ASSUME NEW c \in CSVs, CreateCSV(c) PROVE TypeOK'
  BY <1>6 DEF CreateCSV
<1>7. ASSUME NEW c \in CSVs, SucceedCSV(c) PROVE TypeOK'
  BY <1>7 DEF SucceedCSV
<1>8. ASSUME NEW o \in Operands \cup OtherSubs \cup Groups, OutsideCreate(o)
      PROVE  TypeOK'
  BY <1>8 DEF OutsideCreate
<1>9. ASSUME NEW o \in Operands \cup OtherSubs \cup {Operator}, OutsideDelete(o)
      PROVE  TypeOK'
  BY <1>9 DEF OutsideDelete
<1> QED
  BY <1>1, <1>2, <1>3, <1>4, <1>5, <1>6, <1>7, <1>8, <1>9 DEF Cluster, Outsiders

(***************************************************************************)
(* What the rest of the cluster may do to a running command: it leaves the *)
(* command's own state alone, and it brings back nothing that the command  *)
(* has seen to be gone, but for an Operator with components.  References   *)
(* are emptied only when there are no components.                          *)
(***************************************************************************)
Rely ==
  /\ UNCHANGED commandVars
  /\ Sub \in live' => Sub \in live
  /\ elders \cap (InScope \cup OtherSubs \cup Groups) \cap live' \subseteq live
  /\ operands \cap live' \subseteq live
  /\ Sub \notin live => Components \cap live' \subseteq live
  /\ Operator \in live' => Operator \in live \/ Components \cap live # {}
  /\ refs' = {} => refs = {} \/ Components \cap live' = {}

\* Every step of OLM, of the garbage collector and of other users is such.
LEMMA ClusterRelies == ASSUME TypeOK, Cluster \/ Outsiders PROVE Rely
<1> USE KindsDiffer, SubsetsOfKinds
    DEF Rely, TypeOK, Components, Fresh, OperatorRuns, NilComponents
<1>1. ASSUME NEW o \in Objects, Finalize(o) PROVE Rely
  BY <1>1 DEF Finalize
<1>2. CASE CascadeCrd  BY <1>2 DEF CascadeCrd
<1>3. ASSUME NEW x \in Extras, GarbageCollect(x) PROVE Rely
  BY <1>3 DEF GarbageCollect
<1>4. CASE SyncOperator  BY <1>4 DEF SyncOperator
<1>5. CASE RecreateOperator  BY <1>5 DEF RecreateOperator
<1>6. ASSUME NEW c \in CSVs, CreateCSV(c) PROVE Rely
  BY <1>6 DEF CreateCSV
<1>7. ASSUME NEW c \in CSVs, SucceedCSV(c) PROVE Rely
  BY <1>7 DEF SucceedCSV
<1>8. ASSUME NEW o \in Operands \cup OtherSubs \cup Groups, OutsideCreate(o)
      PROVE  Rely
  BY <1>8 DEF OutsideCreate
<1>9. ASSUME NEW o \in Operands \cup OtherSubs \cup {Operator}, OutsideDelete(o)
      PROVE  Rely
  BY <1>9 DEF OutsideDelete
<1> QED
  BY <1>1, <1>2, <1>3, <1>4, <1>5, <1>6, <1>7, <1>8, <1>9 DEF Cluster, Outsiders

\* Such steps keep the invariant.
LEMMA RelyKeepsIInv == ASSUME IInv, Rely, TypeOK' PROVE IInv'
<1> USE DEF IInv, Rely, commandVars, found, batch, history
<1>1. ControlInv'
  BY DEF ControlInv
<1>2. TargetInv'
  BY DEF TargetInv, OperandsToDelete, SelectedGroups
<1>3. DeletedInv'
  BY DEF DeletedInv, OperandsToDelete, SelectedGroups
<1>4. OperandsToDelete' = OperandsToDelete /\ OperandsToDelete \subseteq operands
  BY DEF OperandsToDelete
<1>5. GoneInv'
  <2>1. phase # "none" /\ Sub \in live => phase = "sub" /\ Sub \in waiting
    BY DEF GoneInv
  <2>2. (phase # "none" /\ Sub \in live => phase = "sub" /\ Sub \in waiting)'
    BY <2>1
  <2>3. phase \in {"csv", "refs", "operator", "group"}
          => Components \cap live' \subseteq live
    BY <2>1
  <2>4. csv # NoCSV => csv \in Components
    BY DEF TypeOK, Components
  <2>5. NoCSV \notin live'
    BY NullsDiffer DEF TypeOK
  <2>6. opRefs \subseteq Components
    BY DEF TypeOK
  <2> QED
    BY <1>4, <2>2, <2>3, <2>4, <2>5, <2>6 DEF GoneInv
<1>6. ListedInv'
  BY DEF ListedInv, ElderOperands, Checking
<1>7. KeptInv'
  <2>1. phase \in {"refs", "operator", "group"} \/ OperatorGone => Sub \notin live
    BY DEF GoneInv, ControlInv, Later, OperatorGone
  <2>2. SelectedGroups(Groups)' = SelectedGroups(Groups) /\ SelectedGroups(Groups) \subseteq Groups
    BY DEF SelectedGroups
  <2>3. OperatorGone' = OperatorGone
    BY DEF OperatorGone
  <2>4. (phase = "refs" /\ opRefs # {} /\ refs = {} => Components \cap live = {})'
    BY <2>1 DEF KeptInv, Components
  <2>5. (OperatorGone => /\ Components \cap live \subseteq keepers
                         /\ Operator \in live => keepers \cap Components # {})'
    BY <2>1, <2>3 DEF KeptInv, Components
  <2>6. (phase = "group" => elders \cap SelectedGroups(Groups) \cap live \subseteq waiting \cup rest)'
    BY <2>2 DEF KeptInv
  <2> QED
    BY <2>4, <2>5, <2>6 DEF KeptInv
<1> QED
  BY <1>1, <1>2, <1>3, <1>5, <1>6, <1>7

\* The command's steps keep the control invariant.
LEMMA CommandControl == ASSUME IInv, Command \/ GiveUp PROVE ControlInv'
<1> USE KindsDiffer, SubsetsOfKinds, NullsDiffer
    DEF IInv, TypeOK, ControlInv, clusterVars, found, batch, history, Checking, Later
<1>1. CASE ListSubs  BY <1>1 DEF ListSubs, csvNameFromSubscription
<1>2. CASE GetCSV  BY <1>2 DEF GetCSV
<1>3. CASE ReadOperator  BY <1>3 DEF ReadOperator
<1>4. CASE ReadGroups  BY <1>4 DEF ReadGroups
<1>5. CASE ListOperands  BY <1>5 DEF ListOperands, validStrategy, inNamespaces
<1>6. ASSUME NEW o \in Objects, DeleteObject(o) PROVE ControlInv'
  BY <1>6 DEF DeleteObject
<1>7. ASSUME NEW o \in Objects, SeeGone(o) PROVE ControlInv'
  BY <1>7 DEF SeeGone
<1>8. CASE AfterSubscription  BY <1>8 DEF AfterSubscription, AfterCSV, AfterOperator
<1>9. CASE AfterOperand  BY <1>9 DEF AfterOperand
<1>10. CASE AfterCSVDeletion  BY <1>10 DEF AfterCSVDeletion, AfterCSV, AfterOperator
<1>11. CASE GetOperator  BY <1>11 DEF GetOperator, AfterOperator
<1>12. CASE AfterRefs  BY <1>12 DEF AfterRefs
<1>13. CASE PollRefs  BY <1>13 DEF PollRefs
<1>14. CASE AfterOperatorDeletion  BY <1>14 DEF AfterOperatorDeletion, AfterOperator
<1>15. CASE RecheckSubs  BY <1>15 DEF RecheckSubs, NoSubsLeft, Subscriptions
<1>16. CASE ListGroups  BY <1>16 DEF ListGroups, SelectedGroups
<1>17. CASE AfterGroup  BY <1>17 DEF AfterGroup
<1>18. CASE GiveUp  BY <1>18 DEF GiveUp
<1> QED
  BY <1>1, <1>2, <1>3, <1>4, <1>5, <1>6, <1>7, <1>8, <1>9, <1>10, <1>11, <1>12,
     <1>13, <1>14, <1>15, <1>16, <1>17, <1>18 DEF Command

\* They keep what a deleteObjects call is about.
LEMMA CommandTarget == ASSUME IInv, Command \/ GiveUp PROVE TargetInv'
<1> USE KindsDiffer, SubsetsOfKinds, NullsDiffer
    DEF IInv, TypeOK, ControlInv, TargetInv, OperandsToDelete, SelectedGroups,
        clusterVars, found, batch, history, Checking, Later
<1>1. CASE ListSubs  BY <1>1 DEF ListSubs, csvNameFromSubscription
<1>2. CASE GetCSV  BY <1>2 DEF GetCSV
<1>3. CASE ReadOperator  BY <1>3 DEF ReadOperator
<1>4. CASE ReadGroups  BY <1>4 DEF ReadGroups
<1>5. CASE ListOperands  BY <1>5 DEF ListOperands, validStrategy, inNamespaces
<1>6. ASSUME NEW o \in Objects, DeleteObject(o) PROVE TargetInv'
  BY <1>6 DEF DeleteObject
<1>7. ASSUME NEW o \in Objects, SeeGone(o) PROVE TargetInv'
  BY <1>7 DEF SeeGone
<1>8. CASE AfterSubscription  BY <1>8 DEF AfterSubscription, AfterCSV, AfterOperator
<1>9. CASE AfterOperand  BY <1>9 DEF AfterOperand
<1>10. CASE AfterCSVDeletion  BY <1>10 DEF AfterCSVDeletion, AfterCSV, AfterOperator
<1>11. CASE GetOperator  BY <1>11 DEF GetOperator, AfterOperator
<1>12. CASE AfterRefs  BY <1>12 DEF AfterRefs
<1>13. CASE PollRefs  BY <1>13 DEF PollRefs
<1>14. CASE AfterOperatorDeletion  BY <1>14 DEF AfterOperatorDeletion, AfterOperator
<1>15. CASE RecheckSubs  BY <1>15 DEF RecheckSubs, NoSubsLeft, Subscriptions
<1>16. CASE ListGroups  BY <1>16 DEF ListGroups, SelectedGroups
<1>17. CASE AfterGroup  BY <1>17 DEF AfterGroup
<1>18. CASE GiveUp  BY <1>18 DEF GiveUp
<1> QED
  BY <1>1, <1>2, <1>3, <1>4, <1>5, <1>6, <1>7, <1>8, <1>9, <1>10, <1>11, <1>12,
     <1>13, <1>14, <1>15, <1>16, <1>17, <1>18 DEF Command

\* They keep what may have been deleted.
LEMMA CommandDeleted == ASSUME IInv, Command \/ GiveUp PROVE DeletedInv'
<1> USE KindsDiffer, SubsetsOfKinds, NullsDiffer
    DEF IInv, TypeOK, ControlInv, TargetInv, DeletedInv, OperandsToDelete, SelectedGroups,
        Components, clusterVars, found, batch, history, Checking, Later
<1>1. CASE ListSubs  BY <1>1 DEF ListSubs, csvNameFromSubscription
<1>2. CASE GetCSV  BY <1>2 DEF GetCSV
<1>3. CASE ReadOperator  BY <1>3 DEF ReadOperator
<1>4. CASE ReadGroups  BY <1>4 DEF ReadGroups
<1>5. CASE ListOperands  BY <1>5 DEF ListOperands, validStrategy, inNamespaces
<1>6. ASSUME NEW o \in Objects, DeleteObject(o) PROVE DeletedInv'
  BY <1>6 DEF DeleteObject
<1>7. ASSUME NEW o \in Objects, SeeGone(o) PROVE DeletedInv'
  BY <1>7 DEF SeeGone
<1>8. CASE AfterSubscription  BY <1>8 DEF AfterSubscription, AfterCSV, AfterOperator
<1>9. CASE AfterOperand  BY <1>9 DEF AfterOperand
<1>10. CASE AfterCSVDeletion  BY <1>10 DEF AfterCSVDeletion, AfterCSV, AfterOperator
<1>11. CASE GetOperator  BY <1>11 DEF GetOperator, AfterOperator
<1>12. CASE AfterRefs  BY <1>12 DEF AfterRefs
<1>13. CASE PollRefs  BY <1>13 DEF PollRefs
<1>14. CASE AfterOperatorDeletion  BY <1>14 DEF AfterOperatorDeletion, AfterOperator
<1>15. CASE RecheckSubs  BY <1>15 DEF RecheckSubs, NoSubsLeft, Subscriptions
<1>16. CASE ListGroups  BY <1>16 DEF ListGroups, SelectedGroups
<1>17. CASE AfterGroup  BY <1>17 DEF AfterGroup
<1>18. CASE GiveUp  BY <1>18 DEF GiveUp
<1> QED
  BY <1>1, <1>2, <1>3, <1>4, <1>5, <1>6, <1>7, <1>8, <1>9, <1>10, <1>11, <1>12,
     <1>13, <1>14, <1>15, <1>16, <1>17, <1>18 DEF Command

\* They keep what is gone for good.
LEMMA CommandGone == ASSUME IInv, Command \/ GiveUp PROVE GoneInv'
<1> USE KindsDiffer, SubsetsOfKinds, NullsDiffer
    DEF IInv, TypeOK, ControlInv, TargetInv, GoneInv, OperandsToDelete, Components,
        Objects, Subscriptions, clusterVars, found, batch, history, Checking, Later
<1>1. CASE ListSubs  BY <1>1 DEF ListSubs, csvNameFromSubscription
<1>2. CASE GetCSV  BY <1>2 DEF GetCSV
<1>3. CASE ReadOperator  BY <1>3 DEF ReadOperator
<1>4. CASE ReadGroups  BY <1>4 DEF ReadGroups
<1>5. CASE ListOperands  BY <1>5 DEF ListOperands, validStrategy, inNamespaces
<1>6. ASSUME NEW o \in Objects, DeleteObject(o) PROVE GoneInv'
  BY <1>6 DEF DeleteObject
<1>7. ASSUME NEW o \in Objects, SeeGone(o) PROVE GoneInv'
  BY <1>7 DEF SeeGone
<1>8. CASE AfterSubscription  BY <1>8 DEF AfterSubscription, AfterCSV, AfterOperator
<1>9. CASE AfterOperand  BY <1>9 DEF AfterOperand
<1>10. CASE AfterCSVDeletion  BY <1>10 DEF AfterCSVDeletion, AfterCSV, AfterOperator
<1>11. CASE GetOperator  BY <1>11 DEF GetOperator, AfterOperator
<1>12. CASE AfterRefs  BY <1>12 DEF AfterRefs
<1>13. CASE PollRefs  BY <1>13 DEF PollRefs
<1>14. CASE AfterOperatorDeletion  BY <1>14 DEF AfterOperatorDeletion, AfterOperator
<1>15. CASE RecheckSubs  BY <1>15 DEF RecheckSubs, NoSubsLeft, Subscriptions
<1>16. CASE ListGroups  BY <1>16 DEF ListGroups, SelectedGroups
<1>17. CASE AfterGroup  BY <1>17 DEF AfterGroup
<1>18. CASE GiveUp  BY <1>18 DEF GiveUp
<1> QED
  BY <1>1, <1>2, <1>3, <1>4, <1>5, <1>6, <1>7, <1>8, <1>9, <1>10, <1>11, <1>12,
     <1>13, <1>14, <1>15, <1>16, <1>17, <1>18 DEF Command

\* They keep what the listing has established.
LEMMA CommandListed == ASSUME IInv, Command \/ GiveUp PROVE ListedInv'
<1> USE KindsDiffer, SubsetsOfKinds, NullsDiffer
    DEF IInv, TypeOK, ControlInv, ListedInv, ElderOperands, clusterVars, found,
        batch, history, Checking, Later
<1>1. CASE ListSubs  BY <1>1 DEF ListSubs, csvNameFromSubscription
<1>2. CASE GetCSV  BY <1>2 DEF GetCSV
<1>3. CASE ReadOperator  BY <1>3 DEF ReadOperator
<1>4. CASE ReadGroups  BY <1>4 DEF ReadGroups
<1>5. CASE ListOperands  BY <1>5 DEF ListOperands, validStrategy, inNamespaces
<1>6. ASSUME NEW o \in Objects, DeleteObject(o) PROVE ListedInv'
  BY <1>6 DEF DeleteObject
<1>7. ASSUME NEW o \in Objects, SeeGone(o) PROVE ListedInv'
  BY <1>7 DEF SeeGone
<1>8. CASE AfterSubscription  BY <1>8 DEF AfterSubscription, AfterCSV, AfterOperator
<1>9. CASE AfterOperand  BY <1>9 DEF AfterOperand
<1>10. CASE AfterCSVDeletion  BY <1>10 DEF AfterCSVDeletion, AfterCSV, AfterOperator
<1>11. CASE GetOperator  BY <1>11 DEF GetOperator, AfterOperator
<1>12. CASE AfterRefs  BY <1>12 DEF AfterRefs
<1>13. CASE PollRefs  BY <1>13 DEF PollRefs
<1>14. CASE AfterOperatorDeletion  BY <1>14 DEF AfterOperatorDeletion, AfterOperator
<1>15. CASE RecheckSubs  BY <1>15 DEF RecheckSubs, NoSubsLeft, Subscriptions
<1>16. CASE ListGroups  BY <1>16 DEF ListGroups, SelectedGroups
<1>17. CASE AfterGroup  BY <1>17 DEF AfterGroup
<1>18. CASE GiveUp  BY <1>18 DEF GiveUp, Running
<1> QED
  BY <1>1, <1>2, <1>3, <1>4, <1>5, <1>6, <1>7, <1>8, <1>9, <1>10, <1>11, <1>12,
     <1>13, <1>14, <1>15, <1>16, <1>17, <1>18 DEF Command

\* They keep what is known of what keeps the Operator and the groups.
LEMMA CommandKept == ASSUME IInv, Command \/ GiveUp PROVE KeptInv'
<1> USE KindsDiffer, SubsetsOfKinds, NullsDiffer
    DEF IInv, TypeOK, ControlInv, TargetInv, GoneInv, KeptInv, OperatorGone,
        OperandsToDelete, SelectedGroups, Components, Objects, Subscriptions,
        clusterVars, found, batch, history, Checking, Later
<1>1. CASE ListSubs  BY <1>1 DEF ListSubs, csvNameFromSubscription
<1>2. CASE GetCSV  BY <1>2 DEF GetCSV
<1>3. CASE ReadOperator  BY <1>3 DEF ReadOperator
<1>4. CASE ReadGroups  BY <1>4 DEF ReadGroups
<1>5. CASE ListOperands  BY <1>5 DEF ListOperands, validStrategy, inNamespaces
<1>6. ASSUME NEW o \in Objects, DeleteObject(o) PROVE KeptInv'
  BY <1>6 DEF DeleteObject
<1>7. ASSUME NEW o \in Objects, SeeGone(o) PROVE KeptInv'
  <2>1. CASE o = Operator
    <3>1. phase = "operator"
      BY <1>7, <2>1 DEF SeeGone
    <3> QED
      BY <1>7, <2>1, <3>1 DEF SeeGone, NoteOperatorGone
  <2>2. CASE o # Operator
    BY <1>7, <2>2 DEF SeeGone
  <2> QED
    BY <2>1, <2>2
<1>8. CASE AfterSubscription  BY <1>8 DEF AfterSubscription, AfterCSV, AfterOperator
<1>9. CASE AfterOperand  BY <1>9 DEF AfterOperand
<1>10. CASE AfterCSVDeletion  BY <1>10 DEF AfterCSVDeletion, AfterCSV, AfterOperator
<1>11. CASE GetOperator  BY <1>11 DEF GetOperator, AfterOperator, NoteOperatorGone
<1>12. CASE AfterRefs  BY <1>12 DEF AfterRefs
<1>13. CASE PollRefs  BY <1>13 DEF PollRefs
<1>14. CASE AfterOperatorDeletion  BY <1>14 DEF AfterOperatorDeletion, AfterOperator
<1>15. CASE RecheckSubs  BY <1>15 DEF RecheckSubs, NoSubsLeft
<1>16. CASE ListGroups  BY <1>16 DEF ListGroups
<1>17. CASE AfterGroup  BY <1>17 DEF AfterGroup
<1>18. CASE GiveUp  BY <1>18 DEF GiveUp, Running
<1> QED
  BY <1>1, <1>2, <1>3, <1>4, <1>5, <1>6, <1>7, <1>8, <1>9, <1>10, <1>11, <1>12,
     <1>13, <1>14, <1>15, <1>16, <1>17, <1>18 DEF Command

-----------------------------------------------------------------------------

\* A run that starts has established nothing yet, and needs nothing.
LEMMA StartKeepsIInv == ASSUME IInv, Start PROVE IInv'
<1>1. TypeOK'
  <2> USE MaxRunsIsNat DEF IInv, TypeOK, Start, clusterVars
  <2>1. opts' \in Options
    BY NormaliseType
  <2>2. runs' \in 0..MaxRuns
    OBVIOUS
  <2> QED
    BY <2>1, <2>2
<1>2. ControlInv' /\ TargetInv' /\ DeletedInv' /\ GoneInv' /\ ListedInv' /\ KeptInv'
  BY DEF Start, ControlInv, TargetInv, DeletedInv, GoneInv, ListedInv, KeptInv,
         OperatorGone, Checking, Later, clusterVars
<1> QED
  BY <1>1, <1>2 DEF IInv

\* The invariant holds in every state in which a user may find the cluster.
LEMMA InitIInv == ASSUME Init PROVE IInv
<1> USE DEF Init
<1>1. TypeOK
  BY MaxRunsIsNat DEF TypeOK, InitCluster
<1>2. ControlInv /\ TargetInv /\ DeletedInv /\ GoneInv /\ ListedInv /\ KeptInv
  BY DEF ControlInv, TargetInv, DeletedInv, GoneInv, ListedInv, KeptInv,
         OperatorGone, Checking, Later
<1> QED
  BY <1>1, <1>2 DEF IInv

\* Every step of the specification keeps it.
LEMMA NextKeepsIInv == ASSUME IInv, [Next]_vars PROVE IInv'
<1>1. CASE Start
  BY <1>1, StartKeepsIInv
<1>2. CASE Command \/ GiveUp
  BY <1>2, CommandType, CommandControl, CommandTarget, CommandDeleted,
     CommandGone, CommandListed, CommandKept DEF IInv
<1>3. CASE Cluster \/ Outsiders
  BY <1>3, ClusterType, ClusterRelies, RelyKeepsIInv DEF IInv
<1>4. CASE UNCHANGED vars
  BY <1>4 DEF vars, clusterVars, found, batch, history, IInv, TypeOK,
     ControlInv, TargetInv, DeletedInv, GoneInv, ListedInv, KeptInv, OperatorGone,
     OperandsToDelete, SelectedGroups, ElderOperands
<1> QED
  BY <1>1, <1>2, <1>3, <1>4 DEF Next

\* IInv is an inductive invariant of the uninstall command in its cluster.
THEOREM Inductive == Spec => []IInv
BY InitIInv, NextKeepsIInv, PTL DEF Spec

\* Every variable of the command and of the cluster keeps its type.
THEOREM TypeCorrect == Spec => []TypeOK
<1>1. IInv => TypeOK
  BY DEF IInv
<1> QED
  BY <1>1, Inductive, PTL

\* With "abort", as long as an operand that was there when the run started
\* still is, the run has deleted nothing.
THEOREM AbortSafe == Spec => []AbortSparesEverything
<1>1. IInv => AbortSparesEverything
  BY DEF IInv, ListedInv, DeletedInv, AbortSparesEverything, ElderOperands,
         TypeOK
<1> QED
  BY <1>1, Inductive, PTL

\* A CSV is deleted only when the operands that needed its operator are gone.
THEOREM OperandsBeforeCSV == Spec => []OperatorOutlivesOperands
<1>1. ASSUME IInv, deleted \cap CSVs # {}, csv # NoCSV, opts.strategy # "ignore"
      PROVE  ElderOperands = {}
  <2> USE <1>1 DEF IInv
  <2>1. phase \in {"csv", "refs", "operator", "group"}
    <3>1. Sub \notin CSVs /\ OperandsToDelete \cap CSVs = {}
      BY KindsDiffer, SubsetsOfKinds DEF OperandsToDelete, TypeOK
    <3> QED
      BY <3>1 DEF DeletedInv, TypeOK
  <2>2. OperandsToDelete \cap live = {}
    BY <2>1 DEF GoneInv
  <2>3. opts.strategy \in {"abort", "delete"}
    BY DEF TypeOK
  <2> QED
    BY <2>1, <2>2, <2>3 DEF ListedInv, OperandsToDelete, ElderOperands
<1>2. IInv => OperatorOutlivesOperands
  BY <1>1 DEF OperatorOutlivesOperands
<1> QED
  BY <1>2, Inductive, PTL

\* The subscription is gone before anything else is deleted.
THEOREM SubscriptionGoesFirst == Spec => []SubscriptionFirst
<1>1. IInv => SubscriptionFirst
  BY DEF IInv, DeletedInv, GoneInv, SubscriptionFirst
<1> QED
  BY <1>1, Inductive, PTL

\* Only the custom resources that the flags and the scope select are deleted.
THEOREM ChosenOperands == Spec => []OnlyChosenOperands
<1>1. ASSUME IInv PROVE OnlyChosenOperands
  <2> USE <1>1 DEF IInv, TypeOK
  <2>1. opRefs \cap Operands = {} /\ SelectedGroups(Groups) \cap Operands = {}
    BY KindsDiffer DEF Components, SelectedGroups
  <2>2. deleted \cap Operands \subseteq OperandsToDelete
    BY <2>1, KindsDiffer, NullsDiffer DEF DeletedInv, Objects
  <2>3. Crd \notin {Sub, csv, Operator} \cup OperandsToDelete \cup SelectedGroups(Groups)
    BY KindsDiffer, SubsetsOfKinds, NullsDiffer
       DEF OperandsToDelete, SelectedGroups, Objects
  <2>4. ~opts.operator => opRefs = {}
    BY DEF ControlInv
  <2> QED
    BY <2>2, <2>3, <2>4 DEF OnlyChosenOperands, OperandsToDelete, DeletedInv
<1> QED
  BY <1>1, Inductive, PTL

\* The Operator object is deleted only when all that it referenced is gone.
THEOREM OperatorLast == Spec => []OperatorObjectLast
<1>1. IInv => OperatorObjectLast
  BY DEF IInv, DeletedInv, GoneInv, OperatorObjectLast
<1> QED
  BY <1>1, Inductive, PTL

\* Groups that another package's subscription needs, or that were not named,
\* are kept.
THEOREM GroupsSafe == Spec => []UsedGroupsSurvive
<1>1. ASSUME IInv, deleted \cap Groups # {}
      PROVE  /\ elders \cap OtherSubs \cap live = {}
             /\ opts.names # {} => deleted \cap Groups \subseteq opts.names
  <2> USE <1>1 DEF IInv, TypeOK
  <2>1. elders \cap OtherSubs \cap live = {}
    BY DEF DeletedInv, GoneInv
  <2>2. ({Sub, csv, Operator} \cup OperandsToDelete \cup opRefs) \cap Groups = {}
    BY KindsDiffer, SubsetsOfKinds, NullsDiffer
       DEF OperandsToDelete, Components, Objects
  <2>3. deleted \cap Groups \subseteq SelectedGroups(Groups)
    BY <2>2 DEF DeletedInv
  <2> QED
    BY <2>1, <2>3 DEF SelectedGroups
<1>2. IInv => UsedGroupsSurvive
  BY <1>1 DEF UsedGroupsSurvive
<1> QED
  BY <1>2, Inductive, PTL

\* The command moves on to an Operator whose references it had read only when
\* no component is left, unless the Operator is new and has no status yet.
THEOREM OperatorWaits == Spec => OperatorAfterComponents
<1>1. ASSUME IInv, [Next]_vars, phase = "refs", phase' = "operator",
             Operator \in live, opRefs # {}
      PROVE  refs = NilComponents \/ Components \cap live = {}
  <2> USE <1>1 DEF IInv, found, batch, history
  <2>1. CASE PollRefs
    BY <2>1 DEF PollRefs, RefsEmpty, KeptInv
  <2>2. CASE Start
    BY <2>2 DEF Start
  <2>3. CASE (Command /\ ~PollRefs) \/ GiveUp
    BY <2>3 DEF Command, GiveUp, ListSubs, GetCSV, ReadOperator, ReadGroups,
       ListOperands, DeleteObject, SeeGone, AfterSubscription, AfterOperand,
       AfterCSVDeletion, GetOperator, AfterRefs, AfterOperatorDeletion,
       RecheckSubs, ListGroups, AfterGroup
  <2>4. CASE Cluster \/ Outsiders
    BY <2>4, ClusterRelies DEF Rely, commandVars
  <2> QED
    BY <2>1, <2>2, <2>3, <2>4 DEF Next, vars
<1>2. IInv /\ [Next]_vars
        => [phase = "refs" /\ phase' = "operator" /\ Operator \in live /\ opRefs # {}
              => refs = NilComponents \/ Components \cap live = {}]_vars
  BY <1>1
<1> QED
  BY <1>2, Inductive, PTL DEF Spec, OperatorAfterComponents

\* After a success the subscription, the listed CSV and operands, the references
\* that were read, the Operator and the chosen groups are gone, the last two
\* unless a component or another subscription was there to keep them.
THEOREM SuccessIsComplete == Spec => []DoneMeansGone
<1>1. ASSUME IInv, pc = "Done"
      PROVE  /\ Sub \notin live /\ csv \notin live
             /\ csv # NoCSV => OperandsToDelete \cap live = {}
             /\ opRefs \cap live = {}
  <2> USE <1>1 DEF IInv
  <2>1. phase \in {"sub", "csv", "operator", "group"} /\ waiting = {}
    BY DEF ControlInv, Later
  <2>2. NoCSV \notin live
    BY NullsDiffer DEF TypeOK
  <2>3. phase = "sub" => csv = NoCSV /\ opRefs = {}
    BY DEF ControlInv, Later
  <2>4. phase = "csv" => opRefs = {}
    BY DEF ControlInv
  <2> QED
    BY <2>1, <2>2, <2>3, <2>4 DEF GoneInv
<1>2. ASSUME IInv, pc = "Done"
      PROVE  /\ opRefs \cap keepers = {}
             /\ opts.operator /\ keepers \cap Components = {} => Operator \notin live
  BY <1>2 DEF IInv, KeptInv, OperatorGone
<1>3. ASSUME IInv, pc = "Done", opts.groups, keepers \cap OtherSubs = {},
             NEW g \in elders \cap Groups \cap live
      PROVE  opts.names # {} /\ g \notin opts.names
  <2> USE <1>3 DEF IInv
  <2>1. phase = "group" /\ waiting = {} /\ rest = {}
    BY DEF KeptInv, ControlInv, Later
  <2>2. g \notin SelectedGroups(Groups)
    BY <2>1 DEF KeptInv
  <2> QED
    BY <2>2 DEF SelectedGroups
<1>4. IInv => DoneMeansGone
  BY <1>1, <1>2, <1>3 DEF DoneMeansGone
<1> QED
  BY <1>4, Inductive, PTL

\* A run that starts without the subscription deletes nothing.
THEOREM NothingWithoutSubscription == Spec => []NoSubscriptionNoTeardown
<1>1. IInv => NoSubscriptionNoTeardown
  BY DEF IInv, DeletedInv, ListedInv, NoSubscriptionNoTeardown
<1> QED
  BY <1>1, Inductive, PTL
=============================================================================
