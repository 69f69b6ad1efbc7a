------------------------ MODULE MCOperatorUninstall ------------------------
(***************************************************************************)
(* Small instances of OperatorUninstall.  TLC starts from the namespaces   *)
(* that users meet; the lag of the Operator's references arises by itself. *)
(***************************************************************************)
EXTENDS OperatorUninstall

CONSTANT Asked  \* the scenes

VARIABLE scene

mcVars == <<scene, vars>>

(***************************************************************************)
(* Each scene has the objects that are there when the user first runs the  *)
(* command, those that may be, those that users create or delete while it  *)
(* runs, the CSVs of the package, and what the user gives and how often.   *)
(***************************************************************************)
Whole == {"sub", "operator", "crd", "csv1", "og1"}

Scene(early, maybe, touched, csvs, flags, names, times) ==
  [early |-> early, maybe |-> maybe, touched |-> touched, csvs |-> csvs,
   flags |-> flags, names |-> names, times |-> times]

Scenes == [
  upgrade  |-> Scene(Whole, {"cr1", "cr2"}, {"cr1", "operator"}, {"csv1", "csv2"},
                     {"delete-operator"}, {"og1"}, 1),
  ends     |-> Scene(Whole, {"cr1"}, {"cr1", "operator"}, {"csv1", "csv2"},
                     {"delete-operator"}, {"og1"}, 1),
  shared   |-> Scene({"og1", "crd", "operator"}, {"sub", "other", "csv1", "role", "og2"},
                     {"other", "og2"}, {"csv1"}, {"delete-operator-groups"}, {"og1", "og2"}, 2),
  all      |-> Scene(Whole, {"og2"}, {"other", "operator"}, {"csv1"},
                     {"delete-operator", "delete-operator-groups"}, {"og1"}, 1),
  notFound |-> Scene({"sub", "og1"}, {"crd", "csv1", "cr1"}, {}, {"csv1"},
                     {"delete-operator-groups"}, {"og1"}, 1),
  operands |-> Scene(Whole \cup {"cr1"}, {}, {}, {"csv1"}, {"delete-operator"}, {"og1"}, 1),
  recreate |-> Scene(Whole, {}, {"operator"}, {"csv1"}, {"delete-operator"}, {"og1"}, 1)]

The == Scenes[scene]

MCInit ==
  /\ scene \in Asked
  /\ \E more \in SUBSET The.maybe : live = The.early \cup more
  /\ refs \in {NilComponents, Components \cap live}
  /\ Init
  /\ Extras \cap live # {} => OperatorRuns
  /\ OperatorRuns => Crd \in live
  /\ installed # NoCSV => installed = current
  /\ {installed, current} \subseteq The.csvs \cup {NoCSV}

MCStart ==
  /\ runs < The.times /\ Start
  /\ opts'.operator => "delete-operator" \in The.flags
  /\ opts'.groups => "delete-operator-groups" \in The.flags
  /\ opts'.names \subseteq The.names

\* Before the first run and after the last one nothing that the cluster does
\* concerns the command.
Watched == Running \/ (pc \in Ended /\ runs < The.times)

MCCluster ==
  \/ \E o \in Objects : Watched /\ Finalize(o)
  \/ Watched /\ CascadeCrd
  \/ \E x \in Extras : Watched /\ GarbageCollect(x)
  \/ Watched /\ SyncOperator
  \/ Watched /\ RecreateOperator
  \/ \E c \in The.csvs : Watched /\ CreateCSV(c)
  \/ \E c \in CSVs : Watched /\ SucceedCSV(c)

MCOutsiders ==
  \/ \E o \in The.touched \ {Operator} : Watched /\ OutsideCreate(o)
  \/ \E o \in The.touched \ Groups : Watched /\ OutsideDelete(o)

MCNext     == (MCStart \/ Command \/ GiveUp \/ MCCluster \/ MCOutsiders) /\ UNCHANGED scene
MCSpec     == MCInit /\ [][MCNext]_mcVars
MCFairSpec == MCSpec /\ Fairness
=============================================================================
