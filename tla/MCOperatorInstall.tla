------------------------- MODULE MCOperatorInstall -------------------------
(***************************************************************************)
(* Small instances of OperatorInstall: what the packages support, and what *)
(* each run of the commands is asked to do.                                *)
(***************************************************************************)
EXTENDS OperatorInstall

CONSTANT Asked  \* the scenes

VARIABLE scene

mcVars == <<scene, vars>>

Install(k, approval, version, watch, create) ==
  [kind |-> "install", pkg |-> k, approval |-> approval, version |-> version,
   create |-> create, watch |-> watch]

Upgrade(k) == [Install(k, "Manual", 0, <<>>, FALSE) EXCEPT !.kind = "upgrade"]

\* Package "a" watches all namespaces or its own, and later only its own; "b"
\* watches namespaces that it is told.
MCModes == [k \in Pkgs |-> [n \in Versions |->
  CASE k = "a" /\ n = 1 -> {"AllNamespaces", "OwnNamespace"}
    [] k = "a" /\ n # 1 -> {"OwnNamespace"}
    [] OTHER -> {"OwnNamespace", "SingleNamespace", "MultiNamespace"}]]

EveryWatch == {<<>>, <<"">>, <<"own">>, <<"x">>, <<"own", "x">>}

\* Each scene has the versions of each package at first, those that installs of
\* "a" ask for, the approvals, namespaces and --create-operator-group of those
\* of "b", and the operator groups at first.
Scenes == [
  groups |-> [heads |-> {0, 1, 2}, pins |-> {0, 1}, chosen |-> {"Manual"}, watching |-> EveryWatch,
              creating |-> BOOLEAN, first |-> {{}, {"own"}, {"other"}, {"own", "other"}}],
  plans  |-> [heads |-> {1}, pins |-> {1}, chosen |-> {"Manual"}, watching |-> {<<"own">>},
              creating |-> {TRUE}, first |-> {{"own"}}],
  ends   |-> [heads |-> {1, 2}, pins |-> {1, 2}, chosen |-> {"Automatic", "Manual"},
              watching |-> {<<"own">>}, creating |-> {TRUE}, first |-> {{"own"}}]]

The == Scenes[scene]

JobsOf(s) ==
  {Install("a", "Manual", n, <<>>, TRUE) : n \in s.pins}
    \cup {Install("b", approval, 0, watch, create) :
             approval \in s.chosen, watch \in s.watching, create \in s.creating}
    \cup {Upgrade("a")}

MCJobs == UNION {JobsOf(Scenes[s]) : s \in Asked}

\* Runs are numbered, and their numbers follow what they are asked for: no two
\* are asked for the same, and which is which does not matter.
Rank(j) == CASE j.kind = "upgrade" -> 1 [] j.pkg = "a" /\ j.kind = "install" -> 2 [] OTHER -> 3

MCInit ==
  /\ scene \in Asked
  /\ job \in [Procs -> JobsOf(The)]
  /\ \A p, q \in Procs : p < q => Rank(job[p]) < Rank(job[q])
  /\ Init
  /\ \A k \in Pkgs : head[k] \in The.heads
  /\ LiveGroups \in The.first
  /\ scene = "groups" => NoPackages

\* When every run has ended, nothing that the cluster does concerns them.
Watched == \E p \in Procs : pc[p] \in Calls

\* One scene is about the groups, and the calls that fail until an install has
\* one; the others are about the plans.
MCNext ==
  /\ \/ \E p \in Procs : Command(p)
     \/ scene = "groups" /\ \E p \in Procs : GiveUp(p)
     \/ Watched /\ Olm /\ (scene = "groups" => plans' = plans)
     \/ Watched /\ Outsiders /\ IF scene = "groups" THEN subs' = subs ELSE groups' = groups
  /\ UNCHANGED scene

MCSpec     == MCInit /\ [][MCNext]_mcVars
MCFairSpec == MCSpec /\ Fairness
=============================================================================
