----------------------- MODULE OperatorInstallProofs -----------------------
(***************************************************************************)
(* What an install and an upgrade promise, for every set of runs, packages,*)
(* jobs and operator groups: types, that a conflict means contention, that *)
(* an approval brings the package forward, that success means that it was  *)
(* installed, and that an install goes on in a namespace with one group    *)
(* that suits it.                                                          *)
(*                                                                         *)
(* The promises speak of the end of a run; what makes them true was decided*)
(* calls earlier, on what has changed since.  IInv says what remains true  *)
(* in between: of a subscription and the plan that it refers to (ReferInv),*)
(* of a plan that is carried out (CompleteInv), of a run and the plan that *)
(* it follows (RunsInv), of its attempts to approve it (ApprovalInv), and  *)
(* of the namespace's groups (GroupsInv).                                  *)
(***************************************************************************)
EXTENDS OperatorInstall, FiniteSetTheorems, SequenceTheorems, TLAPS

\* The calls of a run before it follows a plan, and from then on.
Before == {"GetPackage", "ListGroups", "CreateGroup", "CreateSub", "PollRef", "FindSub"}
After  == {"GetPlan", "ApproveGet", "ApproveUpdate", "WaitPlan", "GetCSV", "Done"}

ClusterType ==
  /\ head \in [Pkgs -> 0..MaxVersion]
  /\ groups \in [GroupNames -> Group \cup {None}]
  /\ subs \in [Pkgs -> Sub \cup {None}]
  /\ plans \in Seq(Plan) /\ Len(plans) <= MaxPlans
  /\ csvs \subseteq ever /\ ever \subseteq CSVs
  /\ quiet \in BOOLEAN

RunsType ==
  /\ job \in [Procs -> Jobs]
  /\ pc \in [Procs -> Calls \cup Ended]
  /\ why \in [Procs -> Reasons]
  /\ entries \in [Procs -> 0..MaxVersion]
  /\ plan \in [Procs -> 0..Len(plans)]
  /\ fresh \in [Procs -> BOOLEAN]
  /\ tries \in [Procs -> 0..Attempts]
  /\ result \in [Procs -> CSVs \cup {None}]
  /\ holds \in [Procs -> SUBSET Facts]
  /\ beaten \in [Procs -> 0..Attempts]
  /\ base \in [Procs -> 0..MaxVersion]

\* A subscription and the plan that it refers to: the plan installs its current
\* version, which is the one that it starts with as long as none is installed.
Refers(k) ==
  LET s == subs[k] IN
  /\ s.ref <= Len(plans)
  /\ s.installed <= s.current /\ s.current <= head[k]
  /\ IF s.ref = 0 THEN s.current = 0
                  ELSE s.current # 0 /\ <<k, s.current>> \in plans[s.ref].csvs
  /\ s.starting # 0 /\ s.ref # 0 /\ s.installed = 0 => s.current = s.starting
  /\ s.starting # 0 /\ s.installed # 0 => <<k, s.starting>> \in ever

ReferInv == \A k \in Pkgs : subs[k] # None => Refers(k)

CompleteInv ==
  \A i \in 1..Len(plans) : plans[i].phase = "Complete" => plans[i].csvs \subseteq ever

ClusterInv == ClusterType /\ ReferInv /\ CompleteInv

\* A run and the plan that it follows.
Forward(p) == \E n \in Versions : n > base[p] /\ <<job[p].pkg, n>> \in plans[plan[p]].csvs

Made(p) == subs[job[p].pkg] # None /\ subs[job[p].pkg].starting = job[p].version

Pinned(p) == <<job[p].pkg, job[p].version>> \in ever \cup plans[plan[p]].csvs

Run(p) ==
  /\ pc[p] \in Before => plan[p] = 0 /\ base[p] = 0
  /\ pc[p] \in After => plan[p] # 0
  /\ "approval" \in holds[p] => plan[p] # 0
  /\ plan[p] # 0 => Forward(p)
  /\ pc[p] \in {"GetCSV", "Done"} => plans[plan[p]].csvs \subseteq ever
  /\ "sub" \in holds[p] => Made(p)
  /\ "sub" \in holds[p] /\ plan[p] # 0 /\ job[p].version # 0 => Pinned(p)

RunsInv == \A p \in Procs : Run(p)

\* A run that has read a plan afresh has attempts left, and each attempt that
\* it has lost was lost to a write by somebody else.
Attempted(p) ==
  /\ fresh[p] => pc[p] \in {"ApproveUpdate", "Failed"} /\ beaten[p] < Attempts
  /\ pc[p] \in Calls \ {"WaitPlan", "GetCSV"} => tries[p] < Attempts
  /\ pc[p] \in Calls =>
       beaten[p] = IF pc[p] = "ApproveUpdate" /\ ~fresh[p] THEN tries[p] + 1 ELSE tries[p]
  /\ why[p] = "conflict" => pc[p] = "Failed" /\ beaten[p] = Attempts /\ ~fresh[p]

ApprovalInv == \A p \in Procs : Attempted(p)

\* The groups that an install has found, or is about to make.
Unlisted == {"GetPackage", "ListGroups", "FindSub"}

GroupsInv ==
  /\ \A g \in LiveGroups : groups[g].status \in {<<>>, StatusOf(groups[g].targets)}
  /\ quiet => \A p \in Procs :
       pc[p] = "CreateGroup" => LiveGroups \subseteq {Own} /\ Supported(p) # {}
  /\ \A p \in Procs : pc[p] \in Unlisted => "group" \notin holds[p]
  /\ GroupSuits

\* The groups concern nothing but the groups.
CoreInv == ClusterInv /\ RunsType /\ RunsInv /\ ApprovalInv

IInv == CoreInv /\ GroupsInv

LEMMA IInvTypes == IInv => TypeOK
BY DEF IInv, CoreInv, ClusterInv, ClusterType, RunsType, TypeOK

-----------------------------------------------------------------------------
(***************************************************************************)
(* Objects of the cluster.                                                 *)
(***************************************************************************)

LEMMA NoSubIsNone == \A s \in Sub : s # None
BY NoneIsNoObject

LEMMA SubFields ==
  ASSUME NEW s \in Sub
  PROVE  /\ s.ref \in 0..MaxPlans /\ s.current \in 0..MaxVersion
         /\ s.installed \in 0..MaxVersion /\ s.starting \in Nat
BY DEF Sub

LEMMA NewPlanType ==
  ASSUME NEW K \in SUBSET Pkgs, NEW C \in SUBSET CSVs, NEW c \in C, NEW a \in BOOLEAN,
         NEW x \in {"Waiting", "Complete"}, NEW o,
         o = [owners |-> K, csvs |-> C, last |-> c, phase |-> x, approved |-> a]
  PROVE  o \in Plan /\ o.csvs = C /\ o.phase = x
BY DEF Plan

LEMMA PlanAt ==
  ASSUME ClusterType, NEW i \in 1..Len(plans)
  PROVE  /\ plans[i] \in Plan /\ plans[i].csvs \subseteq CSVs /\ plans[i].last \in CSVs
         /\ plans[i].owners \subseteq Pkgs
<1>1. plans[i] \in Plan
  BY ElementOfSeq DEF ClusterType
<1> QED
  BY <1>1 DEF Plan

\* What no step undoes, as far as the runs can tell: what a plan installs, and
\* that a CSV has existed.
Kept ==
  /\ ever \subseteq ever' /\ Len(plans) <= Len(plans')
  /\ \A i \in 1..Len(plans) : plans'[i].csvs = plans[i].csvs

\* A plan that is written in place.
LEMMA PlanPut ==
  ASSUME ClusterType, NEW i \in 1..Len(plans), NEW o \in Plan, o.csvs = plans[i].csvs,
         plans' = [plans EXCEPT ![i] = o], ever \subseteq ever'
  PROVE  /\ plans' \in Seq(Plan) /\ Len(plans') = Len(plans) /\ Kept
         /\ \A j \in 1..Len(plans) : plans'[j] = IF j = i THEN o ELSE plans[j]
<1>1. plans \in Seq(Plan)
  BY DEF ClusterType
<1>2. /\ [plans EXCEPT ![i] = o] \in Seq(Plan)
      /\ Len([plans EXCEPT ![i] = o]) = Len(plans)
      /\ \A j \in 1..Len(plans) : [plans EXCEPT ![i] = o][j] = IF j = i THEN o ELSE plans[j]
  BY <1>1, ExceptSeq
<1>3. Len(plans) \in Nat
  BY <1>1, LenProperties
<1> QED
  BY <1>2, <1>3 DEF Kept

-----------------------------------------------------------------------------
(***************************************************************************)
(* What a step does to the cluster.                                        *)
(***************************************************************************)

SubsKept ==
  \A k \in Pkgs : subs[k] # None => subs'[k] # None /\ subs'[k].starting = subs[k].starting

LEMMA LenIsNat == ClusterType => Len(plans) \in Nat
BY LenProperties DEF ClusterType

LEMMA SubAt ==
  ASSUME ClusterType, NEW k \in Pkgs, subs[k] # None
  PROVE  subs[k] \in Sub
BY DEF ClusterType

\* A subscription that a step does not write still refers to what it did.
LEMMA StillRefers ==
  ASSUME ClusterInv, Kept, NEW k \in Pkgs, subs[k] # None, subs'[k] = subs[k],
         head'[k] \in 0..MaxVersion, head[k] <= head'[k], Len(plans') \in Nat
  PROVE  Refers(k)'
<1>1. subs[k] \in Sub /\ Refers(k)
  BY SubAt DEF ClusterInv, ReferInv
<1>2. /\ subs[k].ref \in 0..MaxPlans /\ subs[k].current \in 0..MaxVersion
      /\ subs[k].installed \in 0..MaxVersion
  BY <1>1, SubFields
<1>3. subs[k].ref # 0 => plans'[subs[k].ref].csvs = plans[subs[k].ref].csvs
  BY <1>1, <1>2, LenIsNat DEF Kept, Refers, ClusterInv
<1>4. head[k] \in 0..MaxVersion /\ Len(plans) \in Nat
  BY LenIsNat DEF ClusterInv, ClusterType
<1>5. subs[k].current <= head'[k] /\ subs[k].ref <= Len(plans')
  BY <1>1, <1>2, <1>4, BoundsAreNats DEF Refers, Kept
<1> QED
  BY <1>1, <1>3, <1>5 DEF Refers, Kept

LEMMA KeepsReferences ==
  ASSUME ClusterInv, Kept, subs' = subs, head' \in [Pkgs -> 0..MaxVersion],
         \A k \in Pkgs : head[k] <= head'[k], Len(plans') \in Nat
  PROVE  ReferInv' /\ SubsKept
<1>1. ASSUME NEW k \in Pkgs, subs[k] # None
      PROVE  Refers(k)'
  BY <1>1, StillRefers
<1> QED
  BY <1>1 DEF ReferInv, SubsKept

\* A step that writes no plan.
LEMMA SamePlans ==
  ASSUME ClusterInv, plans' = plans, ever' = ever
  PROVE  Kept /\ CompleteInv' /\ Len(plans') \in Nat
BY LenIsNat DEF Kept, CompleteInv, ClusterInv

\* A step that writes no plan and no subscription.
LEMMA OnlyGroups ==
  ASSUME ClusterInv, UNCHANGED <<head, subs, plans, csvs, ever>>,
         groups' \in [GroupNames -> Group \cup {None}], quiet' \in BOOLEAN
  PROVE  ClusterInv' /\ Kept /\ SubsKept
<1>1. Kept /\ CompleteInv' /\ Len(plans') \in Nat
  BY SamePlans
<1>2. \A k \in Pkgs : head[k] <= head'[k]
  BY BoundsAreNats DEF ClusterInv, ClusterType
<1>3. ReferInv' /\ SubsKept
  BY <1>1, <1>2, KeepsReferences DEF ClusterInv, ClusterType
<1> QED
  BY <1>1, <1>3 DEF ClusterInv, ClusterType

LEMMA SameCluster ==
  ASSUME ClusterInv, UNCHANGED <<cluster, ever, quiet>>
  PROVE  ClusterInv' /\ Kept /\ SubsKept
<1>1. groups' \in [GroupNames -> Group \cup {None}] /\ quiet' \in BOOLEAN
  BY DEF ClusterInv, ClusterType, cluster
<1> QED
  BY <1>1, OnlyGroups DEF cluster

LEMMA PublishStep ==
  ASSUME ClusterInv, NEW k \in Pkgs, Publish(k)
  PROVE  ClusterInv' /\ Kept /\ SubsKept
<1>1. Kept /\ CompleteInv' /\ Len(plans') \in Nat
  BY SamePlans DEF Publish, history
<1>2. \A j \in Pkgs : head[j] \in 0..MaxVersion
  BY DEF ClusterInv, ClusterType
<1>3. head' \in [Pkgs -> 0..MaxVersion]
  BY <1>2, BoundsAreNats DEF Publish, ClusterInv, ClusterType
<1>4. \A j \in Pkgs : head[j] <= head'[j]
  BY <1>2, BoundsAreNats DEF Publish, ClusterInv, ClusterType
<1>5. ReferInv' /\ SubsKept
  BY <1>1, <1>3, <1>4, KeepsReferences DEF Publish
<1> QED
  BY <1>1, <1>3, <1>5 DEF Publish, ClusterInv, ClusterType, history

LEMMA Singleton == ASSUME NEW S, NEW x \in S PROVE <<x>> \in Seq(S)
OBVIOUS

LEMMA Lists ==
  <<>> \in Seq(STRING) /\ <<AllNamespaces>> \in Seq(STRING) /\ <<Own>> \in Seq(STRING)
BY Singleton, EmptySeq, NamesAreStrings

LEMMA StatusOfType == \A t \in Seq(STRING) : StatusOf(t) \in Seq(STRING)
BY Lists DEF StatusOf

LEMMA NewGroupType ==
  ASSUME NEW t \in Seq(STRING), NEW s \in Seq(STRING)
  PROVE  LET o == [targets |-> t, status |-> s]
         IN  o \in Group /\ o.targets = t /\ o.status = s
BY DEF Group

LEMMA SyncedGroup ==
  ASSUME NEW o \in Group
  PROVE  LET s == [o EXCEPT !.status = StatusOf(o.targets)]
         IN  s \in Group /\ s.targets = o.targets /\ s.status = StatusOf(o.targets)
<1>1. o.targets \in Seq(STRING)
  BY DEF Group
<1>2. StatusOf(o.targets) \in Seq(STRING)
  BY <1>1, StatusOfType
<1> QED
  BY <1>2 DEF Group

LEMMA SyncGroupStep ==
  ASSUME ClusterInv, NEW g \in GroupNames, SyncGroup(g)
  PROVE  ClusterInv' /\ Kept /\ SubsKept
<1>1. groups[g] \in Group
  BY DEF SyncGroup, LiveGroups, ClusterInv, ClusterType
<1>2. [groups[g] EXCEPT !.status = StatusOf(groups[g].targets)] \in Group
  BY <1>1, SyncedGroup
<1>3. groups' \in [GroupNames -> Group \cup {None}]
  BY <1>2 DEF SyncGroup, ClusterInv, ClusterType
<1>4. quiet' \in BOOLEAN
  BY DEF SyncGroup, ClusterInv, ClusterType, history
<1> QED
  BY <1>3, <1>4, OnlyGroups DEF SyncGroup, history

LEMMA ChangeGroupStep ==
  ASSUME ClusterInv, NEW g \in GroupNames, ChangeGroup(g)
  PROVE  ClusterInv' /\ Kept /\ SubsKept
<1>1. \A t \in {<<>>, <<Own>>} : [targets |-> t, status |-> <<>>] \in Group
  BY Lists, NewGroupType
<1>2. groups' \in [GroupNames -> Group \cup {None}]
  BY <1>1 DEF ChangeGroup, ClusterInv, ClusterType
<1> QED
  BY <1>2, OnlyGroups DEF ChangeGroup

-----------------------------------------------------------------------------
(***************************************************************************)
(* OLM makes plans and carries them out.                                   *)
(***************************************************************************)

\* What OLM wants for a namespace that it can resolve.
LEMMA WantType ==
  ASSUME ClusterInv, Resolvable, NEW k \in Pending
  PROVE  /\ k \in Pkgs /\ subs[k] \in Sub /\ Refers(k)
         /\ Want(k) \in Versions /\ Want(k) <= head[k] /\ subs[k].installed <= Want(k)
<1>1. k \in Pkgs /\ subs[k] # None /\ Want(k) \in 1..head[k]
  BY DEF Pending, Subscribed, Resolvable
<1>2. subs[k] \in Sub /\ Refers(k)
  BY <1>1, SubAt DEF ClusterInv, ReferInv
<1>3. head[k] \in 0..MaxVersion
  BY <1>1 DEF ClusterInv, ClusterType
<1>4. subs[k].current \in 0..MaxVersion /\ subs[k].installed \in 0..MaxVersion
  BY <1>2, SubFields
<1>5. Want(k) \in Versions /\ Want(k) <= head[k]
  BY <1>1, <1>3, BoundsAreNats DEF Versions
<1>6. subs[k].installed <= Want(k)
  <2>1. CASE subs[k].installed = 0
    BY <1>5, <2>1, BoundsAreNats DEF Versions
  <2>2. CASE subs[k].installed # 0
    <3>1. Want(k) = head[k]
      BY <2>2 DEF Want
    <3> QED
      BY <1>2, <1>3, <1>4, <3>1, BoundsAreNats DEF Refers
  <2> QED
    BY <2>1, <2>2
<1> QED
  BY <1>1, <1>2, <1>5, <1>6

LEMMA WantedType ==
  ASSUME ClusterInv, Resolvable
  PROVE  Pending \subseteq Pkgs /\ Wanted \subseteq CSVs
BY WantType DEF Wanted, CSVs

LEMMA ReferStep ==
  ASSUME ClusterInv, Resolvable, Kept, NEW i \in 1..Len(plans'), Refer(i),
         plans'[i].csvs = Wanted, Len(plans') \in Nat, Len(plans') <= MaxPlans,
         head' = head, ever' = ever
  PROVE  subs' \in [Pkgs -> Sub \cup {None}] /\ ReferInv' /\ SubsKept
<1>1. ASSUME NEW k \in Pending
      PROVE  /\ subs'[k] \in Sub /\ Refers(k)' /\ subs'[k] # None
             /\ subs'[k].starting = subs[k].starting
  <2>1. /\ k \in Pkgs /\ subs[k] \in Sub /\ Refers(k)
        /\ Want(k) \in Versions /\ Want(k) <= head[k] /\ subs[k].installed <= Want(k)
    BY WantType
  <2>2. i \in 0..MaxPlans /\ Want(k) \in 0..MaxVersion /\ i <= Len(plans') /\ i # 0
    BY <2>1, BoundsAreNats DEF Versions
  <2>3. subs'[k] = [subs[k] EXCEPT !.ref = i, !.current = Want(k)]
    BY <2>1 DEF Refer
  <2>4. /\ subs'[k] \in Sub /\ subs'[k].ref = i /\ subs'[k].current = Want(k)
        /\ subs'[k].installed = subs[k].installed /\ subs'[k].starting = subs[k].starting
    BY <2>1, <2>2, <2>3 DEF Sub
  <2>5. <<k, Want(k)>> \in plans'[i].csvs
    BY DEF Wanted
  <2>6. Want(k) # 0
    BY <2>1, BoundsAreNats DEF Versions
  <2>7. subs[k].starting # 0 /\ subs[k].installed = 0 => Want(k) = subs[k].starting
    BY DEF Want
  <2>8. Refers(k)'
    BY <2>1, <2>2, <2>4, <2>5, <2>6, <2>7 DEF Refers
  <2> QED
    BY <2>4, <2>8, NoSubIsNone
<1>2. ASSUME NEW k \in Pkgs, k \notin Pending
      PROVE  subs'[k] = subs[k]
  BY <1>2 DEF Refer
<1>3. ASSUME NEW k \in Pkgs, k \notin Pending, subs[k] # None
      PROVE  Refers(k)'
  <2>1. head'[k] \in 0..MaxVersion /\ head[k] <= head'[k]
    BY BoundsAreNats DEF ClusterInv, ClusterType
  <2> QED
    BY <1>2, <1>3, <2>1, StillRefers
<1>4. subs' \in [Pkgs -> Sub \cup {None}]
  <2>1. subs' = [k \in Pkgs |-> subs'[k]]
    BY DEF Refer
  <2>2. \A k \in Pkgs : subs'[k] \in Sub \cup {None}
    BY <1>1, <1>2 DEF ClusterInv, ClusterType
  <2> QED
    BY <2>1, <2>2
<1> QED
  BY <1>1, <1>2, <1>3, <1>4 DEF ReferInv, SubsKept

LEMMA MakePlanStep ==
  ASSUME ClusterInv, MakePlan
  PROVE  ClusterInv' /\ Kept /\ SubsKept
<1> DEFINE n == Len(plans) + 1
<1>1. plans \in Seq(Plan) /\ Len(plans) \in Nat /\ ever' = ever /\ head' = head
  BY LenIsNat DEF ClusterInv, ClusterType, MakePlan, history
<1>2. PICK o \in Plan : plans' = Append(plans, o) /\ o.csvs = Wanted /\ o.phase = "Waiting"
  <2>1. PICK c \in Wanted :
          plans' = Append(plans,
            [owners |-> Pending, csvs |-> Wanted, last |-> c, phase |-> "Waiting",
             approved |-> \A k \in Subscribed : subs[k].approval = "Automatic"])
    BY DEF MakePlan
  <2>2. PICK a \in BOOLEAN : a = (\A k \in Subscribed : subs[k].approval = "Automatic")
    OBVIOUS
  <2>3. Pending \in SUBSET Pkgs /\ Wanted \in SUBSET CSVs
    BY WantedType DEF MakePlan
  <2>4. PICK o : o = [owners |-> Pending, csvs |-> Wanted, last |-> c, phase |-> "Waiting",
                      approved |-> a]
    OBVIOUS
  <2>5. o \in Plan /\ o.csvs = Wanted /\ o.phase = "Waiting"
    BY <2>3, <2>4, NewPlanType
  <2>6. plans' = Append(plans, o)
    BY <2>1, <2>2, <2>4
  <2> QED
    BY <2>5, <2>6
<1>3. /\ plans' \in Seq(Plan) /\ Len(plans') = n /\ plans'[n] = o
      /\ \A i \in 1..Len(plans) : plans'[i] = plans[i]
  BY <1>1, <1>2
<1>4. Kept /\ n \in 1..Len(plans') /\ Len(plans') \in Nat /\ Len(plans') <= MaxPlans
  BY <1>1, <1>3, BoundsAreNats DEF Kept, MakePlan
<1>5. plans'[n].csvs = Wanted /\ Refer(n)
  BY <1>2, <1>3 DEF MakePlan
<1>6. Resolvable
  BY DEF MakePlan
<1> HIDE DEF n
<1>7. subs' \in [Pkgs -> Sub \cup {None}] /\ ReferInv' /\ SubsKept
  BY <1>1, <1>4, <1>5, <1>6, ReferStep
<1>8. CompleteInv'
  <2> SUFFICES ASSUME NEW i \in 1..Len(plans'), plans'[i].phase = "Complete"
               PROVE  plans'[i].csvs \subseteq ever'
    BY DEF CompleteInv
  <2>1. i # n
    BY <1>2, <1>3
  <2>2. i \in 1..Len(plans)
    BY <1>1, <1>3, <2>1 DEF n
  <2> QED
    BY <1>1, <1>3, <2>2 DEF CompleteInv, ClusterInv
<1> QED
  BY <1>3, <1>4, <1>7, <1>8 DEF ClusterInv, ClusterType, MakePlan, history

\* A step that writes plan i in place.
LEMMA PutKeepsComplete ==
  ASSUME ClusterInv, NEW i \in 1..Len(plans), NEW o \in Plan, o.csvs = plans[i].csvs,
         plans' = [plans EXCEPT ![i] = o], ever \subseteq ever',
         o.phase = "Complete" => o.csvs \subseteq ever' \/ o.phase = plans[i].phase
  PROVE  /\ plans' \in Seq(Plan) /\ Len(plans') = Len(plans) /\ Len(plans') \in Nat
         /\ Len(plans') <= MaxPlans /\ Kept /\ CompleteInv' /\ plans'[i] = o
<1>1. /\ plans' \in Seq(Plan) /\ Len(plans') = Len(plans) /\ Kept
      /\ \A j \in 1..Len(plans) : plans'[j] = IF j = i THEN o ELSE plans[j]
  BY PlanPut DEF ClusterInv
<1>2. CompleteInv'
  BY <1>1 DEF CompleteInv, ClusterInv
<1> QED
  BY <1>1, <1>2, LenIsNat DEF ClusterInv, ClusterType

\* Such a step writes nothing else that a subscription refers to.
LEMMA PutStep ==
  ASSUME ClusterInv, NEW i \in 1..Len(plans), NEW o \in Plan, o.csvs = plans[i].csvs,
         plans' = [plans EXCEPT ![i] = o], ever \subseteq ever',
         o.phase = "Complete" => o.csvs \subseteq ever' \/ o.phase = plans[i].phase,
         csvs' \subseteq ever', ever' \subseteq CSVs, UNCHANGED <<head, groups, subs, quiet>>
  PROVE  ClusterInv' /\ Kept /\ SubsKept
<1>1. /\ plans' \in Seq(Plan) /\ Len(plans') \in Nat
      /\ Len(plans') <= MaxPlans /\ Kept /\ CompleteInv'
  BY PutKeepsComplete
<1>2. \A k \in Pkgs : head[k] <= head'[k]
  BY BoundsAreNats DEF ClusterInv, ClusterType
<1>3. ReferInv' /\ SubsKept
  BY <1>1, <1>2, KeepsReferences DEF ClusterInv, ClusterType
<1> QED
  BY <1>1, <1>3 DEF ClusterInv, ClusterType

LEMMA ReusePlanStep ==
  ASSUME ClusterInv, NEW i \in 1..Len(plans), ReusePlan(i)
  PROVE  ClusterInv' /\ Kept /\ SubsKept
<1>1. Resolvable /\ plans[i].csvs = Wanted /\ Refer(i) /\ head' = head /\ ever' = ever
  BY DEF ReusePlan
<1>2. plans[i] \in Plan /\ Pending \subseteq Pkgs
  BY <1>1, PlanAt, WantedType DEF ClusterInv
<1>3. PICK o : o = [plans[i] EXCEPT !.owners = plans[i].owners \cup Pending]
  OBVIOUS
<1>4. /\ plans' = [plans EXCEPT ![i] = o] /\ o \in Plan
      /\ o.csvs = plans[i].csvs /\ o.phase = plans[i].phase
  BY <1>2, <1>3 DEF ReusePlan, Plan
<1>5. /\ plans' \in Seq(Plan) /\ Len(plans') = Len(plans) /\ Len(plans') \in Nat
      /\ Len(plans') <= MaxPlans /\ Kept /\ CompleteInv' /\ plans'[i] = o
  BY <1>1, <1>4, PutKeepsComplete
<1>6. plans'[i].csvs = Wanted /\ i \in 1..Len(plans')
  BY <1>1, <1>4, <1>5
<1>7. subs' \in [Pkgs -> Sub \cup {None}] /\ ReferInv' /\ SubsKept
  BY <1>1, <1>5, <1>6, ReferStep
<1> QED
  BY <1>5, <1>7 DEF ClusterInv, ClusterType, ReusePlan

LEMMA ExecutePlanStep ==
  ASSUME ClusterInv, NEW i \in 1..Len(plans), ExecutePlan(i)
  PROVE  ClusterInv' /\ Kept /\ SubsKept
<1>1. plans[i] \in Plan /\ plans[i].csvs \subseteq CSVs
  BY PlanAt DEF ClusterInv
<1>2. ever' = ever \cup csvs' /\ csvs' \subseteq csvs \cup plans[i].csvs
  BY DEF ExecutePlan
<1>3. csvs' \subseteq ever' /\ ever \subseteq ever' /\ ever' \subseteq CSVs
  BY <1>1, <1>2 DEF ClusterInv, ClusterType
<1>4. PICK x \in {"Complete", "Failed"} :
        /\ plans' = [plans EXCEPT ![i].phase = x]
        /\ x = "Complete" => plans[i].csvs \subseteq ever'
  BY <1>2 DEF ExecutePlan
<1>5. PICK o : o = [plans[i] EXCEPT !.phase = x]
  OBVIOUS
<1>6. plans' = [plans EXCEPT ![i] = o] /\ o \in Plan /\ o.csvs = plans[i].csvs /\ o.phase = x
  BY <1>1, <1>4, <1>5 DEF Plan
<1>7. UNCHANGED <<head, groups, subs, quiet>>
  BY DEF ExecutePlan
<1> QED
  BY <1>3, <1>4, <1>6, <1>7, PutStep

LEMMA CollectPlanStep ==
  ASSUME ClusterInv, NEW i \in 1..Len(plans), CollectPlan(i)
  PROVE  ClusterInv' /\ Kept /\ SubsKept
<1>1. PICK o : o = [plans[i] EXCEPT !.phase = "Gone"]
  OBVIOUS
<1>2. plans' = [plans EXCEPT ![i] = o] /\ o \in Plan /\ o.csvs = plans[i].csvs /\ o.phase = "Gone"
  BY <1>1, PlanAt DEF CollectPlan, ClusterInv, Plan
<1>3. /\ UNCHANGED <<head, groups, subs, quiet>>
      /\ csvs' \subseteq ever' /\ ever \subseteq ever' /\ ever' \subseteq CSVs
  BY DEF CollectPlan, history, ClusterInv, ClusterType
<1> QED
  BY <1>2, <1>3, PutStep

LEMMA ApprovedPlanStep ==
  ASSUME ClusterInv, NEW i \in 1..Len(plans), plans' = [plans EXCEPT ![i].approved = TRUE],
         UNCHANGED <<head, groups, subs, csvs, ever, quiet>>
  PROVE  ClusterInv' /\ Kept /\ SubsKept
<1>1. PICK o : o = [plans[i] EXCEPT !.approved = TRUE]
  OBVIOUS
<1>2. /\ plans' = [plans EXCEPT ![i] = o] /\ o \in Plan
      /\ o.csvs = plans[i].csvs /\ o.phase = plans[i].phase
  BY <1>1, PlanAt DEF ClusterInv, Plan
<1>3. csvs' \subseteq ever' /\ ever \subseteq ever' /\ ever' \subseteq CSVs
  BY DEF ClusterInv, ClusterType
<1> QED
  BY <1>2, <1>3, PutStep

\* Version 0 is no CSV.
LEMMA NoVersionZero == \A k : <<k, 0>> \notin CSVs
BY BoundsAreNats DEF CSVs, Versions

LEMMA SyncInstalledStep ==
  ASSUME ClusterInv, NEW k \in Pkgs, SyncInstalled(k)
  PROVE  ClusterInv' /\ Kept /\ SubsKept
<1>1. Kept /\ CompleteInv' /\ Len(plans') \in Nat
  BY SamePlans DEF SyncInstalled, history
<1>2. subs[k] # None /\ subs[k] \in Sub /\ Refers(k)
  BY SubAt DEF SyncInstalled, Subscribed, ClusterInv, ReferInv
<1>3. subs' = [subs EXCEPT ![k] = [subs[k] EXCEPT !.installed = subs[k].current]]
  BY DEF SyncInstalled
<1>4. PICK t : t = [subs[k] EXCEPT !.installed = subs[k].current]
  OBVIOUS
<1>5. /\ subs' = [subs EXCEPT ![k] = t] /\ t \in Sub
      /\ t.ref = subs[k].ref /\ t.current = subs[k].current
      /\ t.installed = subs[k].current /\ t.starting = subs[k].starting
  BY <1>2, <1>3, <1>4 DEF Sub
<1>6. subs' \in [Pkgs -> Sub \cup {None}] /\ subs'[k] = t /\ subs'[k] # None
  BY <1>5, NoSubIsNone DEF ClusterInv, ClusterType
<1>7. \A j \in Pkgs : j # k => subs'[j] = subs[j]
  BY <1>5 DEF ClusterInv, ClusterType
<1>8. SubsKept
  BY <1>5, <1>6, <1>7 DEF SubsKept
<1>9. \A j \in Pkgs : head'[j] \in 0..MaxVersion /\ head[j] <= head'[j]
  BY BoundsAreNats DEF SyncInstalled, ClusterInv, ClusterType
<1>10. Refers(k)'
  <2>1. <<k, subs[k].current>> \in ever /\ subs[k].current # 0
    BY NoVersionZero DEF SyncInstalled, ClusterInv, ClusterType
  <2>2. subs[k].current \in 0..MaxVersion /\ subs[k].ref # 0
    BY <1>2, <2>1, SubFields DEF Refers
  <2>3. subs[k].starting # 0 => <<k, subs[k].starting>> \in ever
    BY <1>2, <2>1, <2>2 DEF Refers
  <2>4. subs[k].current <= subs[k].current
    BY <2>2, BoundsAreNats
  <2>5. plans' = plans /\ ever' = ever /\ head' = head
    BY DEF SyncInstalled, history
  <2> QED
    BY <1>2, <1>5, <1>6, <2>1, <2>2, <2>3, <2>4, <2>5 DEF Refers
<1>11. ReferInv'
  <2> SUFFICES ASSUME NEW j \in Pkgs, subs'[j] # None
               PROVE  Refers(j)'
    BY DEF ReferInv
  <2>1. CASE j = k
    BY <1>10, <2>1
  <2>2. CASE j # k
    BY <1>1, <1>7, <1>9, <2>2, StillRefers
  <2> QED
    BY <2>1, <2>2
<1> QED
  BY <1>1, <1>6, <1>8, <1>11 DEF SyncInstalled, history, ClusterInv, ClusterType

LEMMA ReplaceCSVStep ==
  ASSUME ClusterInv, NEW c, ReplaceCSV(c)
  PROVE  ClusterInv' /\ Kept /\ SubsKept
<1>1. Kept /\ CompleteInv' /\ Len(plans') \in Nat
  BY SamePlans DEF ReplaceCSV, history
<1>2. \A j \in Pkgs : head[j] <= head'[j]
  BY BoundsAreNats DEF ReplaceCSV, ClusterInv, ClusterType
<1>3. ReferInv' /\ SubsKept
  BY <1>1, <1>2, KeepsReferences DEF ReplaceCSV, ClusterInv, ClusterType
<1> QED
  BY <1>1, <1>3 DEF ReplaceCSV, history, ClusterInv, ClusterType

LEMMA OwnedPlans ==
  ASSUME ClusterInv, NEW k \in Pkgs, ever' = ever,
         plans' = [i \in DOMAIN plans |-> [plans[i] EXCEPT !.owners = @ \ {k}]]
  PROVE  /\ plans' \in Seq(Plan) /\ Len(plans') = Len(plans) /\ Len(plans') \in Nat
         /\ Kept /\ CompleteInv'
<1>1. plans \in Seq(Plan) /\ Len(plans) \in Nat /\ DOMAIN plans = 1..Len(plans)
  BY LenProperties DEF ClusterInv, ClusterType
<1>2. ASSUME NEW i \in 1..Len(plans)
      PROVE  /\ plans'[i] \in Plan /\ plans'[i].csvs = plans[i].csvs
             /\ plans'[i].phase = plans[i].phase
  <2>1. plans[i] \in Plan
    BY PlanAt DEF ClusterInv
  <2>2. PICK K \in SUBSET Pkgs : K = plans[i].owners \ {k}
    BY PlanAt DEF ClusterInv
  <2>3. plans'[i] = [plans[i] EXCEPT !.owners = K]
    BY <1>1, <2>2
  <2>4. plans'[i] \in Plan
    BY <2>1, <2>3 DEF Plan
  <2>5. plans'[i].csvs = plans[i].csvs
    BY <2>1, <2>3 DEF Plan
  <2>6. plans'[i].phase = plans[i].phase
    BY <2>1, <2>3 DEF Plan
  <2> QED
    BY <2>4, <2>5, <2>6
<1>3. plans' = [i \in 1..Len(plans) |-> plans'[i]]
  BY <1>1
<1>4. plans' \in Seq(Plan) /\ Len(plans') = Len(plans)
  BY <1>1, <1>2, <1>3
<1>5. Kept /\ CompleteInv'
  BY <1>1, <1>2, <1>4 DEF Kept, CompleteInv, ClusterInv
<1> QED
  BY <1>1, <1>4, <1>5

LEMMA UninstallStep ==
  ASSUME ClusterInv, NEW k \in Pkgs, Uninstall(k)
  PROVE  /\ ClusterInv' /\ Kept
         /\ \A j \in Pkgs : j # k => subs'[j] = subs[j]
<1>1. ever' = ever /\ head' = head /\ csvs' \subseteq csvs
  BY DEF Uninstall
<1>2. /\ plans' \in Seq(Plan) /\ Len(plans') = Len(plans) /\ Len(plans') \in Nat
      /\ Kept /\ CompleteInv'
  BY <1>1, OwnedPlans DEF Uninstall
<1>3. /\ subs' \in [Pkgs -> Sub \cup {None}] /\ subs'[k] = None
      /\ \A j \in Pkgs : j # k => subs'[j] = subs[j]
  BY DEF Uninstall, ClusterInv, ClusterType
<1>4. \A j \in Pkgs : head'[j] \in 0..MaxVersion /\ head[j] <= head'[j]
  BY <1>1, BoundsAreNats DEF ClusterInv, ClusterType
<1>5. ReferInv'
  <2> SUFFICES ASSUME NEW j \in Pkgs, subs'[j] # None
               PROVE  Refers(j)'
    BY DEF ReferInv
  <2> QED
    BY <1>2, <1>3, <1>4, StillRefers
<1> QED
  BY <1>1, <1>2, <1>3, <1>5 DEF Uninstall, ClusterInv, ClusterType

-----------------------------------------------------------------------------
(***************************************************************************)
(* What a step does to the runs.                                           *)
(***************************************************************************)

\* A run that follows the plan that it followed before, if any.
Follows(p) ==
  /\ plan'[p] = plan[p] /\ base'[p] = base[p]
  /\ pc'[p] \in Before => pc[p] \in Before
  /\ pc'[p] \in After => plan[p] # 0
  /\ pc'[p] \in {"GetCSV", "Done"} => plans[plan[p]].csvs \subseteq ever
  /\ "approval" \in holds'[p] => plan[p] # 0
  /\ "sub" \in holds'[p] => Made(p)'
  /\ "sub" \in holds'[p] /\ plan[p] # 0 => "sub" \in holds[p]

LEMMA FollowedPlan ==
  ASSUME ClusterType, RunsType, NEW p \in Procs, plan[p] # 0
  PROVE  plan[p] \in 1..Len(plans)
BY LenIsNat DEF RunsType

LEMMA RunMoves ==
  ASSUME ClusterType, RunsType, Kept, NEW p \in Procs, Run(p), job' = job, Follows(p)
  PROVE  Run(p)'
<1>1. plan[p] # 0 => plans'[plan[p]].csvs = plans[plan[p]].csvs
  BY FollowedPlan DEF Kept
<1>2. ever \subseteq ever' /\ plan'[p] = plan[p] /\ base'[p] = base[p]
  BY DEF Kept, Follows
<1>3. plan'[p] # 0 => Forward(p)'
  BY <1>1, <1>2 DEF Run, Forward
<1>4. pc'[p] \in {"GetCSV", "Done"} => plans'[plan'[p]].csvs \subseteq ever'
  <2>1. {"GetCSV", "Done"} \subseteq After
    BY DEF After
  <2> QED
    BY <1>1, <1>2, <2>1 DEF Follows
<1>5. "sub" \in holds'[p] /\ plan'[p] # 0 /\ job'[p].version # 0 => Pinned(p)'
  BY <1>1, <1>2 DEF Run, Pinned, Follows
<1> QED
  BY <1>2, <1>3, <1>4, <1>5 DEF Run, Follows

\* The other runs, and all of them if OLM or another user makes a step.
Stays(q) ==
  /\ pc'[q] = pc[q] /\ why'[q] = why[q] /\ tries'[q] = tries[q]
  /\ plan'[q] = plan[q] /\ base'[q] = base[q]

LEMMA RunStays ==
  ASSUME ClusterType, RunsType, RunsInv, Kept, NEW q \in Procs, Stays(q), job' = job,
         holds'[q] \subseteq holds[q], "sub" \in holds'[q] => Made(q)'
  PROVE  Run(q)'
<1>1. Run(q)
  BY DEF RunsInv
<1>2. Follows(q)
  BY <1>1 DEF Follows, Stays, Run
<1> QED
  BY <1>1, <1>2, RunMoves

\* OLM does not undo what a run has made.
LEMMA MadeStays ==
  ASSUME RunsType, RunsInv, SubsKept, NEW q \in Procs, job' = job, "sub" \in holds[q]
  PROVE  Made(q)'
<1>1. Made(q) /\ job[q].pkg \in Pkgs
  BY JobsAreTyped DEF RunsInv, Run, RunsType
<1> QED
  BY <1>1 DEF Made, SubsKept

LEMMA AttemptStays ==
  ASSUME ApprovalInv, NEW q \in Procs, Stays(q), fresh'[q] = fresh[q], beaten'[q] = beaten[q]
  PROVE  Attempted(q)'
BY DEF ApprovalInv, Attempted, Stays

\* A write to a plan counts against each attempt that it is in the way of.
LEMMA WrittenType ==
  ASSUME RunsType, ApprovalInv, NEW i, NEW S, Written(i, S)
  PROVE  /\ fresh' \in [Procs -> BOOLEAN] /\ beaten' \in [Procs -> 0..Attempts]
         /\ \A q \in Procs : fresh'[q] = (fresh[q] /\ plan[q] # i)
         /\ \A q \in Procs : beaten'[q] = IF q \in S /\ fresh[q] /\ plan[q] = i
                                            THEN beaten[q] + 1 ELSE beaten[q]
<1>1. fresh' \in [Procs -> BOOLEAN]
  BY DEF Written
<1>2. \A q \in Procs : fresh'[q] = (fresh[q] /\ plan[q] # i)
  BY DEF Written
<1>3. \A q \in Procs : beaten'[q] = IF q \in S /\ fresh[q] /\ plan[q] = i
                                      THEN beaten[q] + 1 ELSE beaten[q]
  BY DEF Written
<1>4. \A q \in Procs : beaten[q] \in 0..Attempts /\ (fresh[q] => beaten[q] < Attempts)
  BY DEF RunsType, ApprovalInv, Attempted
<1>5. \A q \in Procs : beaten'[q] \in 0..Attempts
  BY <1>3, <1>4, BoundsAreNats
<1>6. beaten' = [q \in Procs |-> beaten'[q]]
  BY DEF Written
<1> QED
  BY <1>1, <1>2, <1>3, <1>5, <1>6

LEMMA WrittenAttempt ==
  ASSUME RunsType, ApprovalInv, NEW i, NEW S, Written(i, S), NEW q \in S, q \in Procs, Stays(q)
  PROVE  Attempted(q)'
<1>1. Attempted(q) /\ fresh[q] \in BOOLEAN /\ beaten[q] \in Nat /\ tries[q] \in Nat
  BY BoundsAreNats DEF ApprovalInv, RunsType
<1>2. CASE fresh[q] /\ plan[q] = i
  <2>1. fresh'[q] = FALSE /\ beaten'[q] = beaten[q] + 1
    BY <1>2, WrittenType
  <2>2. why[q] # "conflict"
    BY <1>1, <1>2 DEF Attempted
  <2>3. pc[q] \in Calls => pc[q] = "ApproveUpdate" /\ beaten[q] = tries[q]
    BY <1>1, <1>2 DEF Attempted, Calls
  <2> QED
    BY <1>1, <2>1, <2>2, <2>3 DEF Attempted, Stays
<1>3. CASE ~(fresh[q] /\ plan[q] = i)
  <2>1. fresh'[q] = fresh[q]
    <3>1. fresh'[q] = (fresh[q] /\ plan[q] # i)
      BY WrittenType
    <3>2. (fresh[q] /\ plan[q] # i) = fresh[q]
      BY <1>1, <1>3
    <3> QED
      BY <3>1, <3>2
  <2>2. beaten'[q] = beaten[q]
    BY <1>3, WrittenType
  <2> QED
    BY <2>1, <2>2, AttemptStays
<1> QED
  BY <1>2, <1>3

-----------------------------------------------------------------------------
(***************************************************************************)
(* OLM and other users.                                                    *)
(***************************************************************************)

LEMMA PlanTyped ==
  ASSUME ClusterType, ClusterType', RunsType, Kept, plan' = plan
  PROVE  plan' \in [Procs -> 0..Len(plans')]
<1>1. Len(plans) \in Nat /\ Len(plans') \in Nat
  BY LenProperties DEF ClusterType
<1> QED
  BY <1>1 DEF RunsType, Kept

\* A step that leaves the commands alone, and what they have read of the plans.
LEMMA QuietStep ==
  ASSUME CoreInv, ClusterInv', Kept, UNCHANGED <<commands, fresh, beaten, base>>,
         \A q \in Procs : holds'[q] \subseteq holds[q] /\ ("sub" \in holds'[q] => Made(q)'),
         holds' \in [Procs -> SUBSET Facts]
  PROVE  CoreInv'
<1>1. \A q \in Procs : Stays(q)
  BY DEF Stays, commands
<1>2. job' = job /\ plan' = plan
  BY DEF commands
<1>3. RunsInv'
  BY <1>1, <1>2, RunStays DEF RunsInv, CoreInv, ClusterInv
<1>4. ApprovalInv'
  BY <1>1, AttemptStays DEF ApprovalInv, CoreInv
<1>5. plan' \in [Procs -> 0..Len(plans')]
  BY <1>2, PlanTyped DEF CoreInv, ClusterInv
<1> QED
  BY <1>3, <1>4, <1>5 DEF CoreInv, RunsType, commands

\* A step that leaves the commands alone, and undoes nothing that they rely on.
LEMMA HarmlessStep ==
  ASSUME CoreInv, ClusterInv', Kept, SubsKept, UNCHANGED <<commands, fresh, holds, beaten, base>>
  PROVE  CoreInv'
<1>1. job' = job
  BY DEF commands
<1>2. \A q \in Procs : holds'[q] \subseteq holds[q] /\ ("sub" \in holds'[q] => Made(q)')
  BY <1>1, MadeStays DEF CoreInv
<1>3. holds' \in [Procs -> SUBSET Facts]
  BY DEF CoreInv, RunsType
<1> QED
  BY <1>2, <1>3, QuietStep

\* OLM writes a plan.
LEMMA WriteStep ==
  ASSUME CoreInv, ClusterInv', Kept, SubsKept, NEW i, Written(i, Procs),
         UNCHANGED <<commands, holds, base>>
  PROVE  CoreInv'
<1>1. \A q \in Procs : Stays(q)
  BY DEF Stays, commands
<1>2. job' = job /\ plan' = plan
  BY DEF commands
<1>3. \A q \in Procs : "sub" \in holds'[q] => Made(q)'
  BY <1>2, MadeStays DEF CoreInv
<1>4. RunsInv'
  BY <1>1, <1>2, <1>3, RunStays DEF RunsInv, CoreInv, ClusterInv
<1>5. ApprovalInv'
  BY <1>1, WrittenAttempt DEF ApprovalInv, CoreInv
<1>6. fresh' \in [Procs -> BOOLEAN] /\ beaten' \in [Procs -> 0..Attempts]
  BY WrittenType DEF CoreInv
<1>7. plan' \in [Procs -> 0..Len(plans')]
  BY <1>2, PlanTyped DEF CoreInv, ClusterInv
<1> QED
  BY <1>4, <1>5, <1>6, <1>7 DEF CoreInv, RunsType, commands

LEMMA OlmKeepsCore ==
  ASSUME CoreInv, Olm
  PROVE  CoreInv'
<1>1. ClusterInv /\ DOMAIN plans = 1..Len(plans)
  BY LenProperties DEF CoreInv, ClusterInv, ClusterType
<1>2. ASSUME NEW k \in Pkgs, Publish(k)
      PROVE  CoreInv'
  BY <1>1, <1>2, PublishStep, HarmlessStep DEF Publish, history
<1>3. ASSUME NEW k \in Pkgs, SyncInstalled(k)
      PROVE  CoreInv'
  BY <1>1, <1>3, SyncInstalledStep, HarmlessStep DEF SyncInstalled, history
<1>4. ASSUME NEW g \in GroupNames, SyncGroup(g)
      PROVE  CoreInv'
  BY <1>1, <1>4, SyncGroupStep, HarmlessStep DEF SyncGroup, history
<1>5. CASE MakePlan
  BY <1>1, <1>5, MakePlanStep, HarmlessStep DEF MakePlan, history
<1>6. ASSUME NEW i \in 1..Len(plans), ReusePlan(i)
      PROVE  CoreInv'
  BY <1>1, <1>6, ReusePlanStep, WriteStep DEF ReusePlan
<1>7. ASSUME NEW i \in 1..Len(plans), ExecutePlan(i)
      PROVE  CoreInv'
  BY <1>1, <1>7, ExecutePlanStep, WriteStep DEF ExecutePlan
<1>8. ASSUME NEW i \in 1..Len(plans), TouchPlan(i)
      PROVE  CoreInv'
  BY <1>1, <1>8, SameCluster, WriteStep DEF TouchPlan
<1>9. ASSUME NEW i \in 1..Len(plans), CollectPlan(i)
      PROVE  CoreInv'
  BY <1>1, <1>9, CollectPlanStep, HarmlessStep DEF CollectPlan, history
<1>10. ASSUME NEW c, ReplaceCSV(c)
       PROVE  CoreInv'
  BY <1>1, <1>10, ReplaceCSVStep, HarmlessStep DEF ReplaceCSV, history
<1> QED
  BY <1>1, <1>2, <1>3, <1>4, <1>5, <1>6, <1>7, <1>8, <1>9, <1>10 DEF Olm

LEMMA OutsidersKeepCore ==
  ASSUME CoreInv, Outsiders
  PROVE  CoreInv'
<1>1. ASSUME NEW g \in GroupNames, ChangeGroup(g)
      PROVE  CoreInv'
  BY <1>1, ChangeGroupStep, HarmlessStep DEF ChangeGroup, CoreInv
<1>2. ASSUME NEW k \in Pkgs, Uninstall(k)
      PROVE  CoreInv'
  <2>1. ClusterInv' /\ Kept /\ \A j \in Pkgs : j # k => subs'[j] = subs[j]
    BY <1>2, UninstallStep DEF CoreInv
  <2>2. UNCHANGED <<commands, fresh, beaten, base>> /\ job' = job
    BY <1>2 DEF Uninstall, commands
  <2>3. \A q \in Procs :
          holds'[q] = IF job[q].pkg = k THEN holds[q] \ {"sub"} ELSE holds[q]
    BY <1>2 DEF Uninstall
  <2>4. holds' \in [Procs -> SUBSET Facts]
    <3>1. \A q \in Procs : holds'[q] \in SUBSET Facts
      BY <2>3 DEF CoreInv, RunsType
    <3>2. holds' = [q \in Procs |-> holds'[q]]
      BY <1>2 DEF Uninstall
    <3> QED
      BY <3>1, <3>2
  <2>5. ASSUME NEW q \in Procs, "sub" \in holds'[q]
        PROVE  Made(q)'
    <3>1. job[q].pkg # k /\ "sub" \in holds[q]
      BY <2>3, <2>5
    <3>2. Made(q) /\ job[q].pkg \in Pkgs
      BY <3>1, JobsAreTyped DEF CoreInv, RunsInv, Run, RunsType
    <3> QED
      BY <2>1, <2>2, <3>1, <3>2 DEF Made
  <2>6. \A q \in Procs : holds'[q] \subseteq holds[q]
    BY <2>3
  <2> QED
    BY <2>1, <2>2, <2>4, <2>5, <2>6, QuietStep
<1> QED
  BY <1>1, <1>2 DEF Outsiders

-----------------------------------------------------------------------------
(***************************************************************************)
(* The calls of a run.                                                     *)
(***************************************************************************)

LEMMA GotoType ==
  ASSUME RunsType, NEW p \in Procs, NEW call \in Calls \cup Ended, Goto(p, call)
  PROVE  /\ pc' \in [Procs -> Calls \cup Ended] /\ why' \in [Procs -> Reasons]
         /\ pc'[p] = call /\ why'[p] = why[p]
         /\ \A q \in Procs : q # p => pc'[q] = pc[q] /\ why'[q] = why[q]
BY DEF Goto, RunsType

LEMMA FailType ==
  ASSUME RunsType, NEW p \in Procs, NEW reason \in Reasons, Fail(p, reason)
  PROVE  /\ pc' \in [Procs -> Calls \cup Ended] /\ why' \in [Procs -> Reasons]
         /\ pc'[p] = "Failed" /\ why'[p] = reason
         /\ \A q \in Procs : q # p => pc'[q] = pc[q] /\ why'[q] = why[q]
<1>1. "Failed" \in Calls \cup Ended
  BY DEF Ended
<1> QED
  BY <1>1 DEF Fail, RunsType

\* A step of run p, which leaves the others where they are.
OthersStay(p) ==
  /\ job' = job
  /\ \A q \in Procs : q # p => Stays(q) /\ holds'[q] = holds[q] /\ Attempted(q)'

LEMMA CallStep ==
  ASSUME CoreInv, ClusterInv', Kept, SubsKept, NEW p \in Procs, OthersStay(p),
         RunsType', Run(p)', Attempted(p)'
  PROVE  CoreInv'
<1>1. ASSUME NEW q \in Procs, q # p
      PROVE  Run(q)' /\ Attempted(q)'
  <2>1. Stays(q) /\ holds'[q] = holds[q] /\ Attempted(q)' /\ job' = job
    BY <1>1 DEF OthersStay
  <2>2. "sub" \in holds'[q] => Made(q)'
    BY <2>1, MadeStays DEF CoreInv
  <2> QED
    BY <2>1, <2>2, RunStays DEF CoreInv, ClusterInv
<1>2. RunsInv' /\ ApprovalInv'
  BY <1>1 DEF RunsInv, ApprovalInv
<1> QED
  BY <1>2 DEF CoreInv

\* A call that has to do neither with the plan nor with its approval.
Apart ==
  /\ ClusterInv' /\ Kept /\ SubsKept
  /\ UNCHANGED <<job, plan, fresh, tries, beaten, base>>
  /\ entries' \in [Procs -> 0..MaxVersion] /\ result' \in [Procs -> CSVs \cup {None}]
  /\ holds' \in [Procs -> SUBSET Facts]

\* It may find that the namespace has a group.
Notes(p) ==
  /\ \A q \in Procs : q # p => holds'[q] = holds[q]
  /\ holds'[p] \subseteq holds[p] \cup {"group"}

LEMMA ApartOthers ==
  ASSUME CoreInv, NEW p \in Procs, Apart, Notes(p),
         \A q \in Procs : q # p => pc'[q] = pc[q] /\ why'[q] = why[q]
  PROVE  OthersStay(p)
<1>1. ASSUME NEW q \in Procs, q # p
      PROVE  Stays(q) /\ holds'[q] = holds[q] /\ Attempted(q)'
  <2>1. Stays(q) /\ fresh'[q] = fresh[q] /\ beaten'[q] = beaten[q] /\ holds'[q] = holds[q]
    BY <1>1 DEF Apart, Notes, Stays
  <2> QED
    BY <2>1, AttemptStays DEF CoreInv
<1> QED
  BY <1>1 DEF OthersStay, Apart

LEMMA ApartTypes ==
  ASSUME CoreInv, Apart, pc' \in [Procs -> Calls \cup Ended], why' \in [Procs -> Reasons]
  PROVE  RunsType'
<1>1. plan' \in [Procs -> 0..Len(plans')]
  BY PlanTyped DEF CoreInv, ClusterInv, Apart
<1> QED
  BY <1>1 DEF Apart, CoreInv, RunsType

\* Where a run may go on from a call: not back to one before it has a plan.
MayGoto(p, call) ==
  /\ call \in Before => pc[p] \in Before
  /\ call \in After => plan[p] # 0
  /\ call \in {"GetCSV", "Done"} => plans[plan[p]].csvs \subseteq ever

LEMMA ApartFollows ==
  ASSUME CoreInv, NEW p \in Procs, Apart, Notes(p), MayGoto(p, pc'[p])
  PROVE  Run(p)'
<1>1. Run(p) /\ plan'[p] = plan[p] /\ base'[p] = base[p] /\ job' = job
  BY DEF CoreInv, RunsInv, Apart
<1>2. "sub" \in holds'[p] => "sub" \in holds[p]
  BY DEF Notes
<1>3. "approval" \in holds'[p] => "approval" \in holds[p]
  BY DEF Notes
<1>4. "sub" \in holds'[p] => Made(p)'
  BY <1>1, <1>2, MadeStays DEF CoreInv, Apart
<1>5. "approval" \in holds'[p] => plan[p] # 0
  BY <1>1, <1>3 DEF Run
<1>6. Follows(p)
  BY <1>1, <1>2, <1>4, <1>5 DEF Follows, MayGoto
<1> QED
  BY <1>1, <1>6, RunMoves DEF CoreInv, ClusterInv, Apart

LEMMA ApartFails ==
  ASSUME CoreInv, NEW p \in Procs, Apart, Notes(p), NEW reason \in Reasons \ {"conflict"},
         Fail(p, reason)
  PROVE  CoreInv'
<1>1. /\ pc' \in [Procs -> Calls \cup Ended] /\ why' \in [Procs -> Reasons]
      /\ pc'[p] = "Failed" /\ why'[p] = reason
      /\ \A q \in Procs : q # p => pc'[q] = pc[q] /\ why'[q] = why[q]
  BY FailType DEF CoreInv
<1>2. MayGoto(p, pc'[p])
  BY <1>1 DEF MayGoto, Before, After
<1>3. Attempted(p) /\ fresh'[p] = fresh[p] /\ beaten'[p] = beaten[p]
  BY DEF CoreInv, ApprovalInv, Apart
<1>4. Attempted(p)'
  BY <1>1, <1>3 DEF Attempted, Calls
<1> QED
  BY <1>1, <1>2, <1>4, ApartOthers, ApartTypes, ApartFollows, CallStep DEF Apart

LEMMA ApartGoes ==
  ASSUME CoreInv, NEW p \in Procs, Apart, Notes(p), NEW call \in Calls \cup Ended,
         pc[p] \in Calls, MayGoto(p, call), Goto(p, call),
         "ApproveUpdate" \notin {pc[p], call}, call # "Failed",
         pc[p] \in {"WaitPlan", "GetCSV"} => call \in {"GetCSV", "Done"}
  PROVE  CoreInv'
<1>1. /\ pc' \in [Procs -> Calls \cup Ended] /\ why' \in [Procs -> Reasons]
      /\ pc'[p] = call /\ why'[p] = why[p]
      /\ \A q \in Procs : q # p => pc'[q] = pc[q] /\ why'[q] = why[q]
  BY GotoType DEF CoreInv
<1>2. MayGoto(p, pc'[p])
  BY <1>1
<1>3. Attempted(p) /\ fresh'[p] = fresh[p] /\ beaten'[p] = beaten[p] /\ tries'[p] = tries[p]
  BY DEF CoreInv, ApprovalInv, Apart
<1>4. pc[p] # "Failed" /\ ~fresh[p] /\ why[p] # "conflict" /\ beaten[p] = tries[p]
  BY <1>3 DEF Attempted, Calls
<1>5. call \in Calls \ {"WaitPlan", "GetCSV"} => tries[p] < Attempts
  BY <1>3 DEF Attempted, Calls
<1>6. Attempted(p)'
  BY <1>1, <1>3, <1>4, <1>5 DEF Attempted
<1> QED
  BY <1>1, <1>2, <1>6, ApartOthers, ApartTypes, ApartFollows, CallStep DEF Apart

LEMMA Idle ==
  ASSUME CoreInv, UNCHANGED <<cluster, job, plan, fresh, tries, beaten, base, ever, quiet>>
  PROVE  /\ ClusterInv' /\ Kept /\ SubsKept
         /\ UNCHANGED <<job, plan, fresh, tries, beaten, base>>
BY SameCluster DEF CoreInv

LEMMA JobType ==
  ASSUME CoreInv, NEW p \in Procs
  PROVE  job[p] \in Jobs /\ job[p].pkg \in Pkgs /\ job[p].version \in Nat
         /\ job[p].approval \in Approvals /\ job[p].watch \in Seq(STRING)
BY JobsAreTyped DEF CoreInv, RunsType

LEMMA GetPackageStep == ASSUME CoreInv, NEW p \in Procs, GetPackage(p) PROVE CoreInv'
<1>1. head[job[p].pkg] \in 0..MaxVersion
  BY JobType DEF CoreInv, ClusterInv, ClusterType
<1>2. entries' \in [Procs -> 0..MaxVersion]
  BY <1>1 DEF GetPackage, CoreInv, RunsType
<1>3. Apart /\ Notes(p)
  BY <1>2, Idle DEF GetPackage, history, Apart, Notes, CoreInv, RunsType
<1>4. CASE Fail(p, "package")
  <2>1. "package" \in Reasons \ {"conflict"}
    BY DEF Reasons
  <2> QED
    BY <1>3, <1>4, <2>1, ApartFails
<1>5. CASE Goto(p, "ListGroups")
  <2>1. MayGoto(p, "ListGroups") /\ pc[p] = "GetPackage"
    BY DEF GetPackage, MayGoto, Before, After
  <2> QED
    BY <1>3, <1>5, <2>1, ApartGoes DEF Calls
<1> QED
  BY <1>4, <1>5 DEF GetPackage

LEMMA HoldsType ==
  ASSUME RunsType, NEW p \in Procs, NEW f \in Facts, Holds(p, f)
  PROVE  /\ holds' \in [Procs -> SUBSET Facts] /\ holds'[p] = holds[p] \cup {f}
         /\ \A q \in Procs : q # p => holds'[q] = holds[q]
<1>1. holds[p] \cup {f} \in SUBSET Facts
  BY DEF RunsType
<1>2. holds' = [holds EXCEPT ![p] = holds[p] \cup {f}]
  BY DEF Holds
<1> QED
  BY <1>1, <1>2 DEF RunsType

LEMMA ListGroupsStep == ASSUME CoreInv, NEW p \in Procs, ListGroups(p) PROVE CoreInv'
<1>1. /\ \A q \in Procs : q # p => holds'[q] = holds[q]
      /\ holds'[p] \subseteq holds[p] \cup {"group"} /\ holds' \in [Procs -> SUBSET Facts]
  <2>1. CASE Holds(p, "group")
    BY <2>1, HoldsType DEF CoreInv, Facts
  <2>2. CASE UNCHANGED holds
    BY <2>2 DEF CoreInv, RunsType
  <2> QED
    BY <2>1, <2>2 DEF ListGroups
<1>2. Apart /\ Notes(p)
  BY <1>1, Idle DEF ListGroups, local, Apart, Notes, CoreInv, RunsType
<1>3. CASE Fail(p, "notInstallable")
  <2>1. "notInstallable" \in Reasons \ {"conflict"}
    BY DEF Reasons
  <2> QED
    BY <1>2, <1>3, <2>1, ApartFails
<1>4. ASSUME NEW call \in {"CreateGroup", "CreateSub"}, Goto(p, call)
      PROVE  CoreInv'
  <2>1. MayGoto(p, call) /\ pc[p] = "ListGroups"
    BY DEF ListGroups, MayGoto, Before, After
  <2> QED
    BY <1>2, <1>4, <2>1, ApartGoes DEF Calls
<1> QED
  BY <1>3, <1>4 DEF ListGroups

LEMMA TargetsType ==
  ASSUME NEW supported, NEW watch \in Seq(STRING)
  PROVE  getTargetNamespaces(supported, watch) \in Seq(STRING)
BY Lists DEF getTargetNamespaces

LEMMA NewGroupIsGroup ==
  ASSUME CoreInv, NEW p \in Procs
  PROVE  /\ NewGroup(p) \in Group /\ NewGroup(p) # None /\ NewGroup(p).status = <<>>
         /\ NewGroup(p).targets = getTargetNamespaces(Supported(p), job[p].watch)
<1> DEFINE t == getTargetNamespaces(Supported(p), job[p].watch)
<1>1. t \in Seq(STRING) /\ <<>> \in Seq(STRING)
  BY JobType, TargetsType, Lists
<1>2. NewGroup(p) = [targets |-> t, status |-> <<>>]
  BY DEF NewGroup
<1> HIDE DEF t
<1>3. NewGroup(p) \in Group /\ NewGroup(p).status = <<>> /\ NewGroup(p).targets = t
  BY <1>1, <1>2 DEF Group
<1> QED
  BY <1>3, NoneIsNoObject DEF t

LEMMA CreateGroupStep == ASSUME CoreInv, NEW p \in Procs, CreateGroup(p) PROVE CoreInv'
<1>1. groups' \in [GroupNames -> Group \cup {None}]
  BY NewGroupIsGroup DEF CreateGroup, CoreInv, ClusterInv, ClusterType
<1>2. ClusterInv' /\ Kept /\ SubsKept
  BY <1>1, OnlyGroups DEF CreateGroup, history, CoreInv, ClusterInv, ClusterType
<1>3. Apart /\ Notes(p)
  BY <1>2 DEF CreateGroup, history, local, Apart, Notes, CoreInv, RunsType
<1>4. CASE Fail(p, "exists")
  <2>1. "exists" \in Reasons \ {"conflict"}
    BY DEF Reasons
  <2> QED
    BY <1>3, <1>4, <2>1, ApartFails
<1>5. CASE Goto(p, "CreateSub")
  <2>1. MayGoto(p, "CreateSub") /\ pc[p] = "CreateGroup"
    BY DEF CreateGroup, MayGoto, Before, After
  <2> QED
    BY <1>3, <1>5, <2>1, ApartGoes DEF Calls
<1> QED
  BY <1>4, <1>5 DEF CreateGroup

LEMMA GetPlanStep == ASSUME CoreInv, NEW p \in Procs, GetPlan(p) PROVE CoreInv'
<1>1. Apart /\ Notes(p)
  BY Idle DEF GetPlan, local, history, Apart, Notes, CoreInv, RunsType
<1>2. CASE Fail(p, "gone")
  <2>1. "gone" \in Reasons \ {"conflict"}
    BY DEF Reasons
  <2> QED
    BY <1>1, <1>2, <2>1, ApartFails
<1>3. ASSUME NEW call \in {"ApproveGet", "WaitPlan"}, Goto(p, call)
      PROVE  CoreInv'
  <2>1. pc[p] = "GetPlan" /\ plan[p] # 0
    BY DEF GetPlan, CoreInv, RunsInv, Run, After
  <2>2. MayGoto(p, call)
    BY <2>1 DEF MayGoto, Before, After
  <2> QED
    BY <1>1, <1>3, <2>1, <2>2, ApartGoes DEF Calls
<1> QED
  BY <1>2, <1>3 DEF GetPlan

LEMMA WaitPlanStep == ASSUME CoreInv, NEW p \in Procs, WaitPlan(p) PROVE CoreInv'
<1>1. pc[p] = "WaitPlan" /\ plan[p] # 0
  BY DEF WaitPlan, CoreInv, RunsInv, Run, After
<1>2. plan[p] \in 1..Len(plans) /\ plans[plan[p]].last \in CSVs
  BY <1>1, FollowedPlan, PlanAt DEF CoreInv, ClusterInv
<1>3. result' \in [Procs -> CSVs \cup {None}]
  BY <1>2 DEF WaitPlan, CoreInv, RunsType
<1>4. Apart /\ Notes(p)
  BY <1>3, Idle DEF WaitPlan, history, Apart, Notes, CoreInv, RunsType
<1>5. CASE Fail(p, "gone")
  <2>1. "gone" \in Reasons \ {"conflict"}
    BY DEF Reasons
  <2> QED
    BY <1>4, <1>5, <2>1, ApartFails
<1>6. CASE Finished(p) /\ Goto(p, "GetCSV")
  <2>1. plans[plan[p]].csvs \subseteq ever
    BY <1>2, <1>6 DEF Finished, Phase, CoreInv, ClusterInv, CompleteInv
  <2>2. MayGoto(p, "GetCSV")
    BY <1>1, <2>1 DEF MayGoto, Before
  <2> QED
    BY <1>1, <1>4, <1>6, <2>2, ApartGoes DEF Calls
<1> QED
  BY <1>5, <1>6 DEF WaitPlan

LEMMA GetCSVStep == ASSUME CoreInv, NEW p \in Procs, GetCSV(p) PROVE CoreInv'
<1>1. Apart /\ Notes(p)
  BY Idle DEF GetCSV, local, history, Apart, Notes, CoreInv, RunsType
<1>2. CASE Fail(p, "gone")
  <2>1. "gone" \in Reasons \ {"conflict"}
    BY DEF Reasons
  <2> QED
    BY <1>1, <1>2, <2>1, ApartFails
<1>3. CASE Goto(p, "Done")
  <2>1. pc[p] = "GetCSV" /\ plan[p] # 0 /\ plans[plan[p]].csvs \subseteq ever
    BY DEF GetCSV, CoreInv, RunsInv, Run, After
  <2>2. MayGoto(p, "Done")
    BY <2>1 DEF MayGoto, Before
  <2> QED
    BY <1>1, <1>3, <2>1, <2>2, ApartGoes DEF Calls, Ended
<1> QED
  BY <1>2, <1>3 DEF GetCSV

LEMMA GiveUpStep == ASSUME CoreInv, NEW p \in Procs, GiveUp(p) PROVE CoreInv'
<1>1. Apart /\ Notes(p)
  BY Idle DEF GiveUp, local, history, Apart, Notes, CoreInv, RunsType
<1>2. "call" \in Reasons \ {"conflict"}
  BY DEF Reasons
<1> QED
  BY <1>1, <1>2, ApartFails DEF GiveUp


\* The calls that find a plan: one of a subscription that is there.
LEMMA FoundPlan ==
  ASSUME CoreInv, NEW p \in Procs, NEW s, s = subs[job[p].pkg], s # None, s.ref # 0
  PROVE  /\ s.ref \in 1..Len(plans) /\ s.installed \in 0..MaxVersion
         /\ s.current \in Versions /\ s.installed <= s.current
         /\ <<job[p].pkg, s.current>> \in plans[s.ref].csvs
         /\ s.starting # 0 =>
              <<job[p].pkg, s.starting>> \in ever \cup plans[s.ref].csvs
<1>1. job[p].pkg \in Pkgs
  BY JobType
<1>2. s \in Sub /\ Refers(job[p].pkg)
  BY <1>1, SubAt DEF CoreInv, ClusterInv, ReferInv
<1>3. s.ref \in 0..MaxPlans /\ s.current \in 0..MaxVersion /\ s.installed \in 0..MaxVersion
  BY <1>2, SubFields
<1> QED
  BY <1>2, <1>3, BoundsAreNats DEF Refers, Versions

\* A run that begins to follow a plan.
LEMMA FollowStep ==
  ASSUME CoreInv, NEW p \in Procs, pc[p] \in Before, Goto(p, "GetPlan"),
         UNCHANGED <<cluster, job, entries, fresh, tries, result, holds, beaten, ever, quiet>>,
         NEW s, s = subs[job[p].pkg], s # None, s.ref # 0, plan' = [plan EXCEPT ![p] = s.ref],
         NEW b \in 0..MaxVersion, b < s.current, base' = [base EXCEPT ![p] = b]
  PROVE  CoreInv'
<1>1. ClusterInv' /\ Kept /\ SubsKept
  BY SameCluster DEF CoreInv
<1>2. /\ s.ref \in 1..Len(plans) /\ s.current \in Versions
      /\ <<job[p].pkg, s.current>> \in plans[s.ref].csvs
      /\ s.starting # 0 => <<job[p].pkg, s.starting>> \in ever \cup plans[s.ref].csvs
  BY FoundPlan
<1>3. /\ pc' \in [Procs -> Calls \cup Ended] /\ why' \in [Procs -> Reasons]
      /\ pc'[p] = "GetPlan" /\ why'[p] = why[p]
      /\ \A q \in Procs : q # p => pc'[q] = pc[q] /\ why'[q] = why[q]
  BY GotoType DEF CoreInv, Calls
<1>4. /\ plan'[p] = s.ref /\ base'[p] = b
      /\ \A q \in Procs : q # p => plan'[q] = plan[q] /\ base'[q] = base[q]
  BY DEF CoreInv, RunsType
<1>5. RunsType'
  <2>1. plan' \in [Procs -> 0..Len(plans)] /\ base' \in [Procs -> 0..MaxVersion]
    BY <1>2, LenIsNat DEF CoreInv, ClusterInv, RunsType
  <2> QED
    BY <1>3, <2>1 DEF CoreInv, RunsType, cluster
<1>6. OthersStay(p)
  <2>1. ASSUME NEW q \in Procs, q # p
        PROVE  Stays(q) /\ holds'[q] = holds[q] /\ Attempted(q)'
    <3>1. Stays(q) /\ fresh'[q] = fresh[q] /\ beaten'[q] = beaten[q] /\ holds'[q] = holds[q]
      BY <1>3, <1>4, <2>1 DEF Stays
    <3> QED
      BY <3>1, AttemptStays DEF CoreInv
  <2> QED
    BY <2>1 DEF OthersStay
<1>7. Attempted(p)'
  <2>1. Attempted(p)
    BY DEF CoreInv, ApprovalInv
  <2> QED
    BY <1>3, <2>1 DEF Attempted, Before, Calls
<1>8. Run(p)'
  <2>1. Run(p) /\ plans' = plans /\ ever' = ever /\ job' = job /\ holds' = holds /\ subs' = subs
    BY DEF CoreInv, RunsInv, cluster
  <2>2. s.ref # 0 /\ "GetPlan" \notin Before \cup {"GetCSV", "Done"}
    BY DEF Before
  <2>3. Forward(p)'
    BY <1>2, <1>4, <2>1, BoundsAreNats DEF Forward, Versions
  <2>4. "sub" \in holds[p] => Made(p)'
    BY <2>1 DEF Run, Made
  <2>5. "sub" \in holds[p] /\ job[p].version # 0 => Pinned(p)'
    BY <1>2, <1>4, <2>1 DEF Run, Made, Pinned
  <2> QED
    BY <1>3, <1>4, <2>1, <2>2, <2>3, <2>4, <2>5 DEF Run
<1> QED
  BY <1>1, <1>5, <1>6, <1>7, <1>8, CallStep

LEMMA PollRefStep == ASSUME CoreInv, NEW p \in Procs, PollRef(p) PROVE CoreInv'
<1>1. PICK s : s = subs[job[p].pkg]
  OBVIOUS
<1>2. pc[p] = "PollRef" /\ pc[p] \in Before
  BY DEF PollRef, Before
<1>3. CASE s = None
  <2>1. Fail(p, "gone") /\ UNCHANGED plan
    BY <1>1, <1>3 DEF PollRef
  <2>2. Apart /\ Notes(p)
    BY <2>1, Idle DEF PollRef, history, Apart, Notes, CoreInv, RunsType
  <2>3. "gone" \in Reasons \ {"conflict"}
    BY DEF Reasons
  <2> QED
    BY <2>1, <2>2, <2>3, ApartFails
<1>4. CASE s # None
  <2>1. s.ref # 0 /\ Goto(p, "GetPlan") /\ plan' = [plan EXCEPT ![p] = s.ref]
    BY <1>1, <1>4 DEF PollRef
  <2>2. s.current \in Versions
    BY <1>1, <1>4, <2>1, FoundPlan
  <2>3. 0 < s.current /\ 0 \in 0..MaxVersion
    BY <2>2, BoundsAreNats DEF Versions
  <2>4. base[p] = 0
    BY <1>2 DEF CoreInv, RunsInv, Run
  <2>5. base' = [base EXCEPT ![p] = 0]
    BY <2>4 DEF PollRef, history, CoreInv, RunsType
  <2>6. UNCHANGED <<cluster, job, entries, fresh, tries, result, holds, beaten, ever, quiet>>
    BY DEF PollRef, history
  <2> QED
    BY <1>1, <1>2, <1>4, <2>1, <2>3, <2>5, <2>6, FollowStep
<1> QED
  BY <1>3, <1>4

LEMMA FindSubStep == ASSUME CoreInv, NEW p \in Procs, FindSub(p) PROVE CoreInv'
<1>1. PICK s : s = subs[job[p].pkg]
  OBVIOUS
<1>2. pc[p] = "FindSub" /\ pc[p] \in Before
  BY DEF FindSub, Before
<1>3. ASSUME NEW reason \in {"gone", "noPlan", "latest"}, Fail(p, reason), UNCHANGED <<plan, base>>
      PROVE  CoreInv'
  <2>1. Apart /\ Notes(p)
    BY <1>3, Idle DEF FindSub, Apart, Notes, CoreInv, RunsType
  <2>2. reason \in Reasons \ {"conflict"}
    BY DEF Reasons
  <2> QED
    BY <1>3, <2>1, <2>2, ApartFails
<1>4. CASE /\ s # None /\ s.ref # 0 /\ ~UpToDate(s) /\ Goto(p, "GetPlan")
           /\ plan' = [plan EXCEPT ![p] = s.ref] /\ base' = [base EXCEPT ![p] = s.installed]
  <2>1. s.installed \in 0..MaxVersion /\ s.current \in Versions /\ s.installed <= s.current
    BY <1>1, <1>4, FoundPlan
  <2>2. s.installed < s.current
    BY <1>4, <2>1, BoundsAreNats DEF UpToDate, Versions
  <2>3. UNCHANGED <<cluster, job, entries, fresh, tries, result, holds, beaten, ever, quiet>>
    BY DEF FindSub
  <2> QED
    BY <1>1, <1>2, <1>4, <2>1, <2>2, <2>3, FollowStep
<1> QED
  BY <1>1, <1>3, <1>4 DEF FindSub

LEMMA NewSubType ==
  ASSUME CoreInv, NEW p \in Procs
  PROVE  /\ NewSub(p) \in Sub /\ NewSub(p) # None
         /\ NewSub(p).starting = job[p].version
         /\ NewSub(p).installed = 0 /\ NewSub(p).current = 0 /\ NewSub(p).ref = 0
<1>1. job[p].approval \in Approvals /\ job[p].version \in Nat
  BY JobType
<1>2. 0 \in 0..MaxVersion /\ 0 \in 0..MaxPlans
  BY BoundsAreNats
<1>3. /\ NewSub(p) \in Sub /\ NewSub(p).starting = job[p].version
      /\ NewSub(p).installed = 0 /\ NewSub(p).current = 0 /\ NewSub(p).ref = 0
  BY <1>1, <1>2 DEF NewSub, Sub
<1> QED
  BY <1>3, NoSubIsNone

\* The call that makes a subscription.
LEMMA MakeSubStep ==
  ASSUME CoreInv, NEW p \in Procs, pc[p] = "CreateSub", Goto(p, "PollRef"), Holds(p, "sub"),
         NEW k, k = job[p].pkg, subs[k] = None, subs' = [subs EXCEPT ![k] = NewSub(p)],
         UNCHANGED <<head, groups, plans, csvs, local, beaten, base, ever, quiet>>
  PROVE  CoreInv'
<1>1. k \in Pkgs
  BY JobType
<1>2. /\ subs' \in [Pkgs -> Sub \cup {None}] /\ subs'[k] = NewSub(p)
      /\ \A j \in Pkgs : j # k => subs'[j] = subs[j]
  BY <1>1, NewSubType DEF CoreInv, ClusterInv, ClusterType
<1>3. Kept /\ CompleteInv' /\ Len(plans') \in Nat
  BY SamePlans DEF CoreInv
<1>4. SubsKept
  BY <1>2 DEF SubsKept
<1>5. ReferInv'
  <2> SUFFICES ASSUME NEW j \in Pkgs, subs'[j] # None
               PROVE  Refers(j)'
    BY DEF ReferInv
  <2>1. head'[j] \in 0..MaxVersion /\ head[j] <= head'[j]
    BY BoundsAreNats DEF CoreInv, ClusterInv, ClusterType
  <2>2. CASE j # k
    BY <1>2, <1>3, <2>1, <2>2, StillRefers DEF CoreInv
  <2>3. CASE j = k
    BY <1>2, <1>3, <2>1, <2>3, NewSubType, BoundsAreNats DEF Refers
  <2> QED
    BY <2>2, <2>3
<1>6. ClusterInv'
  BY <1>2, <1>3, <1>5 DEF CoreInv, ClusterInv, ClusterType
<1>7. /\ holds' \in [Procs -> SUBSET Facts] /\ holds'[p] = holds[p] \cup {"sub"}
      /\ \A q \in Procs : q # p => holds'[q] = holds[q]
  BY HoldsType DEF CoreInv, Facts
<1>8. /\ pc' \in [Procs -> Calls \cup Ended] /\ why' \in [Procs -> Reasons]
      /\ pc'[p] = "PollRef" /\ why'[p] = why[p]
      /\ \A q \in Procs : q # p => pc'[q] = pc[q] /\ why'[q] = why[q]
  BY GotoType DEF CoreInv, Calls
<1>9. RunsType'
  BY <1>7, <1>8 DEF CoreInv, RunsType, local
<1>10. OthersStay(p)
  <2>1. ASSUME NEW q \in Procs, q # p
        PROVE  Stays(q) /\ holds'[q] = holds[q] /\ Attempted(q)'
    <3>1. Stays(q) /\ fresh'[q] = fresh[q] /\ beaten'[q] = beaten[q] /\ holds'[q] = holds[q]
      BY <1>7, <1>8, <2>1 DEF Stays, local
    <3> QED
      BY <3>1, AttemptStays DEF CoreInv
  <2> QED
    BY <2>1 DEF OthersStay, local
<1>11. Attempted(p)'
  <2>1. Attempted(p)
    BY DEF CoreInv, ApprovalInv
  <2> QED
    BY <1>8, <2>1 DEF Attempted, Calls, local
<1>12. Run(p)'
  <2>1. Run(p) /\ job' = job /\ plan' = plan /\ base' = base
    BY DEF CoreInv, RunsInv, local
  <2>2. plan[p] = 0
    BY <2>1 DEF Run, Before
  <2>3. Made(p)'
    BY <1>2, <2>1, NewSubType DEF Made
  <2>4. Follows(p)
    BY <1>7, <1>8, <2>1, <2>2, <2>3 DEF Follows, Run, Before, After
  <2> QED
    BY <1>3, <2>1, <2>4, RunMoves DEF CoreInv, ClusterInv
<1> QED
  BY <1>3, <1>4, <1>6, <1>9, <1>10, <1>11, <1>12, CallStep

LEMMA CreateSubStep == ASSUME CoreInv, NEW p \in Procs, CreateSub(p) PROVE CoreInv'
<1>1. PICK k : k = job[p].pkg
  OBVIOUS
<1>2. ASSUME NEW reason \in {"version", "exists"}, Fail(p, reason), UNCHANGED <<subs, holds>>
      PROVE  CoreInv'
  <2>1. UNCHANGED <<cluster, job, plan, fresh, tries, beaten, base, ever, quiet>>
    BY <1>2 DEF CreateSub, cluster, local
  <2>2. Apart /\ Notes(p)
    BY <1>2, <2>1, Idle DEF CreateSub, local, Apart, Notes, CoreInv, RunsType
  <2>3. reason \in Reasons \ {"conflict"}
    BY DEF Reasons
  <2> QED
    BY <1>2, <2>2, <2>3, ApartFails
<1>3. CASE /\ subs[k] = None /\ Goto(p, "PollRef")
           /\ subs' = [subs EXCEPT ![k] = NewSub(p)] /\ Holds(p, "sub")
  BY <1>1, <1>3, MakeSubStep DEF CreateSub
<1> QED
  BY <1>1, <1>2, <1>3 DEF CreateSub

\* The calls that approve a plan.
LEMMA Approving ==
  ASSUME CoreInv, NEW p \in Procs, pc[p] \in {"ApproveGet", "ApproveUpdate"}
  PROVE  /\ plan[p] # 0 /\ plan[p] \in 1..Len(plans) /\ Run(p) /\ Attempted(p)
         /\ tries[p] \in Nat /\ tries[p] < Attempts /\ why[p] # "conflict"
         /\ beaten[p] = IF pc[p] = "ApproveUpdate" /\ ~fresh[p] THEN tries[p] + 1 ELSE tries[p]
<1>1. Run(p) /\ Attempted(p) /\ tries[p] \in Nat
  BY BoundsAreNats DEF CoreInv, RunsInv, ApprovalInv, RunsType
<1>2. plan[p] # 0
  BY <1>1 DEF Run, After
<1>3. plan[p] \in 1..Len(plans)
  BY <1>2, FollowedPlan DEF CoreInv, ClusterInv
<1> QED
  BY <1>1, <1>2, <1>3 DEF Attempted, Calls

\* A step of an approval, at most a write to the plan's approval.
LEMMA ApprovalStep ==
  ASSUME CoreInv, NEW p \in Procs, pc[p] \in {"ApproveGet", "ApproveUpdate"},
         ClusterInv', Kept, SubsKept, UNCHANGED <<job, entries, plan, result, base>>,
         pc' \in [Procs -> Calls \cup Ended], why' \in [Procs -> Reasons],
         pc'[p] \in {"ApproveGet", "ApproveUpdate", "WaitPlan", "Failed"},
         fresh' \in [Procs -> BOOLEAN], tries' \in [Procs -> 0..Attempts],
         beaten' \in [Procs -> 0..Attempts], holds' \in [Procs -> SUBSET Facts],
         holds'[p] \subseteq holds[p] \cup {"approval"},
         \A q \in Procs : q # p => /\ pc'[q] = pc[q] /\ why'[q] = why[q] /\ tries'[q] = tries[q]
                                   /\ holds'[q] = holds[q] /\ Attempted(q)',
         Attempted(p)'
  PROVE  CoreInv'
<1>1. plan[p] # 0 /\ Run(p)
  BY Approving
<1>2. OthersStay(p)
  BY DEF OthersStay, Stays
<1>3. RunsType'
  <2>1. plan' \in [Procs -> 0..Len(plans')]
    BY PlanTyped DEF CoreInv, ClusterInv
  <2> QED
    BY <2>1 DEF CoreInv, RunsType
<1>4. Run(p)'
  <2>1. "sub" \in holds'[p] => "sub" \in holds[p]
    OBVIOUS
  <2>2. "sub" \in holds'[p] => Made(p)'
    BY <2>1, MadeStays DEF CoreInv
  <2>3. Follows(p)
    BY <1>1, <2>1, <2>2 DEF Follows, Before
  <2> QED
    BY <1>1, <2>3, RunMoves DEF CoreInv, ClusterInv
<1> QED
  BY <1>2, <1>3, <1>4, CallStep

LEMMA SameHolds ==
  ASSUME CoreInv, UNCHANGED <<holds>>
  PROVE  holds' \in [Procs -> SUBSET Facts]
BY DEF CoreInv, RunsType

LEMMA ApprovalGoneStep ==
  ASSUME CoreInv, NEW p \in Procs, pc[p] \in {"ApproveGet", "ApproveUpdate"}, Fail(p, "gone"),
         UNCHANGED <<cluster, local, history>>
  PROVE  CoreInv'
<1>1. Apart /\ Notes(p)
  BY Idle DEF local, history, Apart, Notes, CoreInv, RunsType
<1>2. "gone" \in Reasons \ {"conflict"}
  BY DEF Reasons
<1> QED
  BY <1>1, <1>2, ApartFails

LEMMA ApproveGetStep == ASSUME CoreInv, NEW p \in Procs, ApproveGet(p) PROVE CoreInv'
<1>1. pc[p] = "ApproveGet" /\ pc[p] \in {"ApproveGet", "ApproveUpdate"}
  BY DEF ApproveGet
<1>2. CASE Fail(p, "gone") /\ UNCHANGED fresh
  BY <1>1, <1>2, ApprovalGoneStep DEF ApproveGet, local
<1>3. CASE Goto(p, "ApproveUpdate") /\ fresh' = [fresh EXCEPT ![p] = TRUE]
  <2>1. ClusterInv' /\ Kept /\ SubsKept
    BY SameCluster DEF ApproveGet, history, CoreInv
  <2>2. /\ pc' \in [Procs -> Calls \cup Ended] /\ why' \in [Procs -> Reasons]
        /\ pc'[p] = "ApproveUpdate" /\ why'[p] = why[p]
        /\ \A q \in Procs : q # p => pc'[q] = pc[q] /\ why'[q] = why[q]
    BY <1>3, GotoType DEF CoreInv, Calls
  <2>3. /\ fresh' \in [Procs -> BOOLEAN] /\ fresh'[p]
        /\ \A q \in Procs : q # p => fresh'[q] = fresh[q]
    BY <1>3 DEF CoreInv, RunsType
  <2>4. UNCHANGED <<job, entries, plan, tries, result, base, beaten, holds>>
    BY DEF ApproveGet, history
  <2>5. Attempted(p)'
    BY <1>1, <2>2, <2>3, <2>4, Approving DEF Attempted
  <2>6. ASSUME NEW q \in Procs, q # p
        PROVE  Attempted(q)'
    <3>1. Stays(q) /\ fresh'[q] = fresh[q] /\ beaten'[q] = beaten[q]
      BY <2>2, <2>3, <2>4, <2>6 DEF Stays
    <3> QED
      BY <3>1, AttemptStays DEF CoreInv
  <2>7. tries' \in [Procs -> 0..Attempts] /\ beaten' \in [Procs -> 0..Attempts]
    BY <2>4 DEF CoreInv, RunsType
  <2> QED
    BY <1>1, <2>1, <2>2, <2>3, <2>4, <2>5, <2>6, <2>7, SameHolds, ApprovalStep
<1> QED
  BY <1>2, <1>3 DEF ApproveGet

LEMMA ApproveStep ==
  ASSUME CoreInv, NEW p \in Procs, ApproveUpdate(p), Approve(p)
  PROVE  CoreInv'
<1>1. pc[p] = "ApproveUpdate" /\ pc[p] \in {"ApproveGet", "ApproveUpdate"} /\ fresh[p]
  BY DEF ApproveUpdate, Approve
<1>2. /\ plan[p] \in 1..Len(plans) /\ beaten[p] = tries[p] /\ tries[p] < Attempts
      /\ why[p] # "conflict"
  BY <1>1, Approving
<1>3. plans' = [plans EXCEPT ![plan[p]].approved = TRUE]
  BY DEF Approve
<1>4. ClusterInv' /\ Kept /\ SubsKept
  BY <1>2, <1>3, ApprovedPlanStep DEF ApproveUpdate, CoreInv
<1>5. /\ pc' \in [Procs -> Calls \cup Ended] /\ why' \in [Procs -> Reasons]
      /\ pc'[p] = "WaitPlan" /\ why'[p] = why[p]
      /\ \A q \in Procs : q # p => pc'[q] = pc[q] /\ why'[q] = why[q]
  BY GotoType DEF Approve, CoreInv, Calls
<1>6. /\ holds' \in [Procs -> SUBSET Facts] /\ holds'[p] \subseteq holds[p] \cup {"approval"}
      /\ \A q \in Procs : q # p => holds'[q] = holds[q]
  BY HoldsType DEF Approve, CoreInv, Facts
<1>7. UNCHANGED <<job, entries, plan, tries, result, base>>
  BY DEF ApproveUpdate, Approve
<1>8. \A q \in Procs : q # p => Stays(q)
  BY <1>5, <1>7 DEF Stays
<1>9. /\ fresh' \in [Procs -> BOOLEAN] /\ beaten' \in [Procs -> 0..Attempts]
      /\ fresh'[p] = FALSE /\ beaten'[p] = beaten[p]
      /\ \A q \in Procs : q # p => Attempted(q)'
  <2>1. CASE fresh' = [fresh EXCEPT ![p] = FALSE] /\ UNCHANGED beaten
    <3>1. \A q \in Procs : q # p => fresh'[q] = fresh[q] /\ beaten'[q] = beaten[q]
      BY <2>1 DEF CoreInv, RunsType
    <3>2. fresh' \in [Procs -> BOOLEAN] /\ beaten' \in [Procs -> 0..Attempts] /\ fresh'[p] = FALSE
      BY <2>1 DEF CoreInv, RunsType
    <3> QED
      BY <1>8, <2>1, <3>1, <3>2, AttemptStays DEF CoreInv
  <2>2. CASE Written(plan[p], Procs \ {p})
    <3>1. /\ fresh' \in [Procs -> BOOLEAN] /\ beaten' \in [Procs -> 0..Attempts]
          /\ fresh'[p] = (fresh[p] /\ plan[p] # plan[p]) /\ beaten'[p] = beaten[p]
      BY <2>2, WrittenType DEF CoreInv
    <3>2. ASSUME NEW q \in Procs, q # p
          PROVE  Attempted(q)'
      BY <1>8, <2>2, <3>2, WrittenAttempt DEF CoreInv
    <3> QED
      BY <3>1, <3>2
  <2> QED
    BY <2>1, <2>2 DEF Approve
<1>10. Attempted(p)'
  BY <1>2, <1>5, <1>7, <1>9 DEF Attempted, Calls
<1>11. tries' \in [Procs -> 0..Attempts]
  BY <1>7 DEF CoreInv, RunsType
<1> QED
  BY <1>1, <1>4, <1>5, <1>6, <1>7, <1>9, <1>10, <1>11, ApprovalStep

LEMMA ConflictStep ==
  ASSUME CoreInv, NEW p \in Procs, ApproveUpdate(p), Conflict(p)
  PROVE  CoreInv'
<1>1. pc[p] = "ApproveUpdate" /\ pc[p] \in {"ApproveGet", "ApproveUpdate"} /\ ~fresh[p]
  BY DEF ApproveUpdate, Conflict
<1>2. /\ tries[p] \in Nat /\ tries[p] < Attempts /\ beaten[p] = tries[p] + 1
      /\ why[p] # "conflict"
  BY <1>1, Approving
<1>3. UNCHANGED <<cluster, job, entries, plan, fresh, result, base, beaten, holds, ever, quiet>>
  BY DEF ApproveUpdate, Conflict, cluster
<1>4. ClusterInv' /\ Kept /\ SubsKept
  BY <1>3, SameCluster DEF CoreInv
<1>5. /\ tries' \in [Procs -> 0..Attempts] /\ tries'[p] = tries[p] + 1
      /\ \A q \in Procs : q # p => tries'[q] = tries[q]
  BY <1>2, BoundsAreNats DEF Conflict, CoreInv, RunsType
<1>6. /\ fresh' \in [Procs -> BOOLEAN] /\ beaten' \in [Procs -> 0..Attempts]
  BY <1>3 DEF CoreInv, RunsType
<1>7. /\ pc' \in [Procs -> Calls \cup Ended] /\ why' \in [Procs -> Reasons]
      /\ \A q \in Procs : q # p => pc'[q] = pc[q] /\ why'[q] = why[q]
      /\ \/ tries'[p] = Attempts /\ pc'[p] = "Failed"
         \/ tries'[p] # Attempts /\ pc'[p] = "ApproveGet" /\ why'[p] = why[p]
  <2>1. CASE tries'[p] = Attempts /\ Fail(p, "conflict")
    BY <2>1, FailType DEF CoreInv, Reasons
  <2>2. CASE tries'[p] # Attempts /\ Goto(p, "ApproveGet")
    BY <2>2, GotoType DEF CoreInv, Calls
  <2> QED
    BY <2>1, <2>2 DEF Conflict
<1>8. ASSUME NEW q \in Procs, q # p
      PROVE  Attempted(q)'
  <2>1. Stays(q) /\ fresh'[q] = fresh[q] /\ beaten'[q] = beaten[q]
    BY <1>3, <1>5, <1>7, <1>8 DEF Stays
  <2> QED
    BY <2>1, AttemptStays DEF CoreInv
<1>9. Attempted(p)'
  <2>1. beaten'[p] = tries'[p] /\ fresh'[p] = fresh[p] /\ Attempts \in Nat
    BY <1>2, <1>3, <1>5, BoundsAreNats
  <2> QED
    BY <1>1, <1>2, <1>5, <1>7, <2>1 DEF Attempted, Calls
<1> QED
  BY <1>1, <1>3, <1>4, <1>5, <1>6, <1>7, <1>8, <1>9, SameHolds, ApprovalStep

LEMMA ApproveUpdateStep == ASSUME CoreInv, NEW p \in Procs, ApproveUpdate(p) PROVE CoreInv'
<1>1. CASE Fail(p, "gone") /\ UNCHANGED <<plans, fresh, tries, holds, beaten>>
  BY <1>1, ApprovalGoneStep DEF ApproveUpdate, cluster, local, history
<1>2. CASE Approve(p)
  BY <1>2, ApproveStep
<1>3. CASE Conflict(p)
  BY <1>3, ConflictStep
<1> QED
  BY <1>1, <1>2, <1>3 DEF ApproveUpdate

LEMMA CommandKeepsCore ==
  ASSUME CoreInv, NEW p \in Procs, Command(p) \/ GiveUp(p)
  PROVE  CoreInv'
BY GetPackageStep, ListGroupsStep, CreateGroupStep, CreateSubStep, PollRefStep, FindSubStep,
   GetPlanStep, ApproveGetStep, ApproveUpdateStep, WaitPlanStep, GetCSVStep, GiveUpStep
   DEF Command

LEMMA NextKeepsCore ==
  ASSUME CoreInv, [Next]_vars
  PROVE  CoreInv'
<1>1. CASE UNCHANGED vars
  <2>1. ClusterInv' /\ Kept /\ SubsKept
    BY <1>1, Idle DEF vars, local, history
  <2> QED
    BY <1>1, <2>1, HarmlessStep DEF vars, local, history, commands
<1> QED
  BY <1>1, CommandKeepsCore, OlmKeepsCore, OutsidersKeepCore DEF Next


-----------------------------------------------------------------------------
(***************************************************************************)
(* The initial states.                                                     *)
(***************************************************************************)

LEMMA InitCluster == ASSUME Init PROVE ClusterInv
<1>1. groups \in [GroupNames -> Group \cup {None}]
  <2>1. ASSUME NEW t \in {<<>>, <<Own>>}
        PROVE  [targets |-> t, status |-> StatusOf(t)] \in Group
    <3>1. t \in Seq(STRING) /\ StatusOf(t) \in Seq(STRING)
      BY Lists, StatusOfType
    <3> QED
      BY <3>1, NewGroupType
  <2>2. OldGroups \subseteq Group
    BY <2>1 DEF OldGroups
  <2> QED
    BY <2>2 DEF Init
<1>2. CASE NoPackages
  <2>1. plans = <<>> /\ csvs = {} /\ ever = {} /\ \A k \in Pkgs : subs[k] = None
    BY <1>2 DEF NoPackages, Init
  <2>2. plans \in Seq(Plan) /\ Len(plans) = 0
    BY <2>1, EmptySeq
  <2>3. Len(plans) <= MaxPlans
    BY <2>2, BoundsAreNats
  <2>4. subs \in [Pkgs -> Sub \cup {None}]
    BY <1>2 DEF NoPackages
  <2>5. ReferInv
    BY <2>1 DEF ReferInv
  <2>6. CompleteInv
    BY <2>2 DEF CompleteInv
  <2> QED
    BY <1>1, <2>1, <2>2, <2>3, <2>4, <2>5, <2>6 DEF Init, ClusterInv, ClusterType
<1>3. CASE OldPackages
  <2>1. PICK a \in Approvals :
          subs = [k \in Pkgs |-> IF k \in Present
                    THEN [approval |-> a, starting |-> 0, installed |-> 1, current |-> 1, ref |-> 1]
                    ELSE None]
    BY <1>3 DEF OldPackages
  <2>2. PICK c \in csvs : plans = <<[owners |-> Present, csvs |-> csvs, last |-> c,
                                     approved |-> TRUE, phase |-> "Complete"]>>
    BY <1>3 DEF OldPackages
  <2>3. csvs = {<<k, 1>> : k \in Present} /\ ever = csvs
    BY <1>3 DEF OldPackages, Init
  <2>4. Present \subseteq Pkgs /\ \A k \in Present : head[k] \in 0..MaxVersion /\ head[k] > 0
    BY <1>3, CatalogIsTyped DEF OldPackages, Init
  <2>5. MaxVersion >= 1 /\ MaxPlans >= 1
    BY <1>3, <2>4, BoundsAreNats DEF OldPackages
  <2>6. csvs \subseteq CSVs
    BY <2>3, <2>4, <2>5, BoundsAreNats DEF CSVs, Versions
  <2>7. PICK o : o = [owners |-> Present, csvs |-> csvs, last |-> c,
                      approved |-> TRUE, phase |-> "Complete"]
    OBVIOUS
  <2>8. o \in Plan /\ o.csvs = csvs /\ plans = <<o>>
    BY <2>2, <2>4, <2>6, <2>7 DEF Plan
  <2>9. /\ plans \in Seq(Plan) /\ Len(plans) = 1 /\ plans[1] = o
        /\ \A i \in 1..Len(plans) : i = 1
    BY <2>8
  <2>10. PICK s : s = [approval |-> a, starting |-> 0, installed |-> 1, current |-> 1, ref |-> 1]
    OBVIOUS
  <2>11. /\ s \in Sub /\ s.starting = 0 /\ s.installed = 1 /\ s.current = 1 /\ s.ref = 1
         /\ \A k \in Pkgs : subs[k] = IF k \in Present THEN s ELSE None
    BY <2>1, <2>5, <2>10, BoundsAreNats DEF Sub
  <2>12. subs \in [Pkgs -> Sub \cup {None}]
    BY <2>1, <2>10, <2>11
  <2>13. ASSUME NEW k \in Pkgs, subs[k] # None
         PROVE  Refers(k)
    <3>1. k \in Present /\ subs[k] = s
      BY <2>11, <2>13
    <3>2. <<k, 1>> \in plans[1].csvs /\ 1 <= head[k]
      BY <2>3, <2>4, <2>8, <2>9, <3>1
    <3> QED
      BY <2>9, <2>11, <3>1, <3>2 DEF Refers
  <2>14. CompleteInv
    BY <2>3, <2>8, <2>9 DEF CompleteInv
  <2> QED
    BY <1>1, <2>3, <2>5, <2>6, <2>9, <2>12, <2>13, <2>14
       DEF Init, ClusterInv, ClusterType, ReferInv
<1> QED
  BY <1>2, <1>3 DEF Init

LEMMA InitCore == ASSUME Init PROVE CoreInv
<1>1. ClusterInv
  BY InitCluster
<1>2. 0 \in 0..Len(plans)
  BY <1>1, LenIsNat DEF ClusterInv
<1>3. ASSUME NEW p \in Procs
      PROVE  /\ job[p] \in Jobs /\ pc[p] \in {"GetPackage", "FindSub"} /\ why[p] = "none"
             /\ plan[p] = 0 /\ fresh[p] = FALSE /\ tries[p] = 0 /\ holds[p] = {}
             /\ beaten[p] = 0 /\ base[p] = 0
  BY DEF Init, FirstCall
<1>4. \A p \in Procs : pc[p] \in Calls \cup Ended /\ "none" \in Reasons
  BY <1>3 DEF Calls, Reasons
<1>5. RunsType
  BY <1>2, <1>4, BoundsAreNats DEF Init, RunsType
<1>6. RunsInv
  BY <1>3 DEF RunsInv, Run, Before, After
<1>7. ApprovalInv
  <2>1. 0 < Attempts
    BY BoundsAreNats
  <2> SUFFICES ASSUME NEW p \in Procs
               PROVE  Attempted(p)
    BY DEF ApprovalInv
  <2>2. /\ ~fresh[p] /\ pc[p] # "ApproveUpdate" /\ why[p] # "conflict"
        /\ tries[p] = 0 /\ beaten[p] = 0
    BY <1>3
  <2> QED
    BY <2>1, <2>2 DEF Attempted
<1> QED
  BY <1>1, <1>5, <1>6, <1>7 DEF CoreInv


-----------------------------------------------------------------------------
(***************************************************************************)
(* The operator groups.                                                    *)
(***************************************************************************)

\* A group that gets its targets from the modes that both the operator and the
\* user want is one that the install would have accepted.
LEMMA TargetsSuit ==
  ASSUME NEW modes, NEW watch \in Seq(STRING), NEW supported,
         supported = modes \cap possibleInstallModes(watch), supported # {}
  PROVE  validateOperatorGroup(StatusOf(getTargetNamespaces(supported, watch)),
                               modes, possibleInstallModes(watch))
<1> DEFINE t == getTargetNamespaces(supported, watch)
<1>1. supported \subseteq ModeTypes /\ supported \subseteq possibleInstallModes(watch)
  BY DEF possibleInstallModes
<1> SUFFICES \E m \in supported : m \in possibleInstallModes(StatusOf(t))
  BY <1>1 DEF validateOperatorGroup
<1>2. CASE "AllNamespaces" \in supported
  <2>1. t = <<>>
    BY <1>2 DEF getTargetNamespaces
  <2>2. StatusOf(t) = <<AllNamespaces>>
    BY <2>1 DEF StatusOf
  <2>3. "AllNamespaces" \in possibleInstallModes(<<AllNamespaces>>)
    BY DEF possibleInstallModes, ModeTypes
  <2> QED
    BY <1>2, <2>2, <2>3
<1>3. CASE "AllNamespaces" \notin supported /\ "OwnNamespace" \in supported
  <2>1. t = <<Own>>
    BY <1>3 DEF getTargetNamespaces
  <2>2. StatusOf(t) = <<Own>>
    <3>1. Len(<<Own>>) = 1 /\ Len(<<>>) = 0
      OBVIOUS
    <3>2. <<Own>> # <<>>
      BY <3>1
    <3> QED
      BY <2>1, <3>2 DEF StatusOf
  <2>3. "OwnNamespace" \in possibleInstallModes(<<Own>>)
    BY DEF possibleInstallModes, ModeTypes
  <2> QED
    BY <1>3, <2>2, <2>3
<1>4. CASE "AllNamespaces" \notin supported /\ "OwnNamespace" \notin supported
  <2>1. t = watch
    BY <1>4 DEF getTargetNamespaces
  <2>2. PICK m \in supported : m \in {"SingleNamespace", "MultiNamespace"}
    BY <1>1, <1>4 DEF ModeTypes
  <2>3. m \in possibleInstallModes(watch)
    BY <1>1
  <2>4. Len(watch) # 0
    <3>1. CASE m = "SingleNamespace"
      BY <2>3, <3>1 DEF possibleInstallModes
    <3>2. CASE m = "MultiNamespace"
      BY <2>3, <3>2 DEF possibleInstallModes
    <3> QED
      BY <2>2, <3>1, <3>2
  <2>5. StatusOf(watch) = watch
    BY <2>4 DEF StatusOf
  <2> QED
    BY <2>1, <2>3, <2>5
<1> QED
  BY <1>2, <1>3, <1>4

LEMMA NewGroupSuits ==
  ASSUME CoreInv, NEW p \in Procs, Supported(p) # {}
  PROVE  validateOperatorGroup(StatusOf(NewGroup(p).targets),
                               Modes[job[p].pkg][entries[p]], Desired(p))
BY JobType, NewGroupIsGroup, TargetsSuit DEF Supported, Desired

\* One group at most is no group or one.
LEMMA AtMostOne ==
  ASSUME Cardinality(LiveGroups) <= 1, LiveGroups # {}
  PROVE  \E g \in GroupNames : LiveGroups = {g}
<1>1. IsFiniteSet(GroupNames)
  <2>1. IsFiniteSet({Own})
    BY FS_Singleton
  <2> QED
    BY <2>1, GroupsAreFinite, FS_Union DEF GroupNames
<1>2. LiveGroups \subseteq GroupNames /\ IsFiniteSet(LiveGroups)
  BY <1>1, FS_Subset DEF LiveGroups
<1>3. Cardinality(LiveGroups) \in Nat /\ Cardinality(LiveGroups) # 0
  BY <1>2, FS_CardinalityType, FS_EmptySet
<1>4. Cardinality(LiveGroups) = 1
  BY <1>3
<1>5. PICK g : LiveGroups = {g}
  BY <1>2, <1>4, FS_Singleton
<1> QED
  BY <1>2, <1>5


\* A step that neither makes nor deletes a group.
SameGroups ==
  \A g \in GroupNames :
    /\ groups'[g] # None <=> groups[g] # None
    /\ groups[g] # None => /\ groups'[g].targets = groups[g].targets
                           /\ groups'[g].status \in {groups[g].status, StatusOf(groups[g].targets)}

\* A run that has learnt nothing of the groups.
Unaware(q) ==
  /\ pc'[q] = "CreateGroup" => pc[q] = "CreateGroup" /\ entries'[q] = entries[q]
  /\ PastGroup(q)' /\ "group" \in holds'[q] =>
       PastGroup(q) /\ "group" \in holds[q] /\ entries'[q] = entries[q]
  /\ pc'[q] \in Unlisted => pc[q] \in Unlisted /\ ("group" \in holds'[q] => "group" \in holds[q])

LEMMA UnawareKeeps ==
  ASSUME GroupsInv, SameGroups, \A q \in Procs : Unaware(q), job' = job, quiet' = quiet
  PROVE  GroupsInv'
<1>1. LiveGroups' = LiveGroups
  BY DEF SameGroups, LiveGroups
<1>2. \A g \in LiveGroups : groups'[g].status \in {<<>>, StatusOf(groups'[g].targets)}
  BY DEF GroupsInv, SameGroups, LiveGroups
<1>3. ASSUME NEW p \in Procs, quiet, pc'[p] = "CreateGroup"
      PROVE  LiveGroups \subseteq {Own} /\ Supported(p)' # {}
  <2>1. pc[p] = "CreateGroup" /\ entries'[p] = entries[p]
    BY <1>3 DEF Unaware
  <2>2. Supported(p)' = Supported(p)
    BY <2>1 DEF Supported, Desired
  <2> QED
    BY <1>3, <2>1, <2>2 DEF GroupsInv
<1>4. \A p \in Procs : pc'[p] \in Unlisted => "group" \notin holds'[p]
  BY DEF GroupsInv, Unaware
<1>5. ASSUME NEW p \in Procs, quiet, PastGroup(p)', "group" \in holds'[p]
      PROVE  \E g \in GroupNames : LiveGroups = {g} /\ Suits(g, p)'
  <2>1. PastGroup(p) /\ "group" \in holds[p] /\ entries'[p] = entries[p]
    BY <1>5 DEF Unaware
  <2>2. PICK g \in GroupNames : LiveGroups = {g} /\ Suits(g, p)
    BY <1>5, <2>1 DEF GroupsInv, GroupSuits
  <2>3. groups'[g].targets = groups[g].targets
    BY <2>2 DEF SameGroups, LiveGroups
  <2>4. Suits(g, p)'
    BY <2>1, <2>2, <2>3 DEF Suits, Desired
  <2> QED
    BY <2>2, <2>4
<1>6. GroupSuits'
  BY <1>1, <1>5 DEF GroupSuits
<1> QED
  BY <1>1, <1>2, <1>3, <1>4, <1>6 DEF GroupsInv

LEMMA Untouched == ASSUME groups' = groups PROVE SameGroups
BY DEF SameGroups

\* OLM and other users.
LEMMA SyncGroupKeepsGroups ==
  ASSUME CoreInv, GroupsInv, NEW g \in GroupNames, SyncGroup(g)
  PROVE  GroupsInv'
<1>1. groups[g] \in Group
  BY DEF SyncGroup, LiveGroups, CoreInv, ClusterInv, ClusterType
<1>2. PICK o : o = [groups[g] EXCEPT !.status = StatusOf(groups[g].targets)]
  OBVIOUS
<1>3. /\ groups' = [groups EXCEPT ![g] = o] /\ o.targets = groups[g].targets
      /\ o.status = StatusOf(groups[g].targets)
  BY <1>1, <1>2 DEF SyncGroup, Group
<1>4. o # None
  <2>1. o \in Group
    BY <1>1, <1>2, SyncedGroup
  <2> QED
    BY <2>1, NoneIsNoObject
<1>5. SameGroups
  BY <1>1, <1>3, <1>4, NoneIsNoObject DEF SameGroups, CoreInv, ClusterInv, ClusterType
<1>6. \A q \in Procs : Unaware(q)
  BY DEF SyncGroup, commands, history, Unaware, PastGroup
<1> QED
  BY <1>5, <1>6, UnawareKeeps DEF SyncGroup, commands, history

LEMMA ChangeGroupKeepsGroups ==
  ASSUME CoreInv, GroupsInv, NEW g \in GroupNames, ChangeGroup(g)
  PROVE  GroupsInv'
<1>1. PICK o : groups' = [groups EXCEPT ![g] = o] /\ (o # None => o.status = <<>>)
  <2>1. ASSUME NEW t, groups' = [groups EXCEPT ![g] = [targets |-> t, status |-> <<>>]]
        PROVE  \E o : groups' = [groups EXCEPT ![g] = o] /\ (o # None => o.status = <<>>)
    <3>1. [targets |-> t, status |-> <<>>].status = <<>>
      OBVIOUS
    <3> QED
      BY <2>1, <3>1
  <2> QED
    BY <2>1 DEF ChangeGroup
<1>2. \A h \in LiveGroups' : groups'[h].status \in {<<>>, StatusOf(groups'[h].targets)}
  BY <1>1 DEF GroupsInv, LiveGroups, CoreInv, ClusterInv, ClusterType
<1>3. quiet' = FALSE /\ pc' = pc /\ holds' = holds
  BY DEF ChangeGroup, commands
<1> QED
  BY <1>2, <1>3 DEF GroupsInv, GroupSuits

LEMMA ClusterKeepsGroups ==
  ASSUME CoreInv, GroupsInv, Olm \/ Outsiders
  PROVE  GroupsInv'
<1>1. ASSUME groups' = groups, UNCHANGED <<commands, quiet>>,
             \A q \in Procs : holds'[q] \subseteq holds[q]
      PROVE  GroupsInv'
  <2>1. \A q \in Procs : Unaware(q)
    BY <1>1 DEF commands, Unaware, PastGroup
  <2> QED
    BY <1>1, <2>1, Untouched, UnawareKeeps DEF commands
<1>2. ASSUME NEW k \in Pkgs, Publish(k) \/ SyncInstalled(k)
      PROVE  GroupsInv'
  BY <1>1, <1>2 DEF Publish, SyncInstalled, history
<1>3. CASE MakePlan
  BY <1>1, <1>3 DEF MakePlan, history
<1>4. ASSUME NEW i, ReusePlan(i) \/ ExecutePlan(i) \/ TouchPlan(i) \/ CollectPlan(i)
      PROVE  GroupsInv'
  BY <1>1, <1>4 DEF ReusePlan, ExecutePlan, TouchPlan, CollectPlan, history, cluster
<1>5. ASSUME NEW c, ReplaceCSV(c)
      PROVE  GroupsInv'
  BY <1>1, <1>5 DEF ReplaceCSV, history
<1>6. ASSUME NEW k \in Pkgs, Uninstall(k)
      PROVE  GroupsInv'
  <2>1. \A q \in Procs : holds'[q] \subseteq holds[q]
    BY <1>6 DEF Uninstall
  <2> QED
    BY <1>1, <1>6, <2>1 DEF Uninstall
<1> QED
  BY <1>2, <1>3, <1>4, <1>5, <1>6, SyncGroupKeepsGroups, ChangeGroupKeepsGroups
     DEF Olm, Outsiders


\* The calls that neither list the groups nor make one.
PastCalls == {"CreateSub", "PollRef", "GetPlan", "ApproveGet", "ApproveUpdate", "WaitPlan",
              "GetCSV", "Done"}

LEMMA CallKeepsGroups ==
  ASSUME CoreInv, GroupsInv, NEW p \in Procs, groups' = groups, quiet' = quiet, job' = job,
         \A q \in Procs : q # p => /\ pc'[q] = pc[q] /\ holds'[q] = holds[q]
                                   /\ entries'[q] = entries[q],
         "group" \in holds'[p] => "group" \in holds[p],
         \/ pc[p] = "GetPackage" /\ pc'[p] = "ListGroups"
         \/ pc'[p] = "Failed"
         \/ pc[p] = "FindSub" /\ pc'[p] = "GetPlan"
         \/ pc[p] \in PastCalls /\ pc'[p] \in PastCalls /\ entries'[p] = entries[p]
  PROVE  GroupsInv'
<1>1. \A q \in Procs : q # p => Unaware(q)
  BY DEF Unaware, PastGroup
<1>2. pc[p] \in Unlisted => "group" \notin holds[p]
  BY DEF GroupsInv
<1>3. Unaware(p)
  BY <1>2 DEF Unaware, PastGroup, PastCalls, Unlisted
<1> QED
  BY <1>1, <1>3, Untouched, UnawareKeeps

\* What a call that neither lists the groups nor makes one does to its run.
Plain(p) ==
  /\ groups' = groups /\ quiet' = quiet /\ job' = job
  /\ \A q \in Procs : q # p => holds'[q] = holds[q] /\ entries'[q] = entries[q]
  /\ "group" \in holds'[p] => "group" \in holds[p]

LEMMA PlainFails ==
  ASSUME CoreInv, GroupsInv, NEW p \in Procs, Plain(p), NEW reason \in Reasons, Fail(p, reason)
  PROVE  GroupsInv'
<1>1. pc'[p] = "Failed" /\ \A q \in Procs : q # p => pc'[q] = pc[q]
  BY FailType DEF CoreInv
<1> QED
  BY <1>1, CallKeepsGroups DEF Plain

LEMMA PlainGoes ==
  ASSUME CoreInv, GroupsInv, NEW p \in Procs, Plain(p), NEW call \in Calls \cup Ended,
         Goto(p, call),
         \/ pc[p] = "GetPackage" /\ call = "ListGroups"
         \/ pc[p] = "FindSub" /\ call = "GetPlan"
         \/ pc[p] \in PastCalls /\ call \in PastCalls /\ entries'[p] = entries[p]
  PROVE  GroupsInv'
<1>1. pc'[p] = call /\ \A q \in Procs : q # p => pc'[q] = pc[q]
  BY GotoType DEF CoreInv
<1> QED
  BY <1>1, CallKeepsGroups DEF Plain

LEMMA PlainHolds ==
  ASSUME CoreInv, NEW p \in Procs, UNCHANGED <<groups, quiet, job, entries>>,
         \/ holds' = holds \/ Holds(p, "sub") \/ Holds(p, "approval")
  PROVE  Plain(p)
<1>1. CASE holds' = holds
  BY <1>1 DEF Plain
<1>2. ASSUME NEW f \in {"sub", "approval"}, Holds(p, f)
      PROVE  Plain(p)
  <2>1. /\ holds'[p] = holds[p] \cup {f}
        /\ \A q \in Procs : q # p => holds'[q] = holds[q]
    BY <1>2, HoldsType DEF CoreInv, Facts
  <2> QED
    BY <2>1 DEF Plain
<1> QED
  BY <1>1, <1>2

LEMMA ListGroupsKeepsGroups ==
  ASSUME CoreInv, GroupsInv, NEW p \in Procs, ListGroups(p)
  PROVE  GroupsInv'
<1>1. /\ pc[p] = "ListGroups" /\ groups' = groups
      /\ UNCHANGED <<job, entries, quiet>>
  BY DEF ListGroups, cluster, local
<1>2. "group" \notin holds[p]
  BY <1>1 DEF GroupsInv, Unlisted
<1>3. /\ \A q \in Procs : q # p => holds'[q] = holds[q]
      /\ "group" \in holds'[p] => \A g \in LiveGroups : groups[g].status # <<>>
  <2>1. CASE \A g \in LiveGroups : groups[g].status # <<>>
    <3>1. Holds(p, "group")
      BY <2>1 DEF ListGroups
    <3> QED
      BY <2>1, <3>1, HoldsType DEF CoreInv, Facts
  <2>2. CASE ~(\A g \in LiveGroups : groups[g].status # <<>>)
    BY <1>2, <2>2 DEF ListGroups
  <2> QED
    BY <2>1, <2>2
<1>4. /\ \A q \in Procs : q # p => pc'[q] = pc[q]
      /\ \/ pc'[p] = "Failed"
         \/ pc'[p] = "CreateGroup" /\ LiveGroups = {} /\ Installable(p)
         \/ pc'[p] = "CreateSub" /\ LiveGroups # {} /\ Installable(p)
  <2>1. CASE Fail(p, "notInstallable")
    BY <2>1, FailType DEF CoreInv, Reasons
  <2>2. CASE Installable(p) /\ LiveGroups = {} /\ Goto(p, "CreateGroup")
    BY <2>2, GotoType DEF CoreInv, Calls
  <2>3. CASE Installable(p) /\ LiveGroups # {} /\ Goto(p, "CreateSub")
    BY <2>3, GotoType DEF CoreInv, Calls
  <2> QED
    BY <2>1, <2>2, <2>3 DEF ListGroups
<1>5. LiveGroups' = LiveGroups
  BY <1>1 DEF LiveGroups
<1>6. ASSUME NEW q \in Procs, quiet, pc'[q] = "CreateGroup"
      PROVE  LiveGroups \subseteq {Own} /\ Supported(q)' # {}
  <2>1. Supported(q)' = Supported(q)
    BY <1>1 DEF Supported, Desired
  <2>2. CASE q = p
    BY <1>4, <1>6, <2>1, <2>2 DEF Installable
  <2>3. CASE q # p
    BY <1>4, <1>6, <2>1, <2>3 DEF GroupsInv
  <2> QED
    BY <2>2, <2>3
<1>7. \A q \in Procs : pc'[q] \in Unlisted => "group" \notin holds'[q]
  BY <1>3, <1>4 DEF GroupsInv, Unlisted
<1>8. ASSUME NEW q \in Procs, quiet, PastGroup(q)', "group" \in holds'[q]
      PROVE  \E g \in GroupNames : LiveGroups = {g} /\ Suits(g, q)'
  <2>1. \A g \in GroupNames : Suits(g, q)' = Suits(g, q)
    BY <1>1 DEF Suits, Desired
  <2>2. CASE q # p
    <3>1. PastGroup(q) /\ "group" \in holds[q]
      BY <1>1, <1>3, <1>4, <1>8, <2>2 DEF PastGroup
    <3> QED
      BY <1>8, <2>1, <3>1 DEF GroupsInv, GroupSuits
  <2>3. CASE q = p
    <3>1. LiveGroups # {} /\ Installable(p)
      BY <1>4, <1>8, <2>3 DEF PastGroup
    <3>2. PICK g \in GroupNames : LiveGroups = {g}
      BY <3>1, AtMostOne DEF Installable
    <3>3. groups[g].status = StatusOf(groups[g].targets)
      BY <1>3, <1>8, <2>3, <3>2 DEF GroupsInv
    <3>4. validateOperatorGroup(groups[g].status, Modes[job[p].pkg][entries[p]], Desired(p))
      BY <3>1, <3>2 DEF Installable
    <3>5. Suits(g, p)
      BY <3>3, <3>4 DEF Suits
    <3> QED
      BY <2>1, <2>3, <3>2, <3>5
  <2> QED
    BY <2>2, <2>3
<1>9. GroupSuits'
  BY <1>1, <1>5, <1>8 DEF GroupSuits
<1> QED
  BY <1>1, <1>5, <1>6, <1>7, <1>9 DEF GroupsInv

LEMMA CreateGroupKeepsGroups ==
  ASSUME CoreInv, GroupsInv, NEW p \in Procs, CreateGroup(p)
  PROVE  GroupsInv'
<1>1. /\ pc[p] = "CreateGroup" /\ UNCHANGED <<job, entries, holds, quiet>>
  BY DEF CreateGroup, local, history
<1>2. CASE groups' = groups /\ Fail(p, "exists")
  BY <1>1, <1>2, PlainHolds, PlainFails DEF Reasons
<1>3. CASE groups[Own] = None /\ groups' = [groups EXCEPT ![Own] = NewGroup(p)]
           /\ Goto(p, "CreateSub")
  <2>1. pc'[p] = "CreateSub" /\ \A q \in Procs : q # p => pc'[q] = pc[q]
    BY <1>3, GotoType DEF CoreInv, Calls
  <2>2. /\ Own \in GroupNames /\ groups'[Own] = NewGroup(p) /\ NewGroup(p) # None
        /\ NewGroup(p).status = <<>>
        /\ \A g \in GroupNames : g # Own => groups'[g] = groups[g]
    BY <1>3, NewGroupIsGroup DEF GroupNames, CoreInv, ClusterInv, ClusterType
  <2>3. LiveGroups' = LiveGroups \cup {Own} /\ Own \notin LiveGroups
    BY <1>3, <2>2 DEF LiveGroups
  <2>4. \A g \in LiveGroups' : groups'[g].status \in {<<>>, StatusOf(groups'[g].targets)}
    BY <2>2, <2>3 DEF GroupsInv, LiveGroups
  <2>5. quiet => LiveGroups = {} /\ LiveGroups' = {Own} /\ Supported(p) # {}
    BY <1>1, <2>3 DEF GroupsInv
  <2>6. \A q \in Procs : Supported(q)' = Supported(q)
    BY <1>1 DEF Supported, Desired
  <2>7. \A q \in Procs : pc'[q] \in Unlisted => "group" \notin holds'[q]
    BY <1>1, <2>1 DEF GroupsInv, Unlisted
  <2>8. ASSUME NEW q \in Procs, quiet, PastGroup(q)', "group" \in holds'[q]
        PROVE  Suits(Own, q)'
    <3>1. CASE q = p
      <4>1. validateOperatorGroup(StatusOf(NewGroup(p).targets),
                                  Modes[job[p].pkg][entries[p]], Desired(p))
        BY <2>5, <2>8, NewGroupSuits
      <4> QED
        BY <1>1, <2>2, <3>1, <4>1 DEF Suits, Desired
    <3>2. CASE q # p
      <4>1. PastGroup(q) /\ "group" \in holds[q]
        BY <1>1, <2>1, <2>8, <3>2 DEF PastGroup
      <4>2. LiveGroups # {}
        BY <2>8, <4>1 DEF GroupsInv, GroupSuits
      <4> QED
        BY <2>5, <2>8, <4>2
    <3> QED
      BY <3>1, <3>2
  <2>9. GroupSuits'
    BY <1>1, <2>2, <2>5, <2>8 DEF GroupSuits
  <2> QED
    BY <1>1, <2>1, <2>4, <2>5, <2>6, <2>7, <2>9 DEF GroupsInv
<1> QED
  BY <1>2, <1>3 DEF CreateGroup

LEMMA CommandKeepsGroups ==
  ASSUME CoreInv, GroupsInv, NEW p \in Procs, Command(p) \/ GiveUp(p)
  PROVE  GroupsInv'
<1>1. ASSUME NEW reason \in {"package", "version", "exists", "gone", "noPlan", "latest",
                             "conflict", "call"},
             Fail(p, reason), Plain(p)
      PROVE  GroupsInv'
  BY <1>1, PlainFails DEF Reasons
<1>2. ASSUME NEW call \in PastCalls, Goto(p, call), pc[p] \in PastCalls, Plain(p),
             entries' = entries
      PROVE  GroupsInv'
  BY <1>2, PlainGoes DEF PastCalls, Calls, Ended
<1>3. CASE GetPackage(p)
  <2>1. Plain(p)
    BY <1>3 DEF GetPackage, Plain, cluster, history, CoreInv, RunsType
  <2>2. CASE Goto(p, "ListGroups")
    BY <1>3, <2>1, <2>2, PlainGoes DEF GetPackage, Calls
  <2> QED
    BY <1>1, <1>3, <2>1, <2>2 DEF GetPackage
<1>4. CASE CreateSub(p)
  <2>1. Plain(p) /\ entries' = entries
    BY <1>4, PlainHolds DEF CreateSub, local
  <2> QED
    BY <1>1, <1>2, <1>4, <2>1 DEF CreateSub, PastCalls
<1>5. CASE PollRef(p)
  <2>1. Plain(p) /\ entries' = entries
    BY <1>5, PlainHolds DEF PollRef, cluster, history
  <2> QED
    BY <1>1, <1>2, <1>5, <2>1 DEF PollRef, PastCalls
<1>6. CASE FindSub(p)
  <2>1. Plain(p)
    BY <1>6, PlainHolds DEF FindSub, cluster
  <2>2. CASE Goto(p, "GetPlan")
    BY <1>6, <2>1, <2>2, PlainGoes DEF FindSub, Calls
  <2> QED
    BY <1>1, <1>6, <2>1, <2>2 DEF FindSub
<1>7. CASE GetPlan(p)
  <2>1. Plain(p) /\ entries' = entries
    BY <1>7, PlainHolds DEF GetPlan, cluster, local, history
  <2> QED
    BY <1>1, <1>2, <1>7, <2>1 DEF GetPlan, PastCalls
<1>8. CASE ApproveGet(p)
  <2>1. Plain(p) /\ entries' = entries
    BY <1>8, PlainHolds DEF ApproveGet, cluster, history
  <2> QED
    BY <1>1, <1>2, <1>8, <2>1 DEF ApproveGet, PastCalls
<1>9. CASE ApproveUpdate(p)
  <2>1. pc[p] \in PastCalls /\ UNCHANGED <<groups, quiet, job, entries>>
    BY <1>9 DEF ApproveUpdate, PastCalls
  <2>2. CASE Fail(p, "gone") /\ UNCHANGED holds
    BY <1>1, <2>1, <2>2, PlainHolds
  <2>3. CASE Approve(p)
    <3>1. Goto(p, "WaitPlan") /\ Holds(p, "approval")
      BY <2>3 DEF Approve
    <3> QED
      BY <1>2, <2>1, <3>1, PlainHolds DEF PastCalls
  <2>4. CASE Conflict(p)
    <3>1. UNCHANGED holds /\ (Fail(p, "conflict") \/ Goto(p, "ApproveGet"))
      BY <2>4 DEF Conflict
    <3> QED
      BY <1>1, <1>2, <2>1, <3>1, PlainHolds DEF PastCalls
  <2> QED
    BY <1>9, <2>2, <2>3, <2>4 DEF ApproveUpdate
<1>10. CASE WaitPlan(p)
  <2>1. Plain(p) /\ entries' = entries
    BY <1>10, PlainHolds DEF WaitPlan, cluster, history
  <2> QED
    BY <1>1, <1>2, <1>10, <2>1 DEF WaitPlan, PastCalls
<1>11. CASE GetCSV(p)
  <2>1. Plain(p) /\ entries' = entries
    BY <1>11, PlainHolds DEF GetCSV, cluster, local, history
  <2> QED
    BY <1>1, <1>2, <1>11, <2>1 DEF GetCSV, PastCalls
<1>12. CASE GiveUp(p)
  <2>1. Plain(p)
    BY <1>12, PlainHolds DEF GiveUp, cluster, local, history
  <2> QED
    BY <1>1, <1>12, <2>1 DEF GiveUp
<1> QED
  BY <1>3, <1>4, <1>5, <1>6, <1>7, <1>8, <1>9, <1>10, <1>11, <1>12,
     ListGroupsKeepsGroups, CreateGroupKeepsGroups DEF Command

LEMMA NextKeepsGroups ==
  ASSUME CoreInv, GroupsInv, [Next]_vars
  PROVE  GroupsInv'
<1>1. CASE UNCHANGED vars
  <2>1. \A q \in Procs : Unaware(q)
    BY <1>1 DEF vars, local, history, Unaware, PastGroup
  <2> QED
    BY <1>1, <2>1, Untouched, UnawareKeeps DEF vars, cluster, local, history
<1> QED
  BY <1>1, CommandKeepsGroups, ClusterKeepsGroups DEF Next

LEMMA InitGroups == ASSUME Init PROVE GroupsInv
<1>1. ASSUME NEW g \in LiveGroups
      PROVE  groups[g].status \in {<<>>, StatusOf(groups[g].targets)}
  <2>1. groups[g] \in OldGroups
    BY <1>1 DEF LiveGroups, Init
  <2>2. PICK t : groups[g] = [targets |-> t, status |-> StatusOf(t)]
    BY <2>1 DEF OldGroups
  <2> QED
    BY <2>2
<1>2. \A p \in Procs : pc[p] \in {"GetPackage", "FindSub"} /\ holds[p] = {}
  BY DEF Init, FirstCall
<1> QED
  BY <1>1, <1>2 DEF GroupsInv, GroupSuits, PastGroup


-----------------------------------------------------------------------------
(***************************************************************************)
(* What an install and an upgrade promise.                                 *)
(***************************************************************************)

LEMMA AlwaysIInv == Spec => []IInv
<1>1. Init => IInv
  BY InitCore, InitGroups DEF IInv
<1>2. IInv /\ [Next]_vars => IInv'
  BY NextKeepsCore, NextKeepsGroups DEF IInv
<1> QED
  BY <1>1, <1>2, PTL DEF Spec

\* The commands, OLM and the other users keep every variable in its type: in
\* particular a run only ever follows an InstallPlan that was made, and tries an
\* update of it no more often than retry.DefaultBackoff allows.
THEOREM TypeCorrect == Spec => []TypeOK
BY AlwaysIInv, IInvTypes, PTL

\* However many installs look for an operator group at once and make one if they
\* find none: one that has come past ensureOperatorGroup goes on in a namespace
\* with one group that suits it, as long as nobody else touches the groups.
THEOREM OneSuitableGroup == Spec => []GroupSuits
<1>1. IInv => GroupSuits
  BY DEF IInv, GroupsInv
<1> QED
  BY <1>1, AlwaysIInv, PTL

\* RetryOnConflict gives up only if somebody else has written the plan between
\* the reading and the update in every attempt.
THEOREM ConflictOnlyByContention == Spec => []ConflictMeansContention
<1>1. IInv => ConflictMeansContention
  BY DEF IInv, CoreInv, ApprovalInv, Attempted, ConflictMeansContention
<1> QED
  BY <1>1, AlwaysIInv, PTL

\* A plan that a command has approved installs a version of the package that is
\* newer than the one that the command found: also if OLM has made other plans,
\* and the subscription refers to one of those, since the command read it.
THEOREM ApprovalsMoveForward == Spec => []ApprovalMovesForward
<1>1. IInv => ApprovalMovesForward
  BY DEF IInv, CoreInv, RunsInv, Run, Forward, ApprovalMovesForward
<1> QED
  BY <1>1, AlwaysIInv, PTL

\* A command that succeeds has seen its package installed or brought forward,
\* and at the version that the user asked for unless it was uninstalled.
THEOREM SuccessMeansInstalled == Spec => []DoneMeansInstalled
<1>1. IInv => DoneMeansInstalled
  <2> SUFFICES ASSUME IInv, NEW p \in Procs, pc[p] = "Done"
               PROVE  /\ \E n \in Versions : n > base[p] /\ <<job[p].pkg, n>> \in ever
                      /\ job[p].version # 0 /\ "sub" \in holds[p] =>
                           <<job[p].pkg, job[p].version>> \in ever
    BY DEF DoneMeansInstalled
  <2>1. plan[p] # 0 /\ Run(p) /\ plans[plan[p]].csvs \subseteq ever
    BY DEF IInv, CoreInv, RunsInv, Run, After
  <2>2. \E n \in Versions : n > base[p] /\ <<job[p].pkg, n>> \in ever
    BY <2>1 DEF Run, Forward
  <2>3. job[p].version # 0 /\ "sub" \in holds[p] => <<job[p].pkg, job[p].version>> \in ever
    BY <2>1 DEF Run, Pinned
  <2> QED
    BY <2>2, <2>3
<1> QED
  BY <1>1, AlwaysIInv, PTL

=============================================================================
