----------------------- MODULE OperatorInstallRefines -----------------------
(***************************************************************************)
(* Installs and upgrades implement PlannedInstall: the stage of a run is a *)
(* function of its next call, and what they share with the others are the  *)
(* group of the namespace, the subscriptions and the install plans.        *)
(***************************************************************************)
EXTENDS OperatorInstallProofs

\* The abstract state.
About      == [p \in Procs |-> job[p].pkg]
Stages     == [p \in Procs |-> StageAt[pc[p]]]
HasGroup   == groups[Own] # None
Serves     == [i \in DOMAIN plans |-> {c[1] : c \in plans[i].csvs}]
Approved   == {i \in DOMAIN plans : plans[i].approved}
CarriedOut == {i \in DOMAIN plans : plans[i].phase = "Complete"}

shared == <<HasGroup, Subscribed, Serves, Approved, CarriedOut>>

-----------------------------------------------------------------------------
(***************************************************************************)
(* Steps of a command.                                                     *)
(***************************************************************************)

\* A run goes on to its next call, or fails.
Moves(p, call) == pc' = [pc EXCEPT ![p] = call]

LEMMA StageMoves ==
  ASSUME RunsType, NEW p \in Procs, NEW call \in Calls \cup Ended, Moves(p, call)
  PROVE  Stages' = [Stages EXCEPT ![p] = StageAt[call]]
BY DEF RunsType, Moves, Stages

LEMMA SameShared ==
  ASSUME UNCHANGED <<groups, subs, plans>>
  PROVE  UNCHANGED shared
BY DEF shared, HasGroup, Subscribed, Serves, Approved, CarriedOut

LEMMA SameAbout == ASSUME job' = job PROVE About' = About
BY DEF About

\* Whatever a run was about to do, it may fail instead.
LEMMA FailRefines ==
  ASSUME RunsType, NEW p \in Procs, pc[p] \in Calls, NEW reason, Fail(p, reason),
         UNCHANGED <<job, plan, groups, subs, plans>>
  PROVE  Planned!Next
<1>1. Moves(p, "Failed") /\ "Failed" \in Calls \cup Ended
  BY DEF Fail, Moves, Ended
<1>2. Stages' = [Stages EXCEPT ![p] = StageAt["Failed"]]
  BY <1>1, StageMoves
<1>3. Stages[p] \notin {"done", "failed"} /\ StageAt["Failed"] = "failed"
  BY DEF Stages, StageAt, Calls
<1>4. Planned!Fail(p)
  BY <1>2, <1>3, SameShared, SameAbout
     DEF Planned!Fail, Planned!Ended, shared, About, Stages, HasGroup, Serves, Approved, CarriedOut
<1> QED
  BY <1>4 DEF Planned!Next

\* Calls that only read, and go on.
Reading ==
  {<<"looking", "grouping">>, <<"looking", "subscribing">>, <<"following", "approving">>,
   <<"following", "waiting">>, <<"reporting", "done">>}

LEMMA ReadRefines ==
  ASSUME RunsType, NEW p \in Procs, NEW call \in Calls \cup Ended, Moves(p, call),
         UNCHANGED <<job, plan, groups, subs, plans>>,
         StageAt[call] = Stages[p] \/ <<Stages[p], StageAt[call]>> \in Reading
  PROVE  [Planned!Next]_(Planned!vars)
<1>1. Stages' = [Stages EXCEPT ![p] = StageAt[call]]
  BY StageMoves
<1>2. UNCHANGED <<About, plan, HasGroup, Subscribed, Serves, Approved, CarriedOut>>
  BY SameShared, SameAbout DEF shared
<1>3. CASE StageAt[call] = Stages[p]
  <2>1. Stages' = Stages
    BY <1>1, <1>3 DEF Stages
  <2> QED
    BY <1>2, <2>1 DEF Planned!vars, About, Stages, HasGroup, Serves, Approved, CarriedOut
<1>4. CASE <<Stages[p], StageAt[call]>> \in Reading
  <2>1. CASE Stages[p] = "looking" /\ StageAt[call] \in {"grouping", "subscribing"}
    <3>1. Planned!Look(p)
      BY <1>1, <1>2, <2>1
         DEF Planned!Look, Planned!Goes, About, Stages, HasGroup, Serves, Approved, CarriedOut
    <3> QED
      BY <3>1 DEF Planned!Next
  <2>2. CASE Stages[p] = "following" /\ StageAt[call] \in {"approving", "waiting"}
    <3>1. Planned!Decide(p)
      BY <1>1, <1>2, <2>2
         DEF Planned!Decide, Planned!Goes, About, Stages, HasGroup, Serves, Approved, CarriedOut
    <3> QED
      BY <3>1 DEF Planned!Next
  <2>3. CASE Stages[p] = "reporting" /\ StageAt[call] = "done"
    <3>1. Planned!Report(p)
      BY <1>1, <1>2, <2>3
         DEF Planned!Report, Planned!Goes, About, Stages, HasGroup, Serves, Approved, CarriedOut
    <3> QED
      BY <3>1 DEF Planned!Next
  <2> QED
    BY <1>4, <2>1, <2>2, <2>3 DEF Reading
<1> QED
  BY <1>3, <1>4

LEMMA StageOf ==
  /\ \A call \in {"GetPackage", "ListGroups", "FindSub"} : StageAt[call] = "looking"
  /\ StageAt["CreateGroup"] = "grouping" /\ StageAt["CreateSub"] = "subscribing"
  /\ StageAt["PollRef"] = "subscribed" /\ StageAt["GetPlan"] = "following"
  /\ StageAt["ApproveGet"] = "approving" /\ StageAt["ApproveUpdate"] = "approving"
  /\ StageAt["WaitPlan"] = "waiting" /\ StageAt["GetCSV"] = "reporting" /\ StageAt["Done"] = "done"
BY DEF StageAt

LEMMA CreateGroupRefines ==
  ASSUME CoreInv, NEW p \in Procs, CreateGroup(p)
  PROVE  Planned!Next
<1>1. /\ UNCHANGED <<job, plan, subs, plans>> /\ pc[p] = "CreateGroup" /\ Own \in GroupNames
      /\ RunsType /\ groups \in [GroupNames -> Group \cup {None}]
  BY DEF CreateGroup, local, GroupNames, CoreInv, ClusterInv, ClusterType
<1>2. CASE groups[Own] = None
  <2>1. Moves(p, "CreateSub") /\ groups' = [groups EXCEPT ![Own] = NewGroup(p)]
    BY <1>2 DEF CreateGroup, Goto, Moves
  <2>2. Stages[p] = "grouping" /\ Stages' = [Stages EXCEPT ![p] = "subscribing"]
    BY <1>1, <2>1, StageMoves, StageOf DEF Stages, Calls
  <2>3. NewGroup(p) # None
    BY NewGroupIsGroup
  <2>4. ~HasGroup /\ HasGroup' = TRUE
    BY <1>1, <1>2, <2>1, <2>3 DEF HasGroup
  <2>5. UNCHANGED <<About, Subscribed, Serves, Approved, CarriedOut>>
    BY <1>1, SameAbout DEF Subscribed, Serves, Approved, CarriedOut
  <2>6. Planned!MakeGroup(p)
    BY <1>1, <2>2, <2>4, <2>5
       DEF Planned!MakeGroup, Planned!Goes, About, Stages, HasGroup, Serves, Approved, CarriedOut
  <2> QED
    BY <2>6 DEF Planned!Next
<1>3. CASE groups[Own] # None
  BY <1>1, <1>3, FailRefines DEF CreateGroup, Calls
<1> QED
  BY <1>2, <1>3

LEMMA CreateSubRefines ==
  ASSUME CoreInv, NEW p \in Procs, CreateSub(p)
  PROVE  Planned!Next
<1>1. /\ UNCHANGED <<job, plan, groups, plans>> /\ pc[p] = "CreateSub"
      /\ job[p].pkg \in Pkgs /\ RunsType
  BY JobType DEF CreateSub, local, CoreInv
<1>2. CASE KnownVersion(p) /\ subs[job[p].pkg] = None
  <2>1. Moves(p, "PollRef") /\ subs' = [subs EXCEPT ![job[p].pkg] = NewSub(p)]
    BY <1>2 DEF CreateSub, Goto, Moves
  <2>2. Stages[p] = "subscribing" /\ Stages' = [Stages EXCEPT ![p] = "subscribed"]
    BY <1>1, <2>1, StageMoves, StageOf DEF Stages, Calls
  <2>3. NewSub(p) # None
    BY NewSubType, NoSubIsNone
  <2>4. job[p].pkg \notin Subscribed /\ Subscribed' = Subscribed \cup {job[p].pkg}
    BY <1>1, <1>2, <2>1, <2>3 DEF Subscribed, CoreInv, ClusterInv, ClusterType
  <2>5. UNCHANGED <<About, HasGroup, Serves, Approved, CarriedOut>> /\ About[p] = job[p].pkg
    BY <1>1, SameAbout DEF About, HasGroup, Serves, Approved, CarriedOut
  <2>6. Planned!Subscribe(p)
    BY <1>1, <2>2, <2>4, <2>5
       DEF Planned!Subscribe, Planned!Goes, About, Stages, HasGroup, Serves, Approved, CarriedOut
  <2> QED
    BY <2>6 DEF Planned!Next
<1>3. CASE ~(KnownVersion(p) /\ subs[job[p].pkg] = None)
  <2>1. PICK reason : Fail(p, reason) /\ subs' = subs
    BY <1>3 DEF CreateSub
  <2> QED
    BY <1>1, <2>1, FailRefines DEF Calls
<1> QED
  BY <1>2, <1>3

\* A run begins to follow the plan that its subscription refers to, and that
\* plan serves its package: this needs the invariant.
LEMMA FollowRefines ==
  ASSUME CoreInv, NEW p \in Procs, pc[p] \in {"PollRef", "FindSub"}, Moves(p, "GetPlan"),
         NEW s, s = subs[job[p].pkg], s # None, s.ref # 0, plan' = [plan EXCEPT ![p] = s.ref],
         UNCHANGED <<job, groups, subs, plans>>
  PROVE  Planned!Next
<1>1. /\ RunsType /\ job[p].pkg \in Pkgs /\ plan[p] = 0 /\ DOMAIN plans = 1..Len(plans)
      /\ UNCHANGED <<About, HasGroup, Subscribed, Serves, Approved, CarriedOut>>
  BY JobType, SameAbout, SameShared, LenProperties
     DEF CoreInv, RunsInv, Run, Before, shared, ClusterInv, ClusterType
<1>2. /\ Stages[p] \in {"looking", "subscribed"}
      /\ Stages' = [Stages EXCEPT ![p] = "following"]
  BY <1>1, StageMoves, StageOf DEF Stages, Calls
<1>3. s.ref \in DOMAIN plans /\ <<job[p].pkg, s.current>> \in plans[s.ref].csvs
  BY <1>1, FoundPlan
<1>4. s.ref \in DOMAIN Serves /\ About[p] \in Serves[s.ref] /\ About[p] \in Subscribed
  BY <1>1, <1>3 DEF Serves, About, Subscribed
<1>5. Planned!Follow(p)
  BY <1>1, <1>2, <1>4
     DEF Planned!Follow, Planned!Goes, About, Stages, HasGroup, Serves, Approved, CarriedOut
<1> QED
  BY <1>5 DEF Planned!Next

LEMMA ApproveRefines ==
  ASSUME CoreInv, NEW p \in Procs, ApproveUpdate(p), Approve(p)
  PROVE  Planned!Next
<1>1. /\ pc[p] = "ApproveUpdate" /\ Moves(p, "WaitPlan")
      /\ UNCHANGED <<job, plan, groups, subs>> /\ RunsType
  BY DEF ApproveUpdate, Approve, Goto, Moves, CoreInv
<1>2. plan[p] \in 1..Len(plans) /\ plans[plan[p]] \in Plan
  BY <1>1, Approving, PlanAt DEF CoreInv, ClusterInv
<1>3. PICK o : o = [plans[plan[p]] EXCEPT !.approved = TRUE]
  OBVIOUS
<1>4. /\ plans' = [plans EXCEPT ![plan[p]] = o] /\ o \in Plan
      /\ o.csvs = plans[plan[p]].csvs /\ o.phase = plans[plan[p]].phase /\ o.approved
  BY <1>2, <1>3 DEF Approve, Plan
<1>5. /\ DOMAIN plans' = DOMAIN plans /\ DOMAIN plans = 1..Len(plans)
      /\ \A j \in DOMAIN plans : plans'[j] = IF j = plan[p] THEN o ELSE plans[j]
  BY <1>4, LenProperties DEF CoreInv, ClusterInv, ClusterType
<1>6. Serves' = Serves
  BY <1>4, <1>5 DEF Serves
<1>7. Approved' = Approved \cup {plan[p]} /\ CarriedOut' = CarriedOut
  BY <1>2, <1>4, <1>5 DEF Approved, CarriedOut
<1>8. Stages[p] = "approving" /\ Stages' = [Stages EXCEPT ![p] = "waiting"]
  BY <1>1, StageMoves, StageOf DEF Stages, Calls
<1>9. UNCHANGED <<About, HasGroup, Subscribed>>
  BY <1>1, SameAbout DEF HasGroup, Subscribed
<1>10. Planned!Approve(p)
  BY <1>1, <1>6, <1>7, <1>8, <1>9
     DEF Planned!Approve, Planned!Goes, About, Stages, HasGroup, Serves, Approved, CarriedOut
<1> QED
  BY <1>10 DEF Planned!Next

LEMMA WaitPlanRefines ==
  ASSUME CoreInv, NEW p \in Procs, WaitPlan(p)
  PROVE  Planned!Next
<1>1. pc[p] = "WaitPlan" /\ UNCHANGED <<job, plan, groups, subs, plans>> /\ RunsType
  BY DEF WaitPlan, cluster, CoreInv
<1>2. CASE Phase(p) = "Gone"
  BY <1>1, <1>2, FailRefines DEF WaitPlan, Calls
<1>3. CASE Finished(p) /\ Goto(p, "GetCSV")
  <2>1. plan[p] \in 1..Len(plans) /\ DOMAIN plans = 1..Len(plans)
    BY <1>1, FollowedPlan, LenProperties DEF CoreInv, RunsInv, Run, After, ClusterInv, ClusterType
  <2>2. plan[p] \in CarriedOut
    BY <1>3, <2>1 DEF Finished, Phase, CarriedOut
  <2>3. Stages[p] = "waiting" /\ Stages' = [Stages EXCEPT ![p] = "reporting"]
    <3>1. Moves(p, "GetCSV") /\ "GetCSV" \in Calls \cup Ended
      BY <1>3 DEF Goto, Moves, Calls
    <3>2. Stages' = [Stages EXCEPT ![p] = StageAt["GetCSV"]]
      BY <1>1, <3>1, StageMoves
    <3> QED
      BY <1>1, <3>2, StageOf DEF Stages
  <2>4. UNCHANGED <<About, plan, HasGroup, Subscribed, Serves, Approved, CarriedOut>>
    BY <1>1, SameAbout, SameShared DEF shared
  <2>5. Planned!SeeCarriedOut(p)
    BY <2>2, <2>3, <2>4
       DEF Planned!SeeCarriedOut, Planned!Goes, About, Stages, HasGroup, Serves, Approved, CarriedOut
  <2> QED
    BY <2>5 DEF Planned!Next
<1> QED
  BY <1>2, <1>3 DEF WaitPlan

\* Every step of a command is a step of the abstract specification or a stutter.
LEMMA CommandRefines ==
  ASSUME CoreInv, NEW p \in Procs, Command(p) \/ GiveUp(p)
  PROVE  [Planned!Next]_(Planned!vars)
<1>1. RunsType
  BY DEF CoreInv
<1>2. CASE UNCHANGED <<job, plan, groups, subs, plans>> /\ pc[p] \in Calls /\ \E reason : Fail(p, reason)
  BY <1>1, <1>2, FailRefines
<1>3. ASSUME NEW call \in Calls \cup Ended, Goto(p, call),
             UNCHANGED <<job, plan, groups, subs, plans>>,
             StageAt[call] = StageAt[pc[p]] \/ <<StageAt[pc[p]], StageAt[call]>> \in Reading
      PROVE  [Planned!Next]_(Planned!vars)
  <2>1. Moves(p, call) /\ Stages[p] = StageAt[pc[p]]
    BY <1>3 DEF Goto, Moves, Stages
  <2> QED
    BY <1>1, <1>3, <2>1, ReadRefines
<1>4. CASE GetPackage(p)
  <2>1. pc[p] = "GetPackage" /\ UNCHANGED <<job, plan, groups, subs, plans>>
    BY <1>4 DEF GetPackage, cluster
  <2>2. CASE Fail(p, "package")  BY <1>2, <2>1, <2>2 DEF Calls
  <2>3. CASE Goto(p, "ListGroups")  BY <1>3, <2>1, <2>3, StageOf DEF Calls
  <2> QED
    BY <1>4, <2>2, <2>3 DEF GetPackage
<1>5. CASE ListGroups(p)
  <2>1. pc[p] = "ListGroups" /\ UNCHANGED <<job, plan, groups, subs, plans>>
    BY <1>5 DEF ListGroups, cluster, local
  <2>2. CASE Fail(p, "notInstallable")  BY <1>2, <2>1, <2>2 DEF Calls
  <2>3. CASE Goto(p, "CreateGroup")  BY <1>3, <2>1, <2>3, StageOf DEF Calls, Reading
  <2>4. CASE Goto(p, "CreateSub")  BY <1>3, <2>1, <2>4, StageOf DEF Calls, Reading
  <2> QED
    BY <1>5, <2>2, <2>3, <2>4 DEF ListGroups
<1>6. CASE CreateGroup(p)  BY <1>6, CreateGroupRefines
<1>7. CASE CreateSub(p)  BY <1>7, CreateSubRefines
<1>8. CASE PollRef(p)
  <2>1. pc[p] = "PollRef" /\ UNCHANGED <<job, groups, subs, plans>>
    BY <1>8 DEF PollRef, cluster
  <2>2. CASE Fail(p, "gone") /\ UNCHANGED plan  BY <1>2, <2>1, <2>2 DEF Calls
  <2>3. CASE ~(Fail(p, "gone") /\ UNCHANGED plan)
    <3>1. PICK s : s = subs[job[p].pkg]
      OBVIOUS
    <3>2. s # None /\ s.ref # 0 /\ Moves(p, "GetPlan") /\ plan' = [plan EXCEPT ![p] = s.ref]
      BY <1>8, <2>3, <3>1 DEF PollRef, Goto, Moves
    <3> QED
      BY <2>1, <3>1, <3>2, FollowRefines
  <2> QED
    BY <2>2, <2>3
<1>9. CASE FindSub(p)
  <2>1. pc[p] = "FindSub" /\ UNCHANGED <<job, groups, subs, plans>>
    BY <1>9 DEF FindSub, cluster
  <2>2. CASE UNCHANGED plan /\ \E reason : Fail(p, reason)  BY <1>2, <2>1, <2>2 DEF Calls
  <2>3. CASE ~(UNCHANGED plan /\ \E reason : Fail(p, reason))
    <3>1. PICK s : s = subs[job[p].pkg]
      OBVIOUS
    <3>2. s # None /\ s.ref # 0 /\ Moves(p, "GetPlan") /\ plan' = [plan EXCEPT ![p] = s.ref]
      BY <1>9, <2>3, <3>1 DEF FindSub, Goto, Moves
    <3> QED
      BY <2>1, <3>1, <3>2, FollowRefines
  <2> QED
    BY <2>2, <2>3
<1>10. CASE GetPlan(p)
  <2>1. pc[p] = "GetPlan" /\ UNCHANGED <<job, plan, groups, subs, plans>>
    BY <1>10 DEF GetPlan, cluster, local
  <2>2. CASE Fail(p, "gone")  BY <1>2, <2>1, <2>2 DEF Calls
  <2>3. CASE Goto(p, "ApproveGet")  BY <1>3, <2>1, <2>3, StageOf DEF Calls, Reading
  <2>4. CASE Goto(p, "WaitPlan")  BY <1>3, <2>1, <2>4, StageOf DEF Calls, Reading
  <2> QED
    BY <1>10, <2>2, <2>3, <2>4 DEF GetPlan
<1>11. CASE ApproveGet(p)
  <2>1. pc[p] = "ApproveGet" /\ UNCHANGED <<job, plan, groups, subs, plans>>
    BY <1>11 DEF ApproveGet, cluster
  <2>2. CASE Fail(p, "gone")  BY <1>2, <2>1, <2>2 DEF Calls
  <2>3. CASE Goto(p, "ApproveUpdate")  BY <1>3, <2>1, <2>3, StageOf DEF Calls
  <2> QED
    BY <1>11, <2>2, <2>3 DEF ApproveGet
<1>12. CASE ApproveUpdate(p)
  <2>1. pc[p] = "ApproveUpdate" /\ UNCHANGED <<job, plan, groups, subs>>
    BY <1>12 DEF ApproveUpdate
  <2>2. CASE Fail(p, "gone") /\ UNCHANGED plans  BY <1>2, <2>1, <2>2 DEF Calls
  <2>3. CASE Approve(p)  BY <1>12, <2>3, ApproveRefines
  <2>4. CASE Conflict(p)
    <3>1. UNCHANGED plans
      BY <2>4 DEF Conflict
    <3>2. CASE Fail(p, "conflict")  BY <1>2, <2>1, <3>1, <3>2 DEF Calls
    <3>3. CASE Goto(p, "ApproveGet")  BY <1>3, <2>1, <3>1, <3>3, StageOf DEF Calls
    <3> QED
      BY <2>4, <3>2, <3>3 DEF Conflict
  <2> QED
    BY <1>12, <2>2, <2>3, <2>4 DEF ApproveUpdate
<1>13. CASE WaitPlan(p)  BY <1>13, WaitPlanRefines
<1>14. CASE GetCSV(p)
  <2>1. pc[p] = "GetCSV" /\ UNCHANGED <<job, plan, groups, subs, plans>>
    BY <1>14 DEF GetCSV, cluster, local
  <2>2. CASE Fail(p, "gone")  BY <1>2, <2>1, <2>2 DEF Calls
  <2>3. CASE Goto(p, "Done")  BY <1>3, <2>1, <2>3, StageOf DEF Ended, Reading
  <2> QED
    BY <1>14, <2>2, <2>3 DEF GetCSV
<1>15. CASE GiveUp(p)
  <2>1. pc[p] \in Calls /\ UNCHANGED <<job, plan, groups, subs, plans>> /\ Fail(p, "call")
    BY <1>15 DEF GiveUp, cluster, local
  <2> QED
    BY <1>2, <2>1
<1> QED
  BY <1>4, <1>5, <1>6, <1>7, <1>8, <1>9, <1>10, <1>11, <1>12, <1>13, <1>14, <1>15 DEF Command

-----------------------------------------------------------------------------
(***************************************************************************)
(* Steps of OLM and of other users.                                        *)
(***************************************************************************)

\* What they do to the plans: none that is there is approved, or changes what it
\* serves, and only those that are approved are carried out.
PlansObeyed ==
  /\ Len(plans) <= Len(plans') /\ Len(plans') \in Nat /\ DOMAIN plans' = 1..Len(plans')
  /\ \A i \in 1..Len(plans) : /\ plans'[i].csvs = plans[i].csvs
                              /\ plans'[i].approved = plans[i].approved
  /\ \A i \in 1..Len(plans') : plans'[i].phase = "Complete" =>
       i \in 1..Len(plans) /\ (plans[i].phase = "Complete" \/ plans[i].approved)

LEMMA OthersStep ==
  ASSUME ClusterType, UNCHANGED <<job, pc, plan>>, Subscribed' \subseteq Subscribed, PlansObeyed
  PROVE  Planned!Next
<1>1. Len(plans) \in Nat /\ DOMAIN plans = 1..Len(plans)
  BY LenProperties DEF ClusterType
<1>2. /\ DOMAIN Serves = 1..Len(plans) /\ DOMAIN Serves' = 1..Len(plans')
      /\ \A i \in 1..Len(plans) : Serves'[i] = Serves[i]
  BY <1>1 DEF Serves, PlansObeyed
<1>3. Len(Serves) = Len(plans) /\ Len(Serves') = Len(plans')
  BY <1>1, <1>2 DEF Serves, PlansObeyed
<1>4. /\ Approved' \cap DOMAIN Serves = Approved /\ Approved' \subseteq DOMAIN Serves'
  BY <1>1, <1>2 DEF Approved, PlansObeyed
<1>5. CarriedOut' \subseteq CarriedOut \cup Approved
  BY <1>1 DEF CarriedOut, Approved, PlansObeyed
<1>6. UNCHANGED <<Stages, About, plan>> /\ HasGroup' \in BOOLEAN
  BY SameAbout DEF Stages, HasGroup
<1>7. Planned!Others
  BY <1>2, <1>3, <1>4, <1>5, <1>6, <1>1
     DEF Planned!Others, About, Stages, HasGroup, Serves, Approved, CarriedOut, PlansObeyed
<1> QED
  BY <1>7 DEF Planned!Next

LEMMA SameObeyed ==
  ASSUME ClusterType, plans' = plans
  PROVE  PlansObeyed
BY LenProperties DEF ClusterType, PlansObeyed

\* A plan that is written in place.
LEMMA PutObeyed ==
  ASSUME ClusterType, NEW i \in 1..Len(plans), NEW o \in Plan, plans' = [plans EXCEPT ![i] = o],
         o.csvs = plans[i].csvs, o.approved = plans[i].approved,
         o.phase = "Complete" => plans[i].phase = "Complete" \/ plans[i].approved
  PROVE  PlansObeyed
<1>1. Len(plans) \in Nat /\ DOMAIN plans = 1..Len(plans)
  BY LenProperties DEF ClusterType
<1>2. /\ Len(plans') = Len(plans) /\ DOMAIN plans' = 1..Len(plans)
      /\ \A j \in 1..Len(plans) : plans'[j] = IF j = i THEN o ELSE plans[j]
  BY <1>1, ExceptSeq DEF ClusterType
<1> QED
  BY <1>1, <1>2 DEF PlansObeyed

LEMMA ReferSubscribes ==
  ASSUME NEW i, Refer(i)
  PROVE  Subscribed' \subseteq Subscribed
<1>1. \A k \in Pkgs : k \notin Pending => subs'[k] = subs[k]
  BY DEF Refer
<1> QED
  BY <1>1 DEF Subscribed, Pending

LEMMA MakePlanObeyed ==
  ASSUME ClusterInv, MakePlan
  PROVE  PlansObeyed
<1>1. plans \in Seq(Plan) /\ Len(plans) \in Nat
  BY LenIsNat DEF ClusterInv, ClusterType
<1>2. PICK c \in Wanted :
        plans' = Append(plans,
          [owners |-> Pending, csvs |-> Wanted, last |-> c, phase |-> "Waiting",
           approved |-> \A k \in Subscribed : subs[k].approval = "Automatic"])
  BY DEF MakePlan
<1>3. PICK a \in BOOLEAN : a = (\A k \in Subscribed : subs[k].approval = "Automatic")
  OBVIOUS
<1>4. PICK o : o = [owners |-> Pending, csvs |-> Wanted, last |-> c, phase |-> "Waiting",
                    approved |-> a]
  OBVIOUS
<1>5. Pending \in SUBSET Pkgs /\ Wanted \in SUBSET CSVs
  BY WantedType DEF MakePlan
<1>6. o \in Plan /\ o.phase = "Waiting"
  BY <1>4, <1>5, NewPlanType
<1>7. plans' = Append(plans, o)
  BY <1>2, <1>3, <1>4
<1>8. /\ Len(plans') = Len(plans) + 1 /\ DOMAIN plans' = 1..Len(plans')
      /\ plans'[Len(plans) + 1] = o /\ \A i \in 1..Len(plans) : plans'[i] = plans[i]
  BY <1>1, <1>6, <1>7
<1> QED
  BY <1>1, <1>6, <1>8 DEF PlansObeyed

LEMMA OlmRefines ==
  ASSUME CoreInv, Olm
  PROVE  Planned!Next
<1>1. ClusterInv /\ ClusterType /\ DOMAIN plans = 1..Len(plans)
  BY LenProperties DEF CoreInv, ClusterInv, ClusterType
<1>2. ASSUME UNCHANGED <<job, pc, plan, plans>>, Subscribed' \subseteq Subscribed
      PROVE  Planned!Next
  BY <1>1, <1>2, SameObeyed, OthersStep
<1>3. ASSUME NEW k \in Pkgs, Publish(k)
      PROVE  Planned!Next
  BY <1>2, <1>3 DEF Publish, commands, Subscribed
<1>4. ASSUME NEW k \in Pkgs, SyncInstalled(k)
      PROVE  Planned!Next
  <2>1. Subscribed' \subseteq Subscribed
    BY <1>4 DEF SyncInstalled, Subscribed
  <2> QED
    BY <1>2, <1>4, <2>1 DEF SyncInstalled, commands
<1>5. ASSUME NEW g \in GroupNames, SyncGroup(g)
      PROVE  Planned!Next
  BY <1>2, <1>5 DEF SyncGroup, commands, Subscribed
<1>6. CASE MakePlan
  <2>1. Subscribed' \subseteq Subscribed
    BY <1>6, ReferSubscribes DEF MakePlan
  <2> QED
    BY <1>1, <1>6, <2>1, MakePlanObeyed, OthersStep DEF MakePlan, commands
<1>7. ASSUME NEW i \in 1..Len(plans), ReusePlan(i)
      PROVE  Planned!Next
  <2>1. Subscribed' \subseteq Subscribed
    BY <1>7, ReferSubscribes DEF ReusePlan
  <2>2. PICK o : o = [plans[i] EXCEPT !.owners = plans[i].owners \cup Pending]
    OBVIOUS
  <2>3. Pending \subseteq Pkgs
    BY DEF Pending, Subscribed
  <2>4. /\ plans' = [plans EXCEPT ![i] = o] /\ o \in Plan /\ o.csvs = plans[i].csvs
        /\ o.approved = plans[i].approved /\ o.phase = plans[i].phase
    BY <1>1, <1>7, <2>2, <2>3, PlanAt DEF ReusePlan, Plan
  <2>5. PlansObeyed
    BY <1>1, <2>4, PutObeyed
  <2> QED
    BY <1>1, <1>7, <2>1, <2>5, OthersStep DEF ReusePlan, commands
<1>8. ASSUME NEW i \in 1..Len(plans), ExecutePlan(i)
      PROVE  Planned!Next
  <2>1. PICK x \in {"Complete", "Failed"} : plans' = [plans EXCEPT ![i].phase = x]
    BY <1>8 DEF ExecutePlan
  <2>2. PICK o : o = [plans[i] EXCEPT !.phase = x]
    OBVIOUS
  <2>3. /\ plans' = [plans EXCEPT ![i] = o] /\ o \in Plan /\ o.csvs = plans[i].csvs
        /\ o.approved = plans[i].approved
    BY <1>1, <2>1, <2>2, PlanAt DEF Plan
  <2>4. PlansObeyed
    BY <1>1, <1>8, <2>3, PutObeyed DEF ExecutePlan
  <2> QED
    BY <1>1, <1>8, <2>4, OthersStep DEF ExecutePlan, commands, Subscribed
<1>9. ASSUME NEW i \in 1..Len(plans), TouchPlan(i)
      PROVE  Planned!Next
  BY <1>2, <1>9 DEF TouchPlan, cluster, commands, Subscribed
<1>10. ASSUME NEW i \in 1..Len(plans), CollectPlan(i)
       PROVE  Planned!Next
  <2>1. PICK o : o = [plans[i] EXCEPT !.phase = "Gone"]
    OBVIOUS
  <2>2. /\ plans' = [plans EXCEPT ![i] = o] /\ o \in Plan /\ o.csvs = plans[i].csvs
        /\ o.approved = plans[i].approved /\ o.phase = "Gone"
    BY <1>1, <1>10, <2>1, PlanAt DEF CollectPlan, Plan
  <2>3. PlansObeyed
    BY <1>1, <2>2, PutObeyed
  <2> QED
    BY <1>1, <1>10, <2>3, OthersStep DEF CollectPlan, commands, Subscribed
<1>11. ASSUME NEW c, ReplaceCSV(c)
       PROVE  Planned!Next
  BY <1>2, <1>11 DEF ReplaceCSV, commands, Subscribed
<1> QED
  BY <1>1, <1>3, <1>4, <1>5, <1>6, <1>7, <1>8, <1>9, <1>10, <1>11 DEF Olm

LEMMA OutsidersRefine ==
  ASSUME CoreInv, Outsiders
  PROVE  Planned!Next
<1>1. ClusterType
  BY DEF CoreInv, ClusterInv
<1>2. ASSUME NEW g \in GroupNames, ChangeGroup(g)
      PROVE  Planned!Next
  BY <1>1, <1>2, SameObeyed, OthersStep DEF ChangeGroup, commands, Subscribed
<1>3. ASSUME NEW k \in Pkgs, Uninstall(k)
      PROVE  Planned!Next
  <2>1. Subscribed' \subseteq Subscribed
    BY <1>1, <1>3 DEF Uninstall, Subscribed, ClusterType
  <2>2. /\ DOMAIN plans = 1..Len(plans) /\ Len(plans) \in Nat
        /\ DOMAIN plans' = 1..Len(plans) /\ Len(plans') = Len(plans)
    BY <1>1, <1>3, LenProperties DEF Uninstall, ClusterType
  <2>3. ASSUME NEW i \in 1..Len(plans)
        PROVE  /\ plans'[i].csvs = plans[i].csvs /\ plans'[i].approved = plans[i].approved
               /\ plans'[i].phase = plans[i].phase
    <3>1. plans'[i] = [plans[i] EXCEPT !.owners = plans[i].owners \ {k}]
      BY <1>3, <2>2 DEF Uninstall
    <3> QED
      BY <1>1, <3>1, PlanAt DEF Plan
  <2>4. PlansObeyed
    BY <2>2, <2>3 DEF PlansObeyed
  <2> QED
    BY <1>1, <1>3, <2>1, <2>4, OthersStep DEF Uninstall, commands
<1> QED
  BY <1>2, <1>3 DEF Outsiders

-----------------------------------------------------------------------------
(***************************************************************************)
(* The refinement.                                                         *)
(***************************************************************************)

LEMMA InitRefines == ASSUME Init PROVE Planned!Init
<1>1. About \in [Procs -> Pkgs]
  BY JobsAreTyped DEF Init, About
<1>2. Stages = [p \in Procs |-> "looking"]
  BY StageOf DEF Init, FirstCall, Stages
<1>3. CarriedOut \subseteq Approved /\ Approved \subseteq DOMAIN Serves
  BY DEF Init, NoPackages, OldPackages, Approved, CarriedOut, Serves
<1>4. Subscribed \subseteq Pkgs /\ HasGroup \in BOOLEAN /\ plan = [p \in Procs |-> 0]
  BY DEF Init, Subscribed, HasGroup
<1> QED
  BY <1>1, <1>2, <1>3, <1>4
     DEF Planned!Init, About, Stages, HasGroup, Serves, Approved, CarriedOut

\* However many installs and upgrades share a namespace with OLM and with other
\* users: all that each of them does there is to make the group that is missing,
\* to make its own subscription and to approve one plan that serves its package,
\* each once at most, in this order, and none over what another has made. It
\* reports success only when that plan has been carried out.
THEOREM Refinement == Spec => InstallsAsPlanned
<1>1. Init => Planned!Init
  BY InitRefines
<1>2. IInv /\ [Next]_vars => [Planned!Next]_(Planned!vars)
  <2> SUFFICES ASSUME IInv, [Next]_vars
               PROVE  [Planned!Next]_(Planned!vars)
    OBVIOUS
  <2>1. CASE UNCHANGED vars
    BY <2>1 DEF vars, cluster, local, Planned!vars, Subscribed
  <2> QED
    BY <2>1, CommandRefines, OlmRefines, OutsidersRefine DEF Next, IInv
<1> QED
  BY <1>1, <1>2, AlwaysIInv, PTL DEF Spec, InstallsAsPlanned, Planned!Spec

=============================================================================
