-------------------------- MODULE OperatorInstall --------------------------
(***************************************************************************)
(* `kubectl operator install` and `kubectl operator upgrade` in one        *)
(* namespace of a live cluster.                                            *)
(*                                                                         *)
(* Each process is one run of one of the commands.  One action is one API  *)
(* call with the local computation up to the next one.  The processes meet *)
(* in the namespace's OperatorGroups, in the Subscriptions and in the      *)
(* InstallPlans that OLM makes of them: OLM plans for the namespace as a   *)
(* whole, so that one InstallPlan may serve several Subscriptions.         *)
(*                                                                         *)
(* Version n of package k is the ClusterServiceVersion <<k, n>>; version 0 *)
(* stands for none.  InstallPlans are numbered, and 0 is no InstallPlan.   *)
(***************************************************************************)
EXTENDS InstallModes, FiniteSets

CONSTANTS
  Procs,        \* runs of the commands
  Pkgs,         \* packages; a Subscription has the name of its package
  MaxVersion,   \* bound on the versions that the catalog publishes
  Modes,        \* Modes[k][n]: install modes that version n of k supports
  Updated,      \* packages that get new versions
  Present,      \* packages that may be installed at first
  Listed,       \* packages whose channel lists its entries
  Jobs,         \* what the user may ask a run to do
  OtherGroups,  \* OperatorGroups that other users create and delete
  Removable,    \* packages that other users uninstall
  Faulty,       \* runs that errors or the deadline may end at any call
  Attempts,     \* how often an update is tried (retry.DefaultBackoff)
  MaxPlans,     \* bound on the InstallPlans that OLM makes
  None          \* an object that does not exist

Versions    == 1..MaxVersion
PlanNumbers == 1..MaxPlans
GroupNames  == {Own} \cup OtherGroups
Approvals   == {"Automatic", "Manual"}

ASSUME BoundsAreNats ==
  MaxVersion \in Nat /\ MaxPlans \in Nat /\ Attempts \in Nat \ {0}

ASSUME CatalogIsTyped ==
  /\ Modes \in [Pkgs -> [Versions -> SUBSET ModeTypes]]
  /\ Listed \subseteq Pkgs /\ Updated \subseteq Pkgs
  /\ Present \subseteq Pkgs /\ Removable \subseteq Pkgs
  /\ Faulty \subseteq Procs

\* The API server lists the groups of a namespace in one answer.
ASSUME GroupsAreFinite == IsFiniteSet(OtherGroups)

\* An upgrade looks at nothing but the package.
ASSUME JobsAreTyped ==
  \A j \in Jobs :
    /\ j.kind \in {"install", "upgrade"}
    /\ j.pkg \in Pkgs
    /\ j.approval \in Approvals
    /\ j.version \in Nat        \* 0 if the user gives none
    /\ j.create \in BOOLEAN     \* --create-operator-group
    /\ j.watch \in Seq(STRING)

VARIABLES
  \* The cluster.
  head,     \* head[k]: latest version of k in the catalog, 0 if k is unknown
  groups,   \* groups[g]: targets and status of a group, or None
  subs,     \* subs[k]: a Subscription, or None
  plans,    \* the InstallPlans made so far
  csvs,     \* the ClusterServiceVersions that exist
  \* The commands.
  job,      \* what the user asked for
  pc,       \* the API call that comes next
  why,      \* why the run failed
  entries,  \* the channel head that the run has read
  plan,     \* the InstallPlan that it follows
  fresh,    \* it has read the current resource version of that plan
  tries,    \* updates of the plan that were refused
  result,   \* the ClusterServiceVersion that it will report
  \* History, read by no action of a command.
  holds,    \* what the run has established and no outsider has undone
  beaten,   \* how often a plan was written between reading and updating it
  base,     \* version installed when an upgrade looked
  ever,     \* the ClusterServiceVersions that have ever existed
  quiet     \* no outsider has changed the operator groups

cluster == <<head, groups, subs, plans, csvs>>
local   == <<job, entries, plan, fresh, tries, result>>
history == <<holds, beaten, base, ever, quiet>>
vars    == <<cluster, pc, why, local, history>>

Calls   == {"GetPackage", "ListGroups", "CreateGroup", "CreateSub", "PollRef",
            "FindSub", "GetPlan", "ApproveGet", "ApproveUpdate", "WaitPlan", "GetCSV"}
Ended   == {"Done", "Failed"}
Reasons == {"none", "package", "notInstallable", "exists", "version", "gone",
            "noPlan", "latest", "conflict", "call"}

CSVs      == Pkgs \X Versions
Group     == [targets : Seq(STRING), status : Seq(STRING)]
Sub       == [approval : Approvals, starting : Nat, installed : 0..MaxVersion,
              current : 0..MaxVersion, ref : 0..MaxPlans]
Plan      == [owners : SUBSET Pkgs, csvs : SUBSET CSVs, last : CSVs,
              approved : BOOLEAN, phase : {"Waiting", "Complete", "Failed", "Gone"}]
Facts     == {"group", "sub", "approval"}

\* "Not found" is told from any object.
ASSUME NoneIsNoObject == None \notin Group /\ None \notin Sub

LiveGroups == {g \in GroupNames : groups[g] # None}
Subscribed == {k \in Pkgs : subs[k] # None}

Goto(p, call)   == pc' = [pc EXCEPT ![p] = call] /\ UNCHANGED why
Fail(p, reason) == pc' = [pc EXCEPT ![p] = "Failed"] /\ why' = [why EXCEPT ![p] = reason]
Holds(p, fact)  == holds' = [holds EXCEPT ![p] = @ \cup {fact}]

\* A write to plan i gives it a new resource version: what the others have
\* read of it is out of date.
Written(i, others) ==
  LET outrun == {q \in others : fresh[q] /\ plan[q] = i}
  IN  /\ fresh' = [q \in Procs |-> fresh[q] /\ plan[q] # i]
      /\ beaten' = [q \in Procs |-> IF q \in outrun THEN beaten[q] + 1 ELSE beaten[q]]

(***************************************************************************)
(* install: the package and the operator group.                            *)
(***************************************************************************)

Desired(p)   == possibleInstallModes(job[p].watch)
Supported(p) == Modes[job[p].pkg][entries[p]] \cap Desired(p)

\* The package manifest, its channel and the head of that channel.
GetPackage(p) ==
  LET latest == head[job[p].pkg]
  IN  /\ pc[p] = "GetPackage"
      /\ entries' = [entries EXCEPT ![p] = latest]
      /\ IF latest = 0 THEN Fail(p, "package") ELSE Goto(p, "ListGroups")
      /\ UNCHANGED <<cluster, job, plan, fresh, tries, result, history>>

\* ensureOperatorGroup: the install modes are those of the channel head, even
\* if the user asks for another version, and the namespaces of a group are
\* those of its status.
Installable(p) ==
  /\ Cardinality(LiveGroups) <= 1
  /\ Supported(p) # {}
  /\ \A g \in LiveGroups :
       validateOperatorGroup(groups[g].status, Modes[job[p].pkg][entries[p]], Desired(p))
  /\ LiveGroups = {} => job[p].create

ListGroups(p) ==
  /\ pc[p] = "ListGroups"
  /\ \/ Installable(p) /\ Goto(p, IF LiveGroups = {} THEN "CreateGroup" ELSE "CreateSub")
     \/ ~Installable(p) /\ Fail(p, "notInstallable")
  /\ IF \A g \in LiveGroups : groups[g].status # <<>>
       THEN Holds(p, "group") ELSE UNCHANGED holds
  /\ UNCHANGED <<cluster, local, beaten, base, ever, quiet>>

NewGroup(p) == [targets |-> getTargetNamespaces(Supported(p), job[p].watch), status |-> <<>>]

\* Mutated: lets the server choose a name that is free.
CreateGroupMutant(p) ==
  /\ pc[p] = "CreateGroup"
  /\ \E g \in GroupNames \ LiveGroups :
       groups' = [groups EXCEPT ![g] = NewGroup(p)] /\ Goto(p, "CreateSub")
  /\ UNCHANGED <<head, subs, plans, csvs, local, history>>

\* The group has the name of the namespace.
CreateGroup(p) ==
  /\ pc[p] = "CreateGroup"
  /\ IF groups[Own] = None
       THEN groups' = [groups EXCEPT ![Own] = NewGroup(p)] /\ Goto(p, "CreateSub")
       ELSE UNCHANGED groups /\ Fail(p, "exists")
  /\ UNCHANGED <<head, subs, plans, csvs, local, history>>

(***************************************************************************)
(* install: the subscription and its first install plan.                   *)
(***************************************************************************)

\* getStartingCSV: a version is looked up among the channel's entries, and its
\* CSV is guessed from the channel head's if the channel lists none.
KnownVersion(p) ==
  job[p].pkg \in Listed => job[p].version \in 0..entries[p]

NewSub(p) == [approval |-> job[p].approval, starting |-> job[p].version,
              installed |-> 0, current |-> 0, ref |-> 0]

\* Mutated: takes a subscription that is there for its own.
CreateSubMutant(p) ==
  LET k == job[p].pkg IN
  /\ pc[p] = "CreateSub"
  /\ \/ /\ ~KnownVersion(p) /\ Fail(p, "version")
        /\ UNCHANGED <<subs, holds>>
     \/ /\ KnownVersion(p) /\ Goto(p, "PollRef")
        /\ subs' = [subs EXCEPT ![k] = IF @ = None THEN NewSub(p) ELSE @]
        /\ Holds(p, "sub")
  /\ UNCHANGED <<head, groups, plans, csvs, local, beaten, base, ever, quiet>>

CreateSub(p) ==
  LET k == job[p].pkg IN
  /\ pc[p] = "CreateSub"
  /\ \/ /\ ~KnownVersion(p) /\ Fail(p, "version")
        /\ UNCHANGED <<subs, holds>>
     \/ /\ KnownVersion(p) /\ subs[k] # None /\ Fail(p, "exists")
        /\ UNCHANGED <<subs, holds>>
     \/ /\ KnownVersion(p) /\ subs[k] = None /\ Goto(p, "PollRef")
        /\ subs' = [subs EXCEPT ![k] = NewSub(p)] /\ Holds(p, "sub")
  /\ UNCHANGED <<head, groups, plans, csvs, local, beaten, base, ever, quiet>>

\* getInstallPlan polls until the subscription refers to a plan.
PollRef(p) ==
  LET s == subs[job[p].pkg] IN
  /\ pc[p] = "PollRef"
  /\ \/ s = None /\ Fail(p, "gone") /\ UNCHANGED plan
     \/ /\ s # None /\ s.ref # 0 /\ Goto(p, "GetPlan")
        /\ plan' = [plan EXCEPT ![p] = s.ref]
  /\ UNCHANGED <<cluster, job, entries, fresh, tries, result, history>>

(***************************************************************************)
(* upgrade: the plan of a subscription that exists.                        *)
(***************************************************************************)

\* Mutated: does not compare the installed with the current CSV.
UpToDateMutant(s) == FALSE

UpToDate(s) == s.installed = s.current

\* findSubscriptionForPackage, and the checks of getInstallPlan.
FindSub(p) ==
  LET s == subs[job[p].pkg] IN
  /\ pc[p] = "FindSub"
  /\ \/ s = None /\ Fail(p, "gone") /\ UNCHANGED <<plan, base>>
     \/ s # None /\ s.ref = 0 /\ Fail(p, "noPlan") /\ UNCHANGED <<plan, base>>
     \/ s # None /\ s.ref # 0 /\ UpToDate(s) /\ Fail(p, "latest") /\ UNCHANGED <<plan, base>>
     \/ /\ s # None /\ s.ref # 0 /\ ~UpToDate(s) /\ Goto(p, "GetPlan")
        /\ plan' = [plan EXCEPT ![p] = s.ref]
        /\ base' = [base EXCEPT ![p] = s.installed]
  /\ UNCHANGED <<cluster, job, entries, fresh, tries, result, holds, beaten, ever, quiet>>

(***************************************************************************)
(* Both: approve the plan, wait for it, get the CSV.                       *)
(***************************************************************************)

Phase(p)  == plans[plan[p]].phase
Manual(p) == job[p].kind = "upgrade" \/ job[p].approval = "Manual"

GetPlan(p) ==
  /\ pc[p] = "GetPlan"
  /\ IF Phase(p) = "Gone" THEN Fail(p, "gone")
     ELSE Goto(p, IF Manual(p) THEN "ApproveGet" ELSE "WaitPlan")
  /\ UNCHANGED <<cluster, local, history>>

\* approveInstallPlan reads the plan again before each attempt.
ApproveGet(p) ==
  /\ pc[p] = "ApproveGet"
  /\ IF Phase(p) = "Gone"
       THEN Fail(p, "gone") /\ UNCHANGED fresh
       ELSE Goto(p, "ApproveUpdate") /\ fresh' = [fresh EXCEPT ![p] = TRUE]
  /\ UNCHANGED <<cluster, job, entries, plan, tries, result, history>>

\* Mutated: approves only the run's own copy of the plan.
ApproveMutant(p) ==
  /\ Phase(p) # "Gone" /\ fresh[p]
  /\ fresh' = [fresh EXCEPT ![p] = FALSE]
  /\ Goto(p, "WaitPlan") /\ Holds(p, "approval")
  /\ UNCHANGED <<plans, beaten, tries>>

\* The server refuses an update of a plan that was written since it was read.
\* An update that changes nothing does not count as a write.
Approve(p) ==
  LET i == plan[p] IN
  /\ Phase(p) # "Gone" /\ fresh[p]
  /\ plans' = [plans EXCEPT ![i].approved = TRUE]
  /\ IF plans[i].approved
       THEN fresh' = [fresh EXCEPT ![p] = FALSE] /\ UNCHANGED beaten
       ELSE Written(i, Procs \ {p})
  /\ Goto(p, "WaitPlan") /\ Holds(p, "approval")
  /\ UNCHANGED tries

\* Mutated: tries once too often.
ConflictOffByOneMutant(p) ==
  /\ Phase(p) # "Gone" /\ ~fresh[p]
  /\ tries' = [tries EXCEPT ![p] = @ + 1]
  /\ IF tries'[p] > Attempts THEN Fail(p, "conflict") ELSE Goto(p, "ApproveGet")
  /\ UNCHANGED <<plans, fresh, holds, beaten>>

\* Mutated: tries the same object again.
ConflictMutant(p) ==
  /\ Phase(p) # "Gone" /\ ~fresh[p]
  /\ tries' = [tries EXCEPT ![p] = @ + 1]
  /\ IF tries'[p] = Attempts THEN Fail(p, "conflict") ELSE Goto(p, "ApproveUpdate")
  /\ UNCHANGED <<plans, fresh, holds, beaten>>

Conflict(p) ==
  /\ Phase(p) # "Gone" /\ ~fresh[p]
  /\ tries' = [tries EXCEPT ![p] = @ + 1]
  /\ IF tries'[p] = Attempts THEN Fail(p, "conflict") ELSE Goto(p, "ApproveGet")
  /\ UNCHANGED <<plans, fresh, holds, beaten>>

ApproveUpdate(p) ==
  /\ pc[p] = "ApproveUpdate"
  /\ \/ Phase(p) = "Gone" /\ Fail(p, "gone") /\ UNCHANGED <<plans, fresh, tries, holds, beaten>>
     \/ Approve(p)
     \/ Conflict(p)
  /\ UNCHANGED <<head, groups, subs, csvs, job, entries, plan, result, base, ever, quiet>>

\* Mutated: takes any phase for the end.
FinishedMutant(p) == TRUE

Finished(p) == Phase(p) = "Complete"

\* getCSV polls until the plan is complete, and keeps the last CSV in its steps.
WaitPlan(p) ==
  /\ pc[p] = "WaitPlan"
  /\ \/ Phase(p) = "Gone" /\ Fail(p, "gone") /\ UNCHANGED result
     \/ /\ Phase(p) # "Gone" /\ Finished(p) /\ Goto(p, "GetCSV")
        /\ result' = [result EXCEPT ![p] = plans[plan[p]].last]
  /\ UNCHANGED <<cluster, job, entries, plan, fresh, tries, history>>

GetCSV(p) ==
  /\ pc[p] = "GetCSV"
  /\ IF result[p] \in csvs THEN Goto(p, "Done") ELSE Fail(p, "gone")
  /\ UNCHANGED <<cluster, local, history>>

\* A call fails, or the deadline of the command passes.  Nothing is cleaned up.
GiveUp(p) ==
  /\ p \in Faulty /\ pc[p] \in Calls
  /\ Fail(p, "call")
  /\ UNCHANGED <<cluster, local, history>>

Command(p) ==
  \/ GetPackage(p) \/ ListGroups(p) \/ CreateGroup(p) \/ CreateSub(p) \/ PollRef(p)
  \/ FindSub(p) \/ GetPlan(p) \/ ApproveGet(p) \/ ApproveUpdate(p)
  \/ WaitPlan(p) \/ GetCSV(p)

(***************************************************************************)
(* The catalog and OLM, modelled from what the commands rely on.           *)
(***************************************************************************)

commands == <<job, pc, why, entries, plan, tries, result>>

Publish(k) ==
  /\ k \in Updated /\ head[k] < MaxVersion
  /\ head' = [head EXCEPT ![k] = @ + 1]
  /\ UNCHANGED <<groups, subs, plans, csvs, commands, fresh, history>>

SyncGroup(g) ==
  /\ g \in LiveGroups /\ groups[g].status = <<>>
  /\ groups' = [groups EXCEPT ![g].status = StatusOf(groups[g].targets)]
  /\ UNCHANGED <<head, subs, plans, csvs, commands, fresh, history>>

\* What a subscription wants: first its starting version, then the latest.
Want(k) == IF subs[k].installed = 0 /\ subs[k].starting # 0
             THEN subs[k].starting ELSE head[k]

\* One subscription that cannot be satisfied blocks the whole namespace.
Resolvable ==
  /\ Cardinality(LiveGroups) = 1
  /\ \A k \in Subscribed : Want(k) \in 1..head[k]

Pending == {k \in Subscribed : <<k, Want(k)>> \notin csvs}
Wanted  == {<<k, Want(k)>> : k \in Pending}

\* Every subscription that the plan serves refers to it.
Refer(i) ==
  subs' = [k \in Pkgs |-> IF k \in Pending
             THEN [subs[k] EXCEPT !.ref = i, !.current = Want(k)] ELSE subs[k]]

\* One plan serves all pending subscriptions.  It needs an approval if any
\* subscription of the namespace does.
MakePlan ==
  /\ Resolvable /\ Pending # {} /\ Len(plans) < MaxPlans
  /\ ~ \E i \in DOMAIN plans :
         plans[i].csvs = Wanted /\ plans[i].phase \in {"Waiting", "Failed"}
  /\ \E c \in Wanted :
       plans' = Append(plans,
         [owners |-> Pending, csvs |-> Wanted, last |-> c, phase |-> "Waiting",
          approved |-> \A k \in Subscribed : subs[k].approval = "Automatic"])
  /\ Refer(Len(plans) + 1)
  /\ UNCHANGED <<head, groups, csvs, commands, fresh, history>>

\* A plan with the same steps is used again, by a subscription made anew.
ReusePlan(i) ==
  /\ Resolvable /\ Pending # {}
  /\ plans[i].csvs = Wanted /\ plans[i].phase \in {"Waiting", "Failed"}
  /\ \E k \in Pending : subs[k].ref # i
  /\ plans' = [plans EXCEPT ![i].owners = @ \cup Pending]
  /\ Refer(i) /\ Written(i, Procs)
  /\ UNCHANGED <<head, groups, csvs, commands, holds, base, ever, quiet>>

\* OLM carries out an approved plan, or fails with part of it done.
ExecutePlan(i) ==
  /\ plans[i].approved /\ plans[i].phase = "Waiting"
  /\ \/ /\ plans' = [plans EXCEPT ![i].phase = "Complete"]
        /\ csvs' = csvs \cup plans[i].csvs
     \/ /\ plans' = [plans EXCEPT ![i].phase = "Failed"]
        /\ \E part \in SUBSET plans[i].csvs : csvs' = csvs \cup part
  /\ ever' = ever \cup csvs'
  /\ Written(i, Procs)
  /\ UNCHANGED <<head, groups, subs, commands, holds, base, quiet>>

\* OLM writes labels, conditions or steps of a plan.
TouchPlan(i) ==
  /\ plans[i].phase # "Gone"
  /\ \E p \in Procs : fresh[p] /\ plan[p] = i
  /\ Written(i, Procs)
  /\ UNCHANGED <<cluster, commands, holds, base, ever, quiet>>

SyncInstalled(k) ==
  /\ k \in Subscribed /\ <<k, subs[k].current>> \in csvs
  /\ subs[k].installed # subs[k].current
  /\ subs' = [subs EXCEPT ![k].installed = subs[k].current]
  /\ UNCHANGED <<head, groups, plans, csvs, commands, fresh, history>>

\* An upgrade removes the CSV that it replaces.
ReplaceCSV(c) ==
  /\ c \in csvs /\ \E n \in Versions : n > c[2] /\ <<c[1], n>> \in csvs
  /\ csvs' = csvs \ {c}
  /\ UNCHANGED <<head, groups, subs, plans, commands, fresh, history>>

\* The garbage collector removes a plan that no subscription owns.
CollectPlan(i) ==
  /\ plans[i].owners = {} /\ plans[i].phase # "Gone"
  /\ plans' = [plans EXCEPT ![i].phase = "Gone"]
  /\ UNCHANGED <<head, groups, subs, csvs, commands, fresh, history>>

Olm ==
  \/ \E k \in Pkgs : Publish(k) \/ SyncInstalled(k)
  \/ \E g \in GroupNames : SyncGroup(g)
  \/ MakePlan
  \/ \E i \in DOMAIN plans :
       ReusePlan(i) \/ ExecutePlan(i) \/ TouchPlan(i) \/ CollectPlan(i)
  \/ \E c \in csvs : ReplaceCSV(c)

(***************************************************************************)
(* Other users.                                                            *)
(***************************************************************************)

\* They create an operator group, for all namespaces or for their own, or
\* delete one.
ChangeGroup(g) ==
  /\ g \in OtherGroups
  /\ \/ /\ groups[g] = None
        /\ \E t \in {<<>>, <<Own>>} :
             groups' = [groups EXCEPT ![g] = [targets |-> t, status |-> <<>>]]
     \/ /\ groups[g] # None
        /\ groups' = [groups EXCEPT ![g] = None]
  /\ quiet' = FALSE
  /\ UNCHANGED <<head, subs, plans, csvs, commands, fresh, holds, beaten, base, ever>>

\* They uninstall a package: its subscription and its CSVs go, and the garbage
\* collector finds its plans without it as an owner.
Uninstall(k) ==
  /\ k \in Removable /\ k \in Subscribed
  /\ subs' = [subs EXCEPT ![k] = None]
  /\ csvs' = {c \in csvs : c[1] # k}
  /\ plans' = [i \in DOMAIN plans |-> [plans[i] EXCEPT !.owners = @ \ {k}]]
  /\ holds' = [p \in Procs |-> IF job[p].pkg = k THEN holds[p] \ {"sub"} ELSE holds[p]]
  /\ UNCHANGED <<head, groups, commands, fresh, beaten, base, ever, quiet>>

Outsiders ==
  \/ \E g \in GroupNames : ChangeGroup(g)
  \/ \E k \in Pkgs : Uninstall(k)

(***************************************************************************)
(* The specification.  The namespace starts with any operator groups, and  *)
(* it may have some packages installed at their first version.             *)
(***************************************************************************)

OldGroups == {[targets |-> t, status |-> StatusOf(t)] : t \in {<<>>, <<Own>>}}

NoPackages == subs = [k \in Pkgs |-> None] /\ plans = <<>> /\ csvs = {}

OldPackages ==
  /\ Present # {} /\ MaxPlans > 0 /\ \A k \in Present : head[k] > 0
  /\ Cardinality(LiveGroups) = 1
  /\ csvs = {<<k, 1>> : k \in Present}
  /\ \E a \in Approvals :
       subs = [k \in Pkgs |-> IF k \in Present
                 THEN [approval |-> a, starting |-> 0, installed |-> 1, current |-> 1, ref |-> 1]
                 ELSE None]
  /\ \E c \in csvs :
       plans = <<[owners |-> Present, csvs |-> csvs, last |-> c,
                  approved |-> TRUE, phase |-> "Complete"]>>

FirstCall(j) == IF j.kind = "install" THEN "GetPackage" ELSE "FindSub"

Init ==
  /\ head \in [Pkgs -> 0..MaxVersion]
  /\ groups \in [GroupNames -> OldGroups \cup {None}]
  /\ NoPackages \/ OldPackages
  /\ ever = csvs /\ quiet = TRUE
  /\ job \in [Procs -> Jobs]
  /\ pc = [p \in Procs |-> FirstCall(job[p])]
  /\ why = [p \in Procs |-> "none"]
  /\ entries = [p \in Procs |-> 0] /\ plan = [p \in Procs |-> 0]
  /\ fresh = [p \in Procs |-> FALSE] /\ tries = [p \in Procs |-> 0]
  /\ result = [p \in Procs |-> None]
  /\ holds = [p \in Procs |-> {}] /\ beaten = [p \in Procs |-> 0]
  /\ base = [p \in Procs |-> 0]

Next ==
  \/ \E p \in Procs : Command(p) \/ GiveUp(p)
  \/ Olm
  \/ Outsiders

Spec == Init /\ [][Next]_vars

(***************************************************************************)
(* The commands poll without end, and OLM's controllers retry.  Nobody has *)
(* to publish versions, to touch plans, or to give up.                     *)
(***************************************************************************)
Fairness ==
  /\ \A p \in Procs : WF_vars(Command(p))
  /\ WF_vars(MakePlan)
  /\ \A i \in PlanNumbers :
       /\ WF_vars(i \in DOMAIN plans /\ ExecutePlan(i))
       /\ WF_vars(i \in DOMAIN plans /\ ReusePlan(i))
  /\ \A k \in Pkgs : WF_vars(SyncInstalled(k))

(***************************************************************************)
(* Properties.                                                             *)
(***************************************************************************)

TypeOK ==
  /\ head \in [Pkgs -> 0..MaxVersion]
  /\ groups \in [GroupNames -> Group \cup {None}]
  /\ subs \in [Pkgs -> Sub \cup {None}]
  /\ plans \in Seq(Plan) /\ Len(plans) <= MaxPlans
  /\ csvs \subseteq ever /\ ever \subseteq CSVs
  /\ job \in [Procs -> Jobs]
  /\ pc \in [Procs -> Calls \cup Ended]
  /\ why \in [Procs -> Reasons]
  /\ entries \in [Procs -> 0..MaxVersion]
  /\ plan \in [Procs -> 0..Len(plans)]
  /\ fresh \in [Procs -> BOOLEAN]
  /\ tries \in [Procs -> 0..Attempts]
  /\ result \in [Procs -> CSVs \cup {None}]
  /\ holds \in [Procs -> SUBSET Facts]
  /\ beaten \in [Procs -> 0..Attempts]
  /\ base \in [Procs -> 0..MaxVersion]
  /\ quiet \in BOOLEAN

\* While nobody else touches the namespace's groups, an install that has come
\* past ensureOperatorGroup goes on in a namespace with one operator group,
\* one that suits both the operator and what it is to watch: also if another
\* install made that group, or was about to make one.  (An install that found
\* a group whose status OLM has not filled in is not held to this: to the code
\* such a group looks like one for all namespaces or for its own.)
PastGroup(p) ==
  job[p].kind = "install" /\ pc[p] \in {"CreateSub", "PollRef", "GetPlan", "ApproveGet",
                                        "ApproveUpdate", "WaitPlan", "GetCSV", "Done"}

Suits(g, p) == validateOperatorGroup(StatusOf(groups[g].targets),
                                     Modes[job[p].pkg][entries[p]], Desired(p))

GroupSuits ==
  \A p \in Procs : quiet /\ PastGroup(p) /\ "group" \in holds[p] =>
    \E g \in GroupNames : LiveGroups = {g} /\ Suits(g, p)

\* An approval fails with a conflict only if other writers got in between the
\* reading and the update in every single attempt (RetryOnConflict).
ConflictMeansContention ==
  \A p \in Procs : why[p] = "conflict" => beaten[p] = Attempts

\* A command approves only plans that bring its own package forward from the
\* version that it found, however old its reading of the subscription is and
\* whatever else the plan installs.
ApprovalMovesForward ==
  \A p \in Procs : "approval" \in holds[p] =>
    \E n \in Versions : n > base[p] /\ <<job[p].pkg, n>> \in plans[plan[p]].csvs

\* Success means that the package was installed, or brought forward.  If the
\* user asked for a version and nobody has uninstalled the package since, that
\* version was installed, though OLM may have upgraded it meanwhile.
DoneMeansInstalled ==
  \A p \in Procs : pc[p] = "Done" =>
    /\ \E n \in Versions : n > base[p] /\ <<job[p].pkg, n>> \in ever
    /\ job[p].kind = "install" /\ job[p].version # 0 /\ "sub" \in holds[p] =>
         <<job[p].pkg, job[p].version>> \in ever

\* How far a run has got at a call, as PlannedInstall sees it.
StageAt ==
  [GetPackage |-> "looking", ListGroups |-> "looking", FindSub |-> "looking",
   CreateGroup |-> "grouping", CreateSub |-> "subscribing", PollRef |-> "subscribed",
   GetPlan |-> "following", ApproveGet |-> "approving", ApproveUpdate |-> "approving",
   WaitPlan |-> "waiting", GetCSV |-> "reporting", Done |-> "done", Failed |-> "failed"]

Planned == INSTANCE PlannedInstall
  WITH Runs <- Procs, Packages <- Pkgs,
       about <- [p \in Procs |-> job[p].pkg],
       stage <- [p \in Procs |-> StageAt[pc[p]]],
       follows <- plan,
       group <- (groups[Own] # None),
       subscribed <- Subscribed,
       serves <- [i \in DOMAIN plans |-> {c[1] : c \in plans[i].csvs}],
       approved <- {i \in DOMAIN plans : plans[i].approved},
       carriedOut <- {i \in DOMAIN plans : plans[i].phase = "Complete"}

\* The commands do nothing to the namespace but to make a group, to make their
\* subscription and to approve the plan that they follow, each once at most, in
\* this order, and each what was not there: whoever races for the same objects.
\* A run keeps to a plan of its own package, retries and all, reports success only
\* when that plan has been carried out, and undoes nothing when it fails.
InstallsAsPlanned == Planned!Spec

\* Without its deadline a command waits for ever in three cases: a subscription
\* of the namespace wants a version that does not exist; its plan has failed,
\* which getCSV does not look for; or it relies on automatic approval where
\* another subscription makes OLM ask for a manual one.
Stuck(p) ==
  \/ pc[p] = "PollRef" /\ \E k \in Subscribed : Want(k) \notin 1..head[k]
  \/ pc[p] = "WaitPlan" /\ Phase(p) = "Failed"
  \/ pc[p] = "WaitPlan" /\ ~plans[plan[p]].approved /\ ~Manual(p)

\* In a namespace that other users leave alone, every command ends by itself
\* except in these cases.
EveryRunEndsUnlessStuck ==
  \A p \in Procs : <>[](pc[p] \in Ended \/ Stuck(p))

(***************************************************************************)
(* What the code says, and does not do.                                    *)
(***************************************************************************)

\* "operator %q installed; installed csv is %q": the CSV that a successful run
\* reports is one of the package that it was about.
ReportsOwnPackage ==
  \A p \in Procs : pc[p] = "Done" => result[p][1] = job[p].pkg
=============================================================================
