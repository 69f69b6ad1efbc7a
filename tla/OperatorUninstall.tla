-------------------------- MODULE OperatorUninstall --------------------------
(***************************************************************************)
(* `kubectl operator uninstall <package>` against a live cluster.          *)
(*                                                                         *)
(* The command is one sequential process that reads the cluster, decides   *)
(* whether it may proceed, and then tears the operator down in a fixed     *)
(* order.  It holds no lock: between any two of its API calls OLM, the     *)
(* garbage collector, the operator's own finalizers and other users keep   *)
(* changing the objects it has read.  One action is one API call together  *)
(* with the local computation up to the next one.                          *)
(*                                                                         *)
(* An object is identified by its UID: outsiders never re-create an object *)
(* that the running command has already seen.                              *)
(***************************************************************************)
EXTENDS Naturals, FiniteSets

CONSTANTS
  Sub,        \* the Subscription of the package
  OtherSubs,  \* Subscriptions of other packages in the same namespace
  CSVs,       \* ClusterServiceVersions of the package
  Crd,        \* the CustomResourceDefinition that the package owns
  Operands,   \* custom resources of that kind
  InScope,    \* the operands in the operator group's target namespaces
  Finalized,  \* the operands in scope that carry a finalizer of the operator
  Extras,     \* other components of the operator, owned by its CSV
  Operator,   \* the Operator object "<package>.<namespace>"
  Groups,     \* OperatorGroups of the namespace
  Upgrades,   \* the CSVs that replace one of the others
  Owning,     \* the CSVs that own the CRD (the others own none)
  NoCSV,      \* no CSV: an empty name or a nil pointer
  Nil,        \* stands for the references of a nil Status.Components
  Flags,      \* the Boolean flags that the user chooses from
  MaxRuns     \* bound on how often the user runs the command

Subscriptions == {Sub} \cup OtherSubs
Components    == {Sub, Crd} \cup CSVs \cup Extras
Objects       == Subscriptions \cup CSVs \cup {Crd, Operator} \cup Operands
                   \cup Extras \cup Groups

(***************************************************************************)
(* Objects of different kinds are different.                               *)
(***************************************************************************)
ASSUME KindsDiffer ==
  /\ Sub \notin OtherSubs \cup CSVs \cup {Crd, Operator} \cup Operands
                  \cup Extras \cup Groups
  /\ Crd \notin OtherSubs \cup CSVs \cup {Operator} \cup Operands
                  \cup Extras \cup Groups
  /\ Operator \notin OtherSubs \cup CSVs \cup Operands \cup Extras \cup Groups
  /\ OtherSubs \cap (CSVs \cup Operands \cup Extras \cup Groups) = {}
  /\ CSVs \cap (Operands \cup Extras \cup Groups) = {}
  /\ Operands \cap (Extras \cup Groups) = {}
  /\ Extras \cap Groups = {}

ASSUME SubsetsOfKinds ==
  /\ InScope \subseteq Operands
  /\ Finalized \subseteq InScope
  /\ Upgrades \subseteq CSVs
  /\ Owning \subseteq CSVs

ASSUME NullsDiffer == NoCSV \notin Objects /\ Nil \notin Objects

NilComponents == {Nil}

ASSUME FlagsExist ==
  Flags \subseteq {"delete-all", "delete-operator", "delete-operator-groups"}

ASSUME MaxRunsIsNat == MaxRuns \in Nat

VARIABLES
  \* The cluster.
  live,        \* objects the API server holds
  terminating, \* those of them that have a deletion timestamp
  installed,   \* Sub's Status.InstalledCSV
  current,     \* Sub's Status.CurrentCSV
  succeeded,   \* CSVs whose phase is Succeeded
  refs,        \* Operator's Status.Components.Refs, or NilComponents
  \* The command.
  pc,          \* the API call it makes next
  why,         \* why it failed
  opts,        \* its flags, after Run has combined them
  csv,         \* the CSV it fetched for the subscription
  operands,    \* the operands it listed
  opRefs,      \* the references it read from the Operator
  phase,       \* which deleteObjects call is running
  todo,        \* objects of that call still to be deleted
  waiting,     \* objects of that call not yet seen to be gone
  rest,        \* operands (or groups) that later calls will delete
  \* History, read by no action of the command.
  runs,        \* how many runs were started
  elders,      \* objects that were live when this run started
  keepers,     \* what keeps the Operator or the groups: components that lived
               \* when it had gone, subscriptions in the second listing
  deleted      \* objects on which this run issued a delete

clusterVars == <<live, terminating, installed, current, succeeded, refs>>
found       == <<csv, operands, opRefs>>
batch       == <<phase, todo, waiting, rest>>
history     == <<runs, elders, keepers>>
vars        == <<clusterVars, pc, why, opts, found, batch, history, deleted>>

Strategies == {"abort", "ignore", "delete"}
Options    == [strategy : Strategies, operator : BOOLEAN, groups : BOOLEAN,
               names : SUBSET Groups]
Calls      == {"ListSubs", "GetCSV", "ReadOperator", "ReadGroups",
               "ListOperands", "Deleting", "GetOperator", "PollRefs",
               "RecheckSubs", "ListGroups"}
Ended      == {"Done", "Failed", "Panicked"}
Phases     == {"none", "sub", "operand", "csv", "refs", "operator", "group"}
Reasons    == {"none", "package", "notFound", "notListable", "abort", "call"}

Running == pc \in Calls

(***************************************************************************)
(* Pure helpers of the command.                                            *)
(***************************************************************************)

\* Run combines the flags before it does anything else: --delete-all sets both
\* deletions, and deleting the Operator forces the strategy "delete".
Normalise(flags, strategy, names) ==
  LET op == flags \cap {"delete-all", "delete-operator"} # {}
  IN  [strategy |-> IF op THEN "delete" ELSE strategy,
       operator |-> op,
       groups   |-> flags \cap {"delete-all", "delete-operator-groups"} # {},
       names    |-> names]

csvNameFromSubscription == IF installed # NoCSV THEN installed ELSE current

\* Mutated: the strategy is not looked at.
validStrategyMutant(listed) == TRUE

\* Whether the strategy lets the command go on with these operands.
validStrategy(listed) == listed = {} \/ opts.strategy # "abort"

\* Mutated: the listing is not cut down to the target namespaces.
inNamespacesMutant(crs) == crs

\* The custom resources that remain after the listing is cut down to the
\* target namespaces.
inNamespaces(crs) == crs \cap InScope

\* Mutated: only "abort" spares the operands.
OperandsToDeleteMutant == IF opts.strategy # "abort" THEN operands ELSE {}

OperandsToDelete == IF opts.strategy = "delete" THEN operands ELSE {}

\* No name on the command line selects every group.
SelectedGroups(listed) ==
  IF opts.names = {} THEN listed ELSE listed \cap opts.names

\* Mutated: looks for the package's own subscription only.
NoSubsLeftMutant(listed) == Sub \notin listed

NoSubsLeft(listed) == listed = {}

\* Mutated: an empty list of references does not count as none.
RefsEmptyMutant == refs = NilComponents

RefsEmpty == refs \in {NilComponents, {}}

AfterOperator == IF opts.groups THEN "RecheckSubs" ELSE "Done"
AfterCSV      == IF opts.operator THEN "GetOperator" ELSE AfterOperator

Fail(reason) == pc' = "Failed" /\ why' = reason
Goto(call)   == pc' = call /\ UNCHANGED why

\* Mutated: returns without waiting for the objects to go.
deleteObjectsMutant(ph, objs, others) ==
  /\ Goto("Deleting")
  /\ phase' = ph /\ todo' = objs /\ waiting' = {} /\ rest' = others

\* Enter deleteObjects(objs): delete each object, then wait for each.
deleteObjects(ph, objs, others) ==
  /\ Goto("Deleting")
  /\ phase' = ph /\ todo' = objs /\ waiting' = objs /\ rest' = others

(***************************************************************************)
(* Checks made before anything is deleted.                                 *)
(***************************************************************************)

\* The user runs the command, or runs it again, with flags of their choice.
\* Flag parsing has already refused an unknown strategy.
Start ==
  /\ ~Running /\ runs < MaxRuns
  /\ \E flags \in SUBSET Flags, strategy \in Strategies, names \in SUBSET Groups :
       opts' = Normalise(flags, strategy, names)
  /\ pc' = "ListSubs" /\ why' = "none"
  /\ csv' = NoCSV /\ operands' = {} /\ opRefs' = {}
  /\ phase' = "none" /\ todo' = {} /\ waiting' = {} /\ rest' = {}
  /\ runs' = runs + 1 /\ elders' = live /\ keepers' = {} /\ deleted' = {}
  /\ UNCHANGED clusterVars

\* Mutated: a missing subscription is treated like one without a CSV.
ListSubsMutant ==
  /\ pc = "ListSubs"
  /\ csv' = IF Sub \in live THEN csvNameFromSubscription ELSE NoCSV
  /\ Goto(IF csv' = NoCSV THEN "ReadOperator" ELSE "GetCSV")
  /\ UNCHANGED <<clusterVars, opts, operands, opRefs, batch, history, deleted>>

\* The name of the CSV is read from this listing and used from here on.
ListSubs ==
  /\ pc = "ListSubs"
  /\ IF Sub \in live
       THEN /\ csv' = csvNameFromSubscription
            /\ Goto(IF csv' = NoCSV THEN "ReadOperator" ELSE "GetCSV")
       ELSE Fail("package") /\ UNCHANGED csv
  /\ UNCHANGED <<clusterVars, opts, operands, opRefs, batch, history, deleted>>

\* A CSV that is not found is not an error.
GetCSV ==
  /\ pc = "GetCSV"
  /\ csv' = IF csv \in live THEN csv ELSE NoCSV
  /\ Goto("ReadOperator")
  /\ UNCHANGED <<clusterVars, opts, operands, opRefs, batch, history, deleted>>

\* The operand lister reads the Operator and then the first CSV that it
\* references.  The references lag behind the cluster, so one step for the
\* two reads loses no outcome.
ReadOperator ==
  /\ pc = "ReadOperator"
  /\ \/ Operator \notin live /\ Fail("notFound")
     \/ Operator \in live /\ refs = NilComponents /\ Fail("notFound")
     \/ Operator \in live /\ refs # NilComponents /\ refs \cap CSVs = {} /\ Fail("notFound")
     \/ /\ Operator \in live /\ refs # NilComponents
        /\ \E c \in refs \cap CSVs :
             \/ c \notin live /\ Fail("notFound")
             \/ c \in live /\ c \notin Owning \cap succeeded /\ Fail("notListable")
             \/ c \in live \cap Owning \cap succeeded /\ Goto("ReadGroups")
  /\ UNCHANGED <<clusterVars, opts, found, batch, history, deleted>>

\* The lister wants exactly one operator group in the namespace.
ReadGroups ==
  /\ pc = "ReadGroups"
  /\ IF \E g \in Groups : Groups \cap live = {g}
       THEN Goto("ListOperands")
       ELSE Fail("notListable")
  /\ UNCHANGED <<clusterVars, opts, found, batch, history, deleted>>

\* Get the CRD, list its custom resources, keep those in scope, and check the
\* strategy against them.  The first deletion follows.
ListOperands ==
  /\ pc = "ListOperands"
  /\ IF Crd \notin live
       THEN Fail("notListable") /\ UNCHANGED <<operands, batch>>
       ELSE /\ operands' = inNamespaces(live \cap Operands)
            /\ IF validStrategy(operands')
                 THEN deleteObjects("sub", {Sub}, {})
                 ELSE Fail("abort") /\ UNCHANGED batch
  /\ UNCHANGED <<clusterVars, opts, csv, opRefs, history, deleted>>

(***************************************************************************)
(* deleteObjects and waitForDeletion, shared by every deletion.            *)
(***************************************************************************)

\* One Delete call.  The server marks the object; a missing one is tolerated.
DeleteObject(o) ==
  /\ pc = "Deleting" /\ o \in todo
  /\ todo' = todo \ {o}
  /\ terminating' = terminating \cup ({o} \cap live)
  /\ deleted' = deleted \cup ({o} \cap live)
  /\ UNCHANGED <<live, installed, current, succeeded, refs, pc, why, opts,
                 found, phase, waiting, rest, history>>

\* An answer that the Operator is not there, while these components are.
NoteOperatorGone == keepers' = keepers \cup (Components \cap live)

\* Mutated: a deletion timestamp is taken for a deletion.
SeeGoneMutant(o) ==
  /\ pc = "Deleting" /\ todo = {} /\ o \in waiting
  /\ o \notin live \ terminating
  /\ waiting' = waiting \ {o}
  /\ IF o = Operator THEN NoteOperatorGone ELSE UNCHANGED keepers
  /\ UNCHANGED <<clusterVars, pc, why, opts, found, phase, todo, rest,
                 runs, elders, deleted>>

\* Polls start after the last Delete; a poll that finds nothing moves on to
\* the next object and never looks at this one again.
SeeGone(o) ==
  /\ pc = "Deleting" /\ todo = {} /\ o \in waiting
  /\ o \notin live
  /\ waiting' = waiting \ {o}
  /\ IF o = Operator THEN NoteOperatorGone ELSE UNCHANGED keepers
  /\ UNCHANGED <<clusterVars, pc, why, opts, found, phase, todo, rest,
                 runs, elders, deleted>>

BatchDone(ph) == pc = "Deleting" /\ phase = ph /\ todo = {} /\ waiting = {}

(***************************************************************************)
(* What follows each deleteObjects call.                                   *)
(***************************************************************************)

\* Mutated: the CSV goes right after the subscription.
AfterSubscriptionMutant ==
  /\ BatchDone("sub")
  /\ IF csv = NoCSV
       THEN Goto(AfterCSV) /\ UNCHANGED batch
       ELSE deleteObjects("csv", {csv}, {})
  /\ UNCHANGED <<clusterVars, opts, found, history, deleted>>

\* Without a CSV, the operands are skipped too.
AfterSubscription ==
  /\ BatchDone("sub")
  /\ IF csv = NoCSV
       THEN Goto(AfterCSV) /\ UNCHANGED batch
       ELSE deleteObjects("operand", {}, OperandsToDelete)
  /\ UNCHANGED <<clusterVars, opts, found, history, deleted>>

\* Mutated: goes on to the CSV with operands left over.
AfterOperandMutant ==
  /\ BatchDone("operand")
  /\ \/ \E o \in rest : deleteObjects("operand", {o}, rest \ {o})
     \/ deleteObjects("csv", {csv}, {})
  /\ UNCHANGED <<clusterVars, opts, found, history, deleted>>

\* Operands go one at a time: the next is deleted when the last is gone.
AfterOperand ==
  /\ BatchDone("operand")
  /\ \/ \E o \in rest : deleteObjects("operand", {o}, rest \ {o})
     \/ rest = {} /\ deleteObjects("csv", {csv}, {})
  /\ UNCHANGED <<clusterVars, opts, found, history, deleted>>

AfterCSVDeletion ==
  /\ BatchDone("csv")
  /\ Goto(AfterCSV)
  /\ UNCHANGED <<clusterVars, opts, found, batch, history, deleted>>

\* Mutated: the Operator is deleted without its references.
GetOperatorMutant ==
  /\ pc = "GetOperator"
  /\ IF Operator \in live /\ refs # NilComponents
       THEN opRefs' = refs /\ deleteObjects("operator", {Operator}, {}) /\ UNCHANGED keepers
       ELSE Goto(AfterOperator) /\ NoteOperatorGone /\ UNCHANGED <<opRefs, batch>>
  /\ UNCHANGED <<clusterVars, opts, csv, operands, runs, elders, deleted>>

\* deleteOperator reads the references; ranging over those of a nil
\* Components is a nil dereference.
GetOperator ==
  /\ pc = "GetOperator"
  /\ \/ /\ Operator \notin live
        /\ Goto(AfterOperator) /\ NoteOperatorGone /\ UNCHANGED <<opRefs, batch>>
     \/ /\ Operator \in live /\ refs = NilComponents
        /\ pc' = "Panicked" /\ UNCHANGED <<why, opRefs, batch, keepers>>
     \/ /\ Operator \in live /\ refs # NilComponents
        /\ opRefs' = refs
        /\ deleteObjects("refs", refs, {}) /\ UNCHANGED keepers
  /\ UNCHANGED <<clusterVars, opts, csv, operands, runs, elders, deleted>>

AfterRefs ==
  /\ BatchDone("refs")
  /\ Goto("PollRefs")
  /\ UNCHANGED <<clusterVars, opts, found, batch, history, deleted>>

\* Mutated: does not wait for the references to go.
PollRefsMutant ==
  /\ pc = "PollRefs"
  /\ deleteObjects("operator", {Operator}, {})
  /\ UNCHANGED <<clusterVars, opts, found, history, deleted>>

\* Poll until OLM has emptied the Operator's references.
PollRefs ==
  /\ pc = "PollRefs"
  /\ Operator \notin live \/ RefsEmpty
  /\ deleteObjects("operator", {Operator}, {})
  /\ UNCHANGED <<clusterVars, opts, found, history, deleted>>

AfterOperatorDeletion ==
  /\ BatchDone("operator")
  /\ Goto(AfterOperator)
  /\ UNCHANGED <<clusterVars, opts, found, batch, history, deleted>>

\* Operator groups go only if a second listing shows no subscription at all.
RecheckSubs ==
  /\ pc = "RecheckSubs"
  /\ Goto(IF NoSubsLeft(live \cap Subscriptions) THEN "ListGroups" ELSE "Done")
  /\ keepers' = keepers \cup (live \cap Subscriptions)
  /\ UNCHANGED <<clusterVars, opts, found, batch, runs, elders, deleted>>

ListGroups ==
  /\ pc = "ListGroups"
  /\ deleteObjects("group", {}, SelectedGroups(live \cap Groups))
  /\ UNCHANGED <<clusterVars, opts, found, history, deleted>>

AfterGroup ==
  /\ BatchDone("group")
  /\ \/ \E g \in rest : deleteObjects("group", {g}, rest \ {g})
     \/ rest = {} /\ Goto("Done") /\ UNCHANGED batch
  /\ UNCHANGED <<clusterVars, opts, found, history, deleted>>

\* Any call or poll can end the command: an API error other than NotFound, the
\* deadline that --timeout puts on the context, or a killed process.  Nothing
\* is rolled back.
GiveUp ==
  /\ Running
  /\ Fail("call")
  /\ UNCHANGED <<clusterVars, opts, found, batch, history, deleted>>

Command ==
  \/ ListSubs \/ GetCSV \/ ReadOperator \/ ReadGroups \/ ListOperands
  \/ \E o \in Objects : DeleteObject(o) \/ SeeGone(o)
  \/ AfterSubscription \/ AfterOperand \/ AfterCSVDeletion
  \/ GetOperator \/ AfterRefs \/ PollRefs \/ AfterOperatorDeletion
  \/ RecheckSubs \/ ListGroups \/ AfterGroup

(***************************************************************************)
(* The rest of the cluster: OLM, the garbage collector, other users.       *)
(***************************************************************************)

commandVars == <<pc, why, opts, found, batch, history, deleted>>

\* An object that the running command may already have seen is not created.
Fresh(o) == o \notin live \cup elders \cup operands \cup waiting \cup rest \cup deleted

\* The operator handles the finalizers of its operands while a CSV keeps its
\* deployment; a CRD goes after its last custom resource.  The status of an
\* object goes with it.
OperatorRuns == CSVs \cap live # {}

Finalize(o) ==
  /\ o \in terminating
  /\ o \in Finalized => OperatorRuns
  /\ o = Crd => Operands \cap live = {}
  /\ live' = live \ {o} /\ terminating' = terminating \ {o}
  /\ succeeded' = succeeded \ {o}
  /\ installed' = IF o = Sub THEN NoCSV ELSE installed
  /\ current' = IF o = Sub THEN NoCSV ELSE current
  /\ refs' = IF o = Operator THEN NilComponents ELSE refs
  /\ UNCHANGED commandVars

\* Deleting a CRD deletes every custom resource of its kind.
CascadeCrd ==
  /\ Crd \in terminating
  /\ ~(Operands \cap live \subseteq terminating)
  /\ terminating' = terminating \cup (Operands \cap live)
  /\ UNCHANGED <<live, installed, current, succeeded, refs, commandVars>>

\* What the CSV owns is collected once no CSV is left.
GarbageCollect(x) ==
  /\ x \in Extras \cap live /\ ~OperatorRuns
  /\ live' = live \ {x} /\ terminating' = terminating \ {x}
  /\ UNCHANGED <<installed, current, succeeded, refs, commandVars>>

\* OLM brings the Operator's references up to date, later than the cluster.
SyncOperator ==
  /\ Operator \in live /\ refs # Components \cap live
  /\ refs' = Components \cap live
  /\ UNCHANGED <<live, terminating, installed, current, succeeded, commandVars>>

\* OLM re-creates the Operator, without a status, while components exist.
RecreateOperator ==
  /\ Operator \notin live /\ Components \cap live # {}
  /\ live' = live \cup {Operator} /\ refs' = NilComponents
  /\ UNCHANGED <<terminating, installed, current, succeeded, commandVars>>

\* OLM installs a CSV for the subscription: a first one, or an upgrade, which
\* puts the CSV that it replaces into another phase.
CreateCSV(c) ==
  /\ Sub \in live /\ Fresh(c)
  /\ OperatorRuns => c \in Upgrades
  /\ c = csv => pc = "GetCSV"
  /\ live' = live \cup {c, Crd} /\ current' = c /\ succeeded' = {}
  /\ UNCHANGED <<terminating, installed, refs, commandVars>>

\* The new CSV's deployment is up; the CSV it replaces is deleted.
SucceedCSV(c) ==
  /\ c \in live \ (terminating \cup succeeded)
  /\ CSVs \cap live \cap Upgrades \subseteq {c}
  /\ succeeded' = {c}
  /\ terminating' = terminating \cup ((CSVs \ {c}) \cap live)
  /\ installed' = IF Sub \in live THEN c ELSE installed
  /\ UNCHANGED <<live, current, refs, commandVars>>

OutsideCreate(o) ==
  /\ Fresh(o)
  /\ o \in Operands => Crd \in live \ terminating
  /\ live' = live \cup {o}
  /\ UNCHANGED <<terminating, installed, current, succeeded, refs, commandVars>>

OutsideDelete(o) ==
  /\ o \in live \ terminating
  /\ terminating' = terminating \cup {o}
  /\ UNCHANGED <<live, installed, current, succeeded, refs, commandVars>>

Cluster ==
  \/ \E o \in Objects : Finalize(o)
  \/ CascadeCrd
  \/ \E x \in Extras : GarbageCollect(x)
  \/ SyncOperator \/ RecreateOperator
  \/ \E c \in CSVs : CreateCSV(c) \/ SucceedCSV(c)

Outsiders ==
  \/ \E o \in Operands \cup OtherSubs \cup Groups : OutsideCreate(o)
  \/ \E o \in Operands \cup OtherSubs \cup {Operator} : OutsideDelete(o)

(***************************************************************************)
(* The specification.                                                      *)
(***************************************************************************)

\* Any state in which a user may find the namespace before the first run.
InitCluster ==
  /\ live \in SUBSET Objects
  /\ terminating = {}
  /\ succeeded \in {{}} \cup {{c} : c \in CSVs \cap live}
  /\ refs \in {NilComponents} \cup SUBSET (Components \cap live)
  /\ Operator \notin live => refs = NilComponents
  /\ Crd \notin live => Operands \cap live = {}
  /\ installed \in CSVs \cup {NoCSV}
  /\ current \in CSVs \cup {NoCSV}
  /\ installed # NoCSV => current # NoCSV
  /\ Sub \notin live => current = NoCSV

Init ==
  /\ InitCluster
  /\ pc = "Idle" /\ why = "none"
  /\ opts = [strategy |-> "abort", operator |-> FALSE, groups |-> FALSE,
             names |-> {}]
  /\ csv = NoCSV /\ operands = {} /\ opRefs = {}
  /\ phase = "none" /\ todo = {} /\ waiting = {} /\ rest = {}
  /\ runs = 0 /\ elders = {} /\ keepers = {} /\ deleted = {}

Next == Start \/ Command \/ GiveUp \/ Cluster \/ Outsiders

Spec == Init /\ [][Next]_vars

\* The command's own steps are not delayed for ever, nor are those of the
\* controllers.  Users, upgrades, errors and the deadline owe nothing.
Fairness ==
  /\ WF_vars(Command)
  /\ \A o \in Objects : WF_vars(Finalize(o))
  /\ \A x \in Extras : WF_vars(GarbageCollect(x))
  /\ WF_vars(CascadeCrd) /\ WF_vars(SyncOperator)

FairSpec == Spec /\ Fairness

(***************************************************************************)
(* Properties.                                                             *)
(***************************************************************************)

\* The operands that were already there when the run started.
ElderOperands == elders \cap InScope \cap live

\* The types of the cluster's and the command's state.
TypeOK ==
  /\ live \subseteq Objects /\ terminating \subseteq live
  /\ installed \in CSVs \cup {NoCSV} /\ current \in CSVs \cup {NoCSV}
  /\ succeeded \subseteq CSVs
  /\ refs \in (SUBSET Components) \cup {NilComponents}
  /\ pc \in {"Idle"} \cup Calls \cup Ended
  /\ why \in Reasons /\ opts \in Options
  /\ csv \in CSVs \cup {NoCSV}
  /\ operands \subseteq InScope
  /\ opRefs \subseteq Components
  /\ phase \in Phases
  /\ todo \subseteq Objects /\ waiting \subseteq Objects
  /\ rest \subseteq InScope \cup Groups
  /\ runs \in 0..MaxRuns /\ elders \subseteq Objects
  /\ keepers \subseteq Objects /\ deleted \subseteq Objects

\* "abort" means that nothing is deleted while there are operands: as long as
\* one that existed when the run started still does, the run has deleted
\* nothing, whatever others do meanwhile (validStrategy comes first).
AbortSparesEverything ==
  opts.strategy = "abort" /\ ElderOperands # {} => deleted = {}

\* Unless operands are ignored, a run that works from the subscription's CSV
\* deletes a CSV only when every operand it could know of has been finalized,
\* so the operator is there to finalize them (deletion order, steps 2 and 3).
OperatorOutlivesOperands ==
  deleted \cap CSVs # {} /\ csv # NoCSV /\ opts.strategy # "ignore"
    => ElderOperands = {}

\* The subscription goes first, and is gone before anything else is deleted,
\* so that OLM installs no further CSV while the command cleans up (step 1).
SubscriptionFirst ==
  deleted \ {Sub} # {} => Sub \notin live

\* Custom resources are deleted by the command only with the strategy "delete"
\* and only in the target namespaces; the CRD, whose deletion takes all of
\* them along, only with --delete-operator.
OnlyChosenOperands ==
  /\ deleted \cap Operands \subseteq InScope
  /\ opts.strategy # "delete" => deleted \cap Operands = {}
  /\ ~opts.operator => Crd \notin deleted

\* The Operator object is deleted only when all that it referenced is gone:
\* otherwise OLM would create it again (deleteOperator).
OperatorObjectLast ==
  Operator \in deleted => opRefs \cap live = {}

\* A subscription of another package that was there all along keeps the
\* namespace's operator groups, and with names given the groups without one
\* of these names are kept (deleteOperatorGroup).
UsedGroupsSurvive ==
  deleted \cap Groups # {} =>
    /\ elders \cap OtherSubs \cap live = {}
    /\ opts.names # {} => deleted \cap Groups \subseteq opts.names

\* When the command moves on from the references to the Operator, whose
\* references it had read, none of the components is left, not even one that
\* OLM has added since: what the poll reads lags behind the cluster, and is
\* enough all the same.  Only an Operator that is new since then, and has no
\* status yet, passes the poll too early.
OperatorAfterComponents ==
  [][phase = "refs" /\ phase' = "operator" /\ Operator \in live /\ opRefs # {}
       => refs = NilComponents \/ Components \cap live = {}]_vars

\* What success means for all that the flags choose.  The subscription, the
\* CSV of the first listing, the operands to be deleted and the components
\* that the Operator was seen to reference are gone.  So is the Operator,
\* unless another component was left when it went, for which OLM creates it
\* again; and so are the chosen groups that were there when the run started,
\* unless the second listing showed another package's subscription.  A CSV
\* that an upgrade has put in place of the listed one is not among these.
DoneMeansGone ==
  pc = "Done" =>
    /\ Sub \notin live /\ csv \notin live
    /\ csv # NoCSV => OperandsToDelete \cap live = {}
    /\ opRefs \cap (live \cup keepers) = {}
    /\ opts.operator /\ keepers \cap Components = {} => Operator \notin live
    /\ opts.groups /\ keepers \cap OtherSubs = {}
         => \A g \in elders \cap Groups \cap live : opts.names # {} /\ g \notin opts.names

\* The subscription is how a run finds everything else: a run that starts
\* without it deletes nothing, so the remains of a run that failed half way
\* cannot be removed by running the command again.
NoSubscriptionNoTeardown ==
  pc # "Idle" /\ Sub \notin elders => deleted = {}

\* A wait without end has one of two causes: an operand whose finalizer has no
\* operator left to handle it, or components that came after the references
\* were read.  Otherwise the command ends by itself, without its deadline.
Stuck ==
  \/ phase = "refs" /\ ~OperatorRuns /\ Finalized \cap terminating # {}
  \/ pc = "PollRefs" /\ Components \cap live # {}
  \/ phase = "operator" /\ Components \cap live # {}

EndsUnlessStuck == <>[]Running => <>[]Stuck

(***************************************************************************)
(* The abstract specification that the command implements.                 *)
(***************************************************************************)

\* The order of the stages: deletion order, steps 1 to 5, step 4 being two
\* deleteObjects calls.
StageRank == [ph \in Phases |->
  CASE ph = "none" -> 0 [] ph = "sub" -> 1 [] ph = "operand" -> 2
    [] ph = "csv" -> 3 [] ph = "refs" -> 4 [] ph = "operator" -> 5
    [] ph = "group" -> 6]

Teardown == INSTANCE OrderedTeardown
              WITH Stages <- Phases, First <- "none", Rank <- StageRank,
                   stage <- phase, left <- waiting \cup rest

\* The command is a teardown in stages: every deletion is one of the current
\* stage, and a later stage begins when all of this one has been seen gone,
\* no matter which of them the flags and the missing objects skip.
InStages == Teardown!Spec

(***************************************************************************)
(* What the documentation and the tests say, and the code does not do.     *)
(***************************************************************************)

\* "The subscription and operatorgroup will be removed even if the operator is
\* not found": an Operator or CSV that is missing does not fail the command.
NotFoundIsNoError == why # "notFound"

\* "The delete strategy deletes the subscription, operands, and after they
\* have finished finalizing, the operator itself": as above, with no
\* restriction on where the command found the CSV.
OperandsFinalizeFirst ==
  deleted \cap CSVs # {} /\ opts.strategy = "delete" => ElderOperands = {}

\* deleteOperator reads the references of an Operator whose Components may be
\* nil, as its own poll a few lines further on allows for.
NoNilDereference == pc # "Panicked"
=============================================================================
