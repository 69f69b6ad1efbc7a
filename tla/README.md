# kubectl-operator: a verification project

`kubectl operator` manages operators in a Kubernetes cluster. It is a client:
each command is a short-lived sequential process that reads objects, decides,
writes objects and polls until the cluster has caught up. What makes it hard is
that it holds no lock and keeps no state. Between any two of its API calls the
Operator Lifecycle Manager (OLM), the garbage collector, the operators it
manages, and other users go on changing the objects that it has read.

The modules here model commands as processes in such a cluster, one action per
API call, and state what a command promises whatever the cluster does between
its calls.

## Inventory

| component | state it reads and writes | operations | what is hard |
| --- | --- | --- | --- |
| operator uninstall (`internal/pkg/action/operator_uninstall.go`) | Subscription, CSV, operands, Operator, its references, OperatorGroups | check, then delete and wait, in five stages | order against finalizers and OLM; stale readings; waits without end; a failure half way |
| operand listing (`pkg/action/operator_list_operands.go`) | Operator, CSV, OperatorGroup, CRDs, custom resources | four reads, a namespace filter, a sort | a missing or unfinished object is an error; no namespaces means all of them |
| operator install (`operator_install.go`, `operator/package.go`, `subscription/`) | PackageManifest, OperatorGroup, Subscription, InstallPlan, CSV | check install modes, create group and subscription, approve the plan, wait | two installs at once; the group's status lags; nothing is cleaned up |
| operator upgrade (`operator_upgrade.go`) | Subscription, InstallPlan, CSV | approve the pending plan, wait | the plan named by a stale subscription |
| catalog add, remove (`catalog_add.go`, `catalog_remove.go`) | CatalogSource | create, wait, clean up on failure; delete | the deadline between creation and readiness |
| v1 catalogs (`internal/pkg/v1/action/catalog_*.go`) | ClusterCatalog and its conditions | create, update, delete, each with a wait | which condition is waited for; clean-up of a healthy catalog; lost updates |
| v1 extensions (`internal/pkg/v1/action/extension_*.go`) | ClusterExtension and its conditions | install, update, delete, each with a wait | stale conditions; a clean-up that only waits |
| v1 search and port forward (`catalog_search.go`, `client/port_forward.go`) | ClusterCatalogs, a pod's port | forward a port, fetch, filter | readiness, failure and cancellation in any order; one snapshot, many reads |
| v1 get and printing (`*_installed_get.go`, `printing.go`) | ClusterCatalogs, ClusterExtensions | one read, a sort, the rows | ties, missing conditions, packages without entries |
| v0 listings (`operator_list*.go`, `catalog_list.go`) | one read each | | formatting only |
| command line (`internal/cmd`, `pkg/action/config.go`) | flags, a deadline (`root.go`) | | a deadline in the middle of a command |

How they interact: commands never call one another, except that uninstall runs
the operand listing. They meet in the cluster. Install and uninstall of two
packages in one namespace share the namespace's OperatorGroups, upgrade and
install share the approval of InstallPlans, and everything shares objects with
OLM. Every command runs under one context whose deadline `--timeout` sets.

What each component must promise:

- *Uninstall.* With `abort`, nothing is deleted while there are operands. The
  operator outlives the operands it has to finalize. OLM installs nothing
  further while the command cleans up. Only what was chosen is deleted; groups
  in use survive. Success means that what the run has listed and chosen is gone:
  subscription, CSV, operands, the references of the Operator and, if nothing was
  left to keep them, the Operator and the groups. It does not mean that no other
  CSV of the package runs.
- *Install, upgrade.* At most one OperatorGroup, one that suits the operator;
  the plan approved is the one that was asked for; no other writer's approval
  is lost; what fails leaves nothing behind, or says so.
- *Catalogs, extensions.* A wait that succeeds reports the effect of this
  command and not an old status; clean-up removes what this command created and
  nothing else; an update loses no concurrent writer's fields.
- *Listing, search.* Exactly the objects in scope, in a defined order; one
  failing part does not hide the others silently.

## Plan

1. `OperatorUninstall`, with its instances and proofs: done.
2. `OrderedTeardown`, the abstract order of an uninstall, and the proof that
   `OperatorUninstall` implements it (`OperatorUninstallRefines`): done.
3. `InstallModes`, the choice of install modes and target namespaces, and
   `OperatorInstall`, several runs of install and upgrade in a namespace that
   OLM plans for as a whole: modelled, checked and, but for liveness, proved
   (`OperatorInstallProofs`); `PlannedInstall`, what runs that share a namespace
   promise, and the proof that `OperatorInstall` implements it
   (`OperatorInstallRefines`): done.
4. The commands for OLM v1, and `catalog add` and `remove`, which have the same
   shape: `FieldUpdates`, `ClusterObjects`, `ClusterCatalogs`,
   `ClusterExtensions`, `Listings`, `CatalogSearch`, composed in
   `ClusterCommands`, and `OwnedObject`, the abstract create-wait-undo that the
   three creating commands implement: modelled, checked and proved
   (`ClusterCommandsProofs`, `ClusterRunsProofs`, `ListingProofs`,
   `ClusterReadsProofs`), but for liveness.
5. `OperandListing`, the filter and the sort of the operands, with target
   namespaces that a group's status lists later.
6. A namespace in which install and uninstall run at the same time, composed from
   the modules of steps 1 and 3: the operator group that one deletes and the
   other has just validated.

## OperatorUninstall

The module is the process that `OperatorUninstall.Run` is, in a cluster. Its
variables are in three groups.

- *Cluster*: `live` and `terminating` (objects held by the API server, and those
  with a deletion timestamp), the Subscription's `installed` and `current` CSV
  names, the CSVs in phase `succeeded`, and `refs`, the references in the
  Operator's status, which OLM updates later than the cluster.
- *Command*: `pc` names the API call that comes next; the others are the local
  variables of `Run`: `opts` (flags, after `Run` has combined them), `csv`,
  `operands`, `opRefs`. The `deleteObjects` call that is running has a `phase`,
  the objects still `todo` and `waiting`, and the `rest`, objects that the
  enclosing loop has yet to pass to it. `why` tells errors apart.
- *History*, which the command does not read: `runs`, `elders` (what was live
  when the run started), `deleted` (what the run has deleted) and `keepers` (what
  there was to keep the Operator or the groups: the components that lived when
  the command was told that the Operator is gone, and the subscriptions in the
  second listing).

| code | actions |
| --- | --- |
| `newOperatorUninstallCmd`, flags; `Run` 50-61 | `Start`, `Normalise` |
| `Run` 63-97: list, find, `getSubscriptionCSV` | `ListSubs`, `GetCSV` |
| `listAll` of the operand lister | `ReadOperator`, `ReadGroups`, `ListOperands` (with `validStrategy`) |
| `deleteObjects`, `waitForDeletion` | `deleteObjects`, `DeleteObject`, `SeeGone`, `BatchDone` |
| `Run` 115-134, `deleteCSVRelatedResources` | `AfterSubscription`, `AfterOperand`, `AfterCSVDeletion` |
| `deleteOperator` | `GetOperator`, `AfterRefs`, `PollRefs`, `AfterOperatorDeletion` |
| `deleteOperatorGroup` | `RecheckSubs`, `ListGroups`, `AfterGroup` |
| the deadline of `root.go`, API errors, a killed process | `GiveUp` |

The rest of the cluster is not under `src/`; it is modelled from what the code
relies on and is marked external. `Finalize` removes a terminating object, but
only while a CSV keeps the operator running if the object carries the operator's
finalizer, and a CRD only after its custom resources. `CascadeCrd` marks the
custom resources of a CRD that is being deleted. `GarbageCollect` removes what a
CSV owned. `SyncOperator` and `RecreateOperator` are OLM's Operator controller,
`CreateCSV` and `SucceedCSV` its installs and upgrades, `OutsideCreate` and
`OutsideDelete` other users.

What is abstracted:

- An object is its UID. Other users may delete and create objects at any time,
  but never re-create one that the run has seen under the same identity. The
  code deletes by name, without a precondition on the UID; that hazard is listed
  and not covered.
- One package has one Subscription (the first match of the loop), and one CRD;
  several CRDs are read one after the other in the same way.
- The lists that `deleteObjects` gets are sets. The code deletes in order and
  polls in order; the model also allows every other order.
- The Operator and the CSV that it references are read in one step. Its
  references may be out of date by any amount, so the step has the same
  outcomes as the two calls.
- `InScope` is a constant: the operands that pass the filter on the operator
  group's target namespaces. An empty list of namespaces means all operands.
- `GiveUp` may end the command at every call. It stands for every error that is
  not NotFound, whether the deadline, the server or a signal.

### Properties

`AbortSparesEverything`, `OperatorOutlivesOperands`, `SubscriptionFirst`,
`OnlyChosenOperands`, `OperatorObjectLast`, `UsedGroupsSurvive`, `DoneMeansGone`
and `NoSubscriptionNoTeardown` are invariants, `OperatorAfterComponents` is an action
property and `EndsUnlessStuck` the liveness property. Promises about "the operands"
are stated for those that existed when the run started (`elders`): the command cannot
know of one created after it has listed them, and none of its promises can hold for
such a one.

`DoneMeansGone` says what success means, and no more than that:

- the subscription, the CSV that its first listing named, the operands to be deleted
  and the components that the Operator referenced when it was read are gone;
- with `--delete-operator` the Operator is gone, unless a component that was not among
  those references lived when the command was told that the Operator is gone.
  Then OLM may have created it again, and it may live when the command succeeds: its
  list may have been empty because it was out of date, or because it was new and had no
  status;
- with `--delete-operator-groups` the chosen groups that were there when the run
  started are gone, unless the second listing showed another package's subscription.

A CSV that OLM has put in place of the listed one is not among these. It runs on
after a success without `--delete-operator`, and with it if the Operator was not there,
was new, or listed no references yet.

`OperatorObjectLast` is about the references that the command has read and deleted,
`OperatorAfterComponents` about those that OLM adds to a list that was not empty: the
poll in `deleteOperator` keeps the command from going on to the Operator while any
component lives, whether or not it has read of it. Without the poll it fails.
The exception is an Operator that is not the one whose references were read: one that
somebody deleted and OLM created anew has no status, which the poll takes for an empty one.

`InStages` says that the command implements `OrderedTeardown`, the abstract
specification of a teardown: it goes through stages, only forwards, deletes in
each stage objects of that stage only, and enters the next one when it has seen
all of them gone, while the cluster changes as it likes. The abstract stage is
`phase`, and what is left of it is `waiting` together with `rest`; the checks,
the loops and the two halves of `deleteObjects` are steps of it or stutters.

### Runs

`MCOperatorUninstall` has a record of scenes, one for each kind of namespace that
is looked at; a run's `Asked` says which. A scene has the objects that are there
when the user first runs the command (`early`), those that may be (`maybe`),
those that users create or delete meanwhile (`touched`), the CSVs of the package,
and what the user gives, and how often. The cluster moves while the command runs,
and between two runs of it.

| run | scene | shows |
| --- | --- | --- |
| `teardown` | `upgrade`: from `csv1` to `csv2`, one operand in scope and one out of it, one group, flags `--delete-operator` and every strategy; the operand and the Operator come and go | types, the order and the extent of a teardown, and `InStages` |
| | `all`: everything there, `--delete-operator` and `--delete-operator-groups` together, the Operator deleted and re-created, another package's subscription coming and going | what success means for Operator and groups |
| | `shared`: two groups, another package's subscription that comes and goes, every object but a group, the CRD and the Operator possibly missing, two runs of the command | who keeps operator groups, and what a second run can do |
| `ends` | `ends`: the upgrade with one operand, fair controllers | the command ends without its deadline except in the states of `Stuck`; each of its three disjuncts is needed |
| `operator_not_found` | `notFound`: no Operator | violated: the help text says that the subscription and the group go anyway |
| `delete_all_skips_operands` | `operands`: everything there, the subscription naming no CSV | violated: the CSV and the CRD are deleted before the operand is finalized |
| `nil_components` | `recreate`: the Operator is deleted and re-created | violated: a nil dereference |

The bounds: two CSVs suffice for an upgrade, of which OLM runs one at a time; one
operand in each scope for the filter; two groups for the loop and for a choice
by name; two runs for a run that finds what an earlier one left. `MaxRuns`
and a scene's `times` bound the runs, `Flags` keeps the flags that do not bear on a run's question
out of it: `--delete-all` is the union of the other two. `CHECK_DEADLOCK` is off
because a command that has ended has nothing more to do.

### Fairness

`Fairness` is weak fairness of the command's next step, since nothing blocks a
process that polls, and of the controllers that finalize, cascade, collect and
update references, which retry for ever. Nothing is assumed of users, of OLM's
installs and upgrades, of the re-creation of the Operator, of errors or of the
deadline: the command must end, or be stuck, without any of them.

### Findings

1. `operator_not_found`: the operand listing fails for want of an Operator, of
   its components or of the CSV, and its error ends the command. The tests of a
   "missing csv" change only the subscription's status; Operator and CSV stay in
   their cluster, so the listing succeeds there.
2. `delete_all_skips_operands`: a subscription that names no CSV (one that was
   re-created over an existing installation) skips operands and CSV, and
   `deleteOperator` then deletes both CSV and CRD through the Operator's
   references. The operands are deleted with the CRD, and when the CSV is gone
   first nothing is left to finalize them.
3. `nil_components`: `deleteOperator` reads the references of a nil
   `Status.Components`.

## OperatorInstall

One module holds `install` and `upgrade`, because they meet in the same objects
and share the approval of install plans and the wait for them. A process `p` is
one run; `job[p]` is what the user asked for. `InstallModes` has the pure part:
which install modes a list of namespaces allows, whether a group suits, and the
target namespaces of a new group.

- *Cluster*: `head` (the catalog), `groups`, `subs`, `plans` and `csvs`.
- *Command*: `pc`, `why`, and the local variables of `Run`: `entries` (the
  channel head that was read), `plan` (the install plan it follows), `tries` and
  `result`. `fresh` says that the run has read the current resource version of its
  plan, so that resource versions need no numbers: every write to the plan
  (`Written`) makes the readings of the others stale, and the server refuses a
  stale update.
- *History*: `holds`, `beaten`, `base`, `ever` and `quiet`.

| code | actions |
| --- | --- |
| `install`: `getPackageManifest`, `GetChannel` | `GetPackage` |
| `ensureOperatorGroup`, `getOperatorGroup`, `validateOperatorGroup` | `ListGroups`, `Installable` |
| `getTargetNamespaces`, `createOperatorGroup` | `NewGroup`, `CreateGroup` |
| `createSubscription`, `getStartingCSV`, `subscription.Build` | `KnownVersion`, `NewSub`, `CreateSub` |
| `getInstallPlan` of install; of upgrade, with `findSubscriptionForPackage` | `PollRef`, `GetPlan`; `FindSub`, `GetPlan` |
| `approveInstallPlan` | `ApproveGet`, `ApproveUpdate` (`Approve`, `Conflict`) |
| `getCSV` | `WaitPlan`, `GetCSV` |
| errors, the deadline of `root.go` | `GiveUp` |

OLM and other users are external. What the commands rely on, and can be surprised
by, is in the model: OLM resolves all subscriptions of a namespace together, one
that cannot be satisfied blocks the others, one plan serves all pending
subscriptions (`MakePlan`), it waits for an approval if any subscription of the
namespace asks for one, it may fail half way, OLM writes to it at any time
(`TouchPlan`), an upgrade deletes the CSV that it replaces, and a plan without
owners is collected. A group's status is filled in later than its targets.

What is abstracted: a version is a number and a CSV is a pair of package and
version, so the text of a guessed CSV name is left out, and a guess is any
version, published or not; a package whose channel is not found is like one that
is not found; of the steps of a plan only the set of CSVs and the last one are
kept, which is all that `getCSV` reads; namespaces in a list are distinct. Two errors
have no outcome of their own: a starting CSV that cannot be guessed for want of a
version in the channel head's name (`operator_install.go:278`) ends the run as `GiveUp`
does, before the subscription is made; and a plan without a CSV (`helpers.go:76`) is not
among the plans of the model, which serve a subscription.

### Properties

- `GroupSuits`: an install goes on with exactly one operator group, one that
  suits the operator and what it is to watch, also if two installs find none and
  both create one. It is stated for namespaces whose groups other users leave
  alone, and for runs that saw no group with an empty status. Neither can be
  dropped: between the listing and the creation another user's group can appear,
  and a group whose status is not filled in looks like one for all namespaces or for
  its own, so that an install accepts a group that does not suit it.
- `ConflictMeansContention`: an approval gives up on a conflict only if another
  writer got in between in each attempt.
- `ApprovalMovesForward`: what a run approves brings its own package forward, however
  stale its reading of the subscription is.
- `DoneMeansInstalled`: success means that the package was installed or brought
  forward, to the version asked for if the user asked for one.
- `InstallsAsPlanned`: the commands implement `PlannedInstall`. All that a run ever does
  to the namespace is to make the group, to make its own subscription and to approve
  one plan, each once at most, in this order, and never over what is there. It follows
  one plan, one that serves its package, through all retries, and reports success only
  when that plan has been carried out. When it fails it undoes nothing. The abstract
  stage is a function of `pc` (`StageAt`). The abstract specification lets OLM make and
  carry out plans, and other users do as they like with groups and delete
  subscriptions, but nobody except a run approves a plan that is there: an approval in
  a stage that has none, or of another plan, is no step of it.
- `EveryRunEndsUnlessStuck`: without its deadline a run waits for ever in three cases
  only. A subscription of the namespace wants a version that does not exist; the
  plan has failed, which `getCSV` does not look for; or the run relies on automatic
  approval in a namespace where another subscription makes OLM ask for a manual one.
  Leaving any of the three out of `Stuck` makes the run fail.

### Runs

`MCOperatorInstall` has two packages and two runs, and chooses what they are asked for.

| run | scene | shows |
| --- | --- | --- |
| `installs` | `groups`: no, one or two groups at first, and one that other users create and delete; five lists of namespaces to watch; calls may fail; no plans | `GroupSuits`, `InstallsAsPlanned` |
| | `plans`: "a" new or installed, and republished; "b" uninstalled by others; up to three plans | types, approvals, what success means, `InstallsAsPlanned` |
| `installs_end` | `ends`: channels that list no versions, both approvals, fair controllers | `EveryRunEndsUnlessStuck` |
| `reports_own_package` | `ends`, for safety | violated: the CSV reported is of the other package |

The bounds: two packages for a plan that serves both, two versions for an upgrade,
three plans for one that is replaced before it is approved, two attempts
for a retry that succeeds and one that does not (`Attempts` is 4 in the code).
`MaxPlans` of `installs_end` is the most plans that its instance can need, so that OLM
is never kept from making one. `CHECK_DEADLOCK` is off because
runs end.

`Fairness` is weak fairness of each run's next step, which polls without end, and of
OLM's making, reusing and executing of plans and of its report of the installed
version. Executing may fail. Nobody has to publish, to touch a plan, or to give up.

### Finding

`reports_own_package`: `getCSV` keeps the last CSV of the plan, whatever package it is
of. Two installs at the same time, or an install while an upgrade is pending, are
served by one plan, and the command prints another operator's CSV as the installed one.

## The cluster commands

The commands for ClusterCatalogs and ClusterExtensions (OLM v1) and for
CatalogSources (OLM v0) are all of a kind: check the flags, call the API server,
wait for a status. They are modelled together because they meet: an extension
installs from the catalogs that serve, a search reads catalogs that another run
deletes, and two runs write the same object.

| module | models |
| --- | --- |
| `FieldUpdates` | what flags make of a spec and of labels: validation, defaults, `buildCatalog`, `setUpdatedCatalog`, `buildClusterExtension`, `needsUpdate`, `prepareUpdatedExtension` |
| `ClusterObjects` | the API server's objects, and the steps that the commands share: create, wait, list, delete, wait for the deletion, update |
| `ClusterCatalogs` | `create`, `update`, `delete catalog`; `catalog add` and `remove` |
| `ClusterExtensions` | `install`, `update`, `delete extension` |
| `Listings` | the rows that `get` and `search` print, and their order |
| `CatalogSearch` | `search catalog`, with the port that it forwards; `get` |
| `ClusterCommands` | all of them, with controllers, other users and failing calls; the specification and the properties |
| `OwnedObject` | nothing of the code: what a command that creates an object promises, as an abstract specification |

- *Cluster*: `objs` maps a name to an object, with its UID, spec, conditions,
  what it serves or has installed (`bundle`) and whether it is being deleted.
  UIDs count up (`made`), so an object that is deleted and created anew under its
  name is another one. `pods` are those of catalogd.
- *Command*: `pc` is the API call that comes next; `job` is what the user asked
  for; `at`, `todo`, `gone`, `failed`, `read`, `pod` and `found` are local
  variables, and `rows` is what `get` prints. A search prints as the last thing it
  does, from `found` alone: its table is `Printed(p)`, once it is done. `fresh` says that nobody has written the object
  since the run read it, in place of a resource version.
- *History*: `mine`, `asked`, `base`, `edited`, `worked`; `meddled` counts what other
  users did. No command reads them.

| code | actions |
| --- | --- |
| `CatalogCreate.Run`, `waitUntilCatalogStatusCondition` | `StartCreate`, `CreateCatalog`, `WaitServing`, `CleanUp` |
| `CatalogUpdate.Run` | `StartCatalogUpdate`, `GetCatalog`, `UpdateCatalog` |
| `CatalogDelete.Run`, `deleteCatalogs`, `waitForDeletion` | `StartDelete`, `ListCatalogs`, `DeleteCatalog` |
| v0 `CatalogAdd.Run`, `labelsFor`, `setDefaults`, `waitForCatalogSourceReady` | `StartSource`, `PullImage`, `AddSource`, `WaitReady`, `CleanUp` |
| v0 `CatalogRemove.Run` | `StartSource`, `RemoveSource` |
| `ExtensionInstall.Run`, `waitForExtensionInstall`, `cleanup` | `StartExtension`, `CreateExtension`, `WaitInstalled`, `WaitCleanUp` |
| `ExtensionUpdate.Run`, `setDefaults`, `needsUpdate` | `StartExtension`, `GetExtension`, `UpdateExtension`, `WaitUpgraded` |
| `ExtensionDeletion.Run` | `StartUninstall`, `ListExtensions`, `DeleteExtension` |
| `CatalogSearch.Run`, `getPodAndPortForService`, `LiveCatalog`, the port forwarder | `StartSearch`, `ListServing`, `FindPod`, `Forward`, `Fetch` |
| `CatalogInstalledGet.Run`, `ExtensionInstalledGet.Run`, printing | `StartGet`, `Look` |
| API errors, the deadline of `root.go` | `CallFails`, `AnswerLost` |

`CallFails` stands for every error of a call and for the deadline; what the command
then does is the code's: the clean-up of a creation, the next one of several
deletions, or the end. With `AnswerLost` the server has done what it was asked and
the command sees an error all the same.

External, from what the commands rely on: catalogd serves what it can pull
(`Serve`, `StopServing`) and its pods are replaced, with an overlap or after a gap
(`RollOut`); the operator controller reports progress and installs some version
that a serving catalog offers (`Progress`, `InstallBundle`); OLM v0 connects to a
source (`Connect`); finalizers run (`Finalize`); other users delete, create and edit
(`Outsiders`). Their statuses lag behind the specs by any amount.

What is abstracted:

- A poll that finds nothing changes nothing, and is left out.
- A version range is a version, nothing, or a range that the API accepts and
  `ParseRange` does not (`Foreign`). Channels and the policy of an extension are
  fields that updates compare and keep; they resolve to nothing. All extensions are
  of one package, and their namespace and service account are left out.
- Objects are listed, and deleted one after the other, in any order.
- A sort is its result, a sequence in the order that the comparison gives (`InOrder`,
  `StableSort`).
- A content has four lists, of packages, channels, bundles and the rest; `IsContent`
  says of them what a catalog's index guarantees: each package is listed once.
- A spec that the API server refuses is a failing call; `Accepted` is what remains.
- An image is the content that it serves (`Contents`) or the labels that it
  carries (`ImageLabels`); pulling one that has neither fails.
- A forwarded connection serves one catalog. That it stays open until the command
  ends, certificates and the CA are left out; so is `--timeout` of `search`, which
  is one more deadline.
- All catalogs are image catalogs and all extensions come from catalogs, which are the
  source types that the updates accept; that they refuse any other is left out.
- `delete` with `--all` and a name is refused before any call, and `delete` with
  neither calls the server with an empty name, which it refuses; neither is a job.
- The output formats other than the table, and strings that are no formats or
  selectors: those are refused before anything is read.

### Properties

- `CreatesAndUndoes`: `create`, `add` and `install` implement `OwnedObject`. A run
  creates one object at most, and none in a dry run or before its checks are done;
  after an error of the creation, which may have created the object all the same, it
  neither tries again nor cleans up; when it says that its wait failed, and nothing
  more, the object is gone or going, and otherwise it says that it has left it. The
  abstract stage of a run is `Stage`, a function of `pc` and `why`, and its object
  is the one with its UID. `Undo` of the abstract specification may take another
  run's object as well: the clean-up deletes by name.
- `FailedAddLeavesNothing`: what `create` and `add` made and did not see come up is
  gone, or being deleted, when they fail, whoever else deletes and creates
  under the name. Only a clean-up that itself fails, or an answer that is lost, can
  leave it.
- `DeleteAccountsForAll`: what `Run` of a deletion returns, its list and its error,
  accounts for each object exactly once; it goes on after an error; an object in the
  list is gone, by its UID. The user sees the list only if there was no error:
  `catalog_delete.go:44` and `extension_delete.go:47` (in `internal/cmd/internal/olmv1`)
  end the program with the error and print nothing of what was deleted.
- `UpdateKeepsOthers`: with `--ignore-unset` a write changes no field that the user
  did not give, even though it writes everything that the command read earlier. It
  rests on the resource version: `UpdateObject` with a stale reading would break it.
  Labels without a value are exempt: the code copies the object's labels into those
  to set, where an empty value means removal.
- `InstalledAsAsked`: an install that succeeds has seen its own extension installed,
  at the version asked for, unless somebody edited it or put another in its place.
- `SearchTellsAll`: no catalog that served when the search started is left out
  silently, and "not found" is said only if none has the package.
- `SearchShowsWhatIsThere`: the rows are what the contents hold, by catalog,
  package and descending version, and nothing of another package.
- `PreferredFirst`: the order of `get catalog`, stated on the rows for any two of
  them, where the code has a chain of comparisons.
- `EveryRunEndsUnlessStuck`: without its deadline a command waits for ever only as
  `Stuck` says. A `create` waits for what the spec of its catalog does not let
  happen; an extension wants a version that no catalog serves; an object that was
  deleted has been created anew under its name; the clean-up of an install waits
  for a deletion that nobody has asked for.

Promises about catalogs in a search are for those that served one content
meanwhile (`OneContent`): a search cannot know of a catalog that changed between its
listing and its reading.

### Runs

`MCClusterCommands` pairs two commands and chooses what is in the cluster first; the
pairs are those that meet in an object or in a status.

| run | scenes | shows |
| --- | --- | --- |
| `lifecycles` | `creates`, `updates`, `installs`, `upgrades`, `searches` and `sources`, with one act of another user, and calls that fail in both commands | all properties above, under fairness |
| `healthy_catalog` | `creates`, nothing fails and nobody meddles | violated: the wait of a `create` without `--available` never ends though the catalog serves |
| `failed_install` | `installs` | violated: a failed install waits for a deletion that nobody makes |
| `update_one_flag` | `upgrades` | violated: a nil dereference |

The bounds: two commands, since what they race for is one object; two catalogs for a
search that fails half way and for an extension that can choose; one extension and
one source; two versions for an upgrade; two pods for one that is replaced between
two reads. `MaxObjects` is 8: the four that `MCOlds` numbers, one that each command
creates and one of another user, so no creation is ever kept from happening.
`MaxMeddling` is 1: one deletion, creation or edit between any two calls. A
deletion and a re-creation of the same object needs a command and a user, or two
commands, and both are there. `Faulty` has both commands. `CHECK_DEADLOCK` is off
because commands end.

`Fairness` is weak fairness of each command, which polls without end, and of the
controllers taken together: as long as one of them has something to do, some of it
gets done. That suffices since none of them can be busy for ever while the users
are at rest. Other users, failures, lost answers and the roll-out of pods owe
nothing.

### Findings

1. `healthy_catalog`: `create` without `--available` makes an available catalog and
   waits for it not to serve. When the deadline passes it deletes the catalog.
2. `failed_install`: the `cleanup` of an install only waits.
3. `update_one_flag`: `prepareUpdatedExtension` assigns through pointers that are nil
   in an extension installed without `--crd-upgrade-safety-enforcement`, also when
   the update concerns another field.

## Proofs

`OperatorUninstallProofs` proves, for every set of objects, flags and number of
runs, the type invariant, all eight safety invariants above and the action property.
The assumptions are those of the module: objects of different kinds differ (`KindsDiffer`), subsets
are subsets (`SubsetsOfKinds`), nulls are no objects (`NullsDiffer`), and
`MaxRuns` is a natural number.

None of the invariants is inductive: they speak of what has been deleted and of
what lives, and not of what the command is about to delete or has yet to wait
for. `IInv` adds to the types:

- `ControlInv`: how the next call and the phase go together;
- `TargetInv`: what the running `deleteObjects` call, and its later rounds, are about;
- `DeletedInv`: what each phase may have deleted so far;
- `GoneInv`: what earlier calls have waited for is gone for good;
- `ListedInv`: what the listings of subscriptions and operands have established;
- `KeptInv`: once the command has been told that the Operator is gone, the components
  that live are among `keepers`, and an Operator that lives again has one of them;
  references that were emptied mean that no component is left; and no chosen group
  that was there at the start is outside the list of those yet to go.

The argument is by rely and guarantee. `ClusterRelies` shows that every step of
OLM, the garbage collector and other users satisfies `Rely`: it changes nothing
of the command's, brings back neither the subscription nor an old operand or group
nor, once the subscription is gone, any component of the package, re-creates the
Operator only while a component lives, and empties its references only when none does.
`RelyKeepsIInv` shows that such steps keep `IInv`. The lemmas `CommandType` to
`CommandKept` have one step per action of the command. `Inductive` puts them
together, and each property follows from `IInv` in a step or two. The invariant
was checked with TLC on the scenes of `teardown` before it was proved.

`OperatorUninstallRefines` proves `InStages`: `InitRefines` maps initial states to
initial states, `CommandRefines` and `OthersRefine` map every step to a step or a
stutter. `IInv` is needed there too: only `ControlInv` and `TargetInv` say that
nothing is left of a stage when the command goes on to the next.

`OperatorInstallProofs` proves of any number of installs and upgrades in a namespace,
for every catalog, set of groups and jobs, `TypeCorrect`, `OneSuitableGroup`
(`GroupSuits`), `ConflictOnlyByContention` (`ConflictMeansContention`),
`ApprovalsMoveForward` (`ApprovalMovesForward`) and `SuccessMeansInstalled`
(`DoneMeansInstalled`). It assumes what the module says of its constants: bounds are
numbers and there is an attempt to approve (`BoundsAreNats`), the catalog and the jobs
are typed (`CatalogIsTyped`, `JobsAreTyped`), namespaces are strings
(`NamesAreStrings`), a namespace has finitely many groups (`GroupsAreFinite`), and
"not found" is no object (`NoneIsNoObject`). The promises are about the end of a run,
or one update; what makes them true was read calls earlier, and OLM has moved on.
`IInv` therefore adds to the types what stays true in between:

- `ReferInv`: a subscription's versions are ordered, `installed` before `current`
  before `head`, the plan that it refers to contains its current CSV, and until
  something is installed it is at its starting version;
- `CompleteInv`: the CSVs of a plan that was carried out have existed;
- `RunsInv`: the plan that a run follows contains a version of its package that is
  newer than the one that the run found, and the version asked for, if the run has
  made the subscription, is in it or has existed;
- `ApprovalInv`: the attempts that a run has lost are those in which another writer
  got in between, and one that holds a fresh plan has attempts left;
- `GroupsInv`: a group's status is empty or that of its targets; while nobody else
  touches the groups, a run that is about to create one is in a namespace that has
  none, or only the one that commands make, and has a supported install mode.

The groups concern nothing else, so the proof is in two halves: `NextKeepsCore` has
the first four, one lemma per action of a command or of OLM, `NextKeepsGroups` the
last. Steps of others are dealt with once: `StillRefers`, `RunStays` and
`AttemptStays` say which changes of the cluster a run does not notice. In
`CreateGroup` a second install may find the name taken; that it then fails is
what `OneSuitableGroup` rests on.

`OperatorInstallRefines` proves `InstallsAsPlanned` (`Refinement`): `InitRefines` maps
initial states to initial states, `CommandRefines` every step of a run to one of its
abstract actions or a stutter, `OlmRefines` and `OutsidersRefine` those of the others to
`Others`, by way of `PlansObeyed`, what they may do to plans. `IInv` is needed where a
run begins to follow a plan: that the plan serves its package is `ReferInv`; and where
it approves: that it has a plan is `RunsInv`.

`ClusterCommandsProofs` proves of the cluster commands, for every set of names,
jobs and runs, `TypeCorrect`, `ImplementsOwnedObject` (`CreatesAndUndoes`) and
`FailedAddsCleanUp` (`FailedAddLeavesNothing`). It assumes that the names of the
three kinds differ (`NamesAreDisjoint`), that jobs and first objects are typed
(`JobsAreTyped`, `OldsAreTyped`), that there are finitely many runs and objects
(`ObjectBounds`) and at least one pod (`PodBound`). The promises name the object
that a run has made and what its wait
has come to; that is not inductive without knowing which call can follow which and
where that object is. `IInv` adds to the types:

- `ControlInv`: which command makes which calls, and that a command that writes one
  object is about the name that the user gave;
- `OwnInv`: a run has made nothing before its call to create, and what it has made
  is nowhere but under that name;
- `UndoneInv`: a run that says that its wait failed has left nothing that lives.

`Moves` is what any step may do to the objects: none that is gone or being deleted
comes back, since a new one has a new UID. `StepKeeps` and `MakingStepKeeps` show
once, for all runs, that a step that moves objects in this way, and goes from one
abstract stage to the next as `StageStep` lists, keeps `IInv` and is a step of
`OwnedObject`; the lemmas after them show it of every action, by way of
`GotoStep` and `FailStep`, the two ways in which an action may end. `OthersKeep`
does the same for the controllers, catalogd's pods and other users.

`ClusterRunsProofs` goes on from there and proves `DeletionsAccount`
(`DeleteAccountsForAll`), `InstallsAreAsked` (`InstalledAsAsked`) and the action
property `UpdatesKeepOthers` (`UpdateKeepsOthers`). Three assumptions are new. The
objects that are there at first, and what other users write, have specs that the API
server accepts (`SpecsAreAccepted`: the fields of the kind, an availability mode of the
enumeration, a poll interval that is neither 0 nor -1, which `update` reads as
none); a catalog serves contents that exist, are lists and name each package once,
and in which each version is a non-empty string (`ContentsAreTyped`, `IsContent`), since
bundle versions are parsed; and the value of a flag that was not given is none of the
numbers with a meaning (`NilIsNoNumber`).
`OutcomesInv` adds to `IInv`:

- `DeletionInv`: gone, failed and still to do make up what was listed and overlap
  nowhere, and of what is still to do only the object that is waited for has been
  asked to go;
- `InstallInv`: as long as nobody edits it, the extension has the version of the job,
  and when it is installed the controller has been seen to install that;
- `UpdateInv`: what the run has read is what the object still is, while its reading
  is fresh; this is what the resource version gives, and `UpdatesKeepOthers` is
  this fact at the moment of the write;
- `SpecInv`, `ServedInv`: every spec is one the server accepts, through all
  builds and updates of the code, and what a catalog serves is recorded.

`StepAside` says once what a step of another run leaves alone, `NextChanges` in which
ways any step may change an object; each part of `OutcomesInv` then needs only the
steps of the commands that it is about.

`ListingProofs` is about the tables, for all lists, with no state. `FlattenSeq` is
defined by recursion over a sequence. The library's induction theorems have an
operator as a parameter, so `Induction` is stated for a set of numbers and proved
from the least number outside it (`Least`, from the well-foundedness of `<`). With it
`Flattened` shows that the elements of `FlattenSeq` are those of its lists, in
their order (`Chains`), and `OnlyKeeps` what a filter keeps. A sort is specified by
its result, so its proof has to show that there is one: `OrderedSequence` puts each
element where the number of elements before it says, and `StableSorts` applies
it to positions. From these, `PackageShown`, `CatalogShown` and the theorem
`AllShown` say of the table of a package, a catalog and a search that each row is of an
entry that is there, every entry has its row, and the rows are in order. `Filtered` says
what `filterPackage` keeps. The prover has no definition of `SelectSeq` and `SortSeq`,
which is why `Listings` has `Only` and `StableSort` instead. The assumption is that
names, modes and versions have places of their own in `Alphabet`, with "Available"
before "Unavailable" (`AlphabetIsOrdered`), as strings and versions do in the code.

`ClusterReadsProofs` proves `SearchesTellAll` (`SearchTellsAll`), `SearchesShowAll`
(`SearchShowsWhatIsThere`) and `GetsPreferred` (`PreferredFirst`), from `ListingProofs`
and `ServedInv`; it assumes besides that the names of objects are in `Alphabet`
(`NamesAreSorted`). `SearchInv` says of a search on its way that it has told of every
catalog that it is done with, and that what it has found of a catalog is what
is kept of some content that a catalog can serve (`FromContent`); with `ServedInv`, a
catalog that has one content has been read with that content, whichever pod
answered. `SearchesShowAll` is then `AllShown` for what was found: `ToldShows`
compares the cells of the table with those that the content makes one expect, with a
package asked for and without. `GetInv` says that the rows of a get are in order;
`CatalogOrder` shows that `CatalogKey` with `Lex` orders any catalogs totally, so
that `OrderedSequence` applies.

Before their proofs, the invariants were checked with TLC on the scenes of `installs`
and `lifecycles`.

Model-checked only:

- `EndsUnlessStuck` and both `EveryRunEndsUnlessStuck`: liveness under fairness;
- the seven properties that are violated.

## Not modelled

- *OLM v0 listings* (`operator list`, `list-available`, `describe`, `catalog list`):
  each is one read and the printing of what it gave; there is no state in them and
  no order of steps that could be wrong. Read, and not checked: `operator list`
  reads the subscriptions of all namespaces also without `--all-namespaces`
  (`operator_list.go:21` has no namespace option, `catalog_list.go:23` has one);
  `list-available` and `describe` do not look at `--catalog` when a package is given.
- *Operand listing on its own*: its reads, guards and filter are part of uninstall;
  the sort and the printing of `list-operands` are not modelled.
- *Port forwarding*: the choice of a pod and a port and the race of its channels are;
  certificates, the SPDY transport and the lifetime of a connection, which is never
  closed while the command runs, are not.
- *Printing*: JSON, YAML, column widths and ages.
- *Command line*: the binding of flags, kubeconfig loading, `version`, logging.
- *Of the uninstall command*: the wording of errors, the sort of the operands
  (deletion in any order is covered), several CRDs, several namespaces, and
  re-creation under an old name.
