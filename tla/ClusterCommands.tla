-------------------------- MODULE ClusterCommands --------------------------
(***************************************************************************)
(* Runs of the commands for ClusterCatalogs, ClusterExtensions and         *)
(* CatalogSources in one cluster, with the controllers that serve and      *)
(* install, other users, and calls that fail.                              *)
(***************************************************************************)
EXTENDS ClusterCatalogs, ClusterExtensions, CatalogSearch

CONSTANTS
  Olds,       \* objects that may exist at first: their UID, spec, status and bundle
  Package,    \* the package that the extensions are of
  Touchable,  \* names of objects that other users delete, create or change
  MaxMeddling, \* bound on what they do
  NewSpecs    \* NewSpecs[n]: the specs that they give to objects of the name n

ASSUME OldsAreTyped ==
  /\ DOMAIN Olds \subseteq Names /\ Touchable \subseteq Names
  /\ Cardinality(DOMAIN Olds) \in 0..MaxObjects
  /\ \A n \in DOMAIN Olds : /\ Olds[n].uid \in 1..Cardinality(DOMAIN Olds)
                           /\ Olds[n].status \subseteq Conditions

\* What the API server takes as the spec of an object of the name n.
Accepted(n, spec) ==
  /\ n \in Catalogs => /\ DOMAIN spec = {"priority", "poll", "image", "mode", "labels"}
                       /\ spec.priority \in Int /\ spec.poll \notin {0, -1}
                       /\ spec.mode \in {"Available", "Unavailable"}
  /\ n \in Extensions =>
       DOMAIN spec = {"version", "channels", "selector", "policy", "safety", "labels"}

ASSUME SpecsAreAccepted ==
  /\ \A n \in DOMAIN Olds : Accepted(n, Olds[n].spec)
  /\ \A n \in Touchable : \A spec \in NewSpecs[n] : Accepted(n, spec)

\* A catalog serves what it has pulled from an image that has a name, and in that
\* no version is an empty string.
ASSUME ContentsAreTyped ==
  /\ "" \notin DOMAIN Contents
  /\ \A n \in DOMAIN Olds : "Serving" \in Olds[n].status => Olds[n].bundle \in DOMAIN Contents
  /\ \A i \in DOMAIN Contents :
       /\ IsContent(Contents[i])
       /\ \A b \in ToSet(Contents[i].bundles) : b.package = Package => b.version # ""

ASSUME NamesAreSorted == Names \subseteq ToSet(Alphabet)

commands == <<job, pc, why, at, todo, gone, failed, read>>
allVars  == <<vars, searchVars>>

Command(p) ==
  \/ (CatalogCommand(p) \/ ExtensionCommand(p)) /\ UNCHANGED searchVars
  \/ ReadCommand(p)

(***************************************************************************)
(* Calls that fail.                                                        *)
(***************************************************************************)

NewSpec(p) ==
  CASE job[p].kind = "create"  -> buildCatalog(job[p].opts)
    [] job[p].kind = "add"     -> SourceSpec(job[p].opts)
    [] job[p].kind = "install" -> buildClusterExtension(job[p].opts)

ChangedSpec(p) ==
  IF job[p].kind = "update" THEN UpdatedCatalog(job[p].opts, read[p])
  ELSE UpdatedExtension(Wanted(p), read[p])

\* Mutated: `catalog add` does not clean up.
AfterWaitMutant(p) ==
  CASE job[p].kind = "create"  -> Goto(p, "CleanUp")
    [] job[p].kind = "install" -> Goto(p, "WaitCleanUp")
    [] job[p].kind \in {"add", "upgrade"} -> Fail(p, "wait")

\* What a run does about a failed wait for what it has created.
AfterWait(p) ==
  CASE job[p].kind \in {"create", "add"} -> Goto(p, "CleanUp")
    [] job[p].kind = "install"           -> Goto(p, "WaitCleanUp")
    [] job[p].kind = "upgrade"           -> Fail(p, "wait")

\* A call fails, or the deadline passes.  Only a deletion of several goes on.
CallFails(p) ==
  /\ p \in Faulty
  /\ \/ /\ pc[p] \in Calls \ {"Validate", "Wait", "CleanUp", "WaitCleanUp", "Delete", "WaitGone"}
        /\ Fail(p, "call") /\ UNCHANGED <<todo, gone, failed>>
     \/ pc[p] = "Wait" /\ AfterWait(p) /\ UNCHANGED <<todo, gone, failed>>
     \/ pc[p] \in {"CleanUp", "WaitCleanUp"} /\ Fail(p, "leftover") /\ UNCHANGED <<todo, gone, failed>>
     \/ pc[p] = "Delete" /\ \E n \in todo[p] : Missed(p, n)
     \/ pc[p] = "WaitGone" /\ Missed(p, at[p])
  /\ UNCHANGED <<objs, made, job, at, read, fresh, history, searchVars>>

\* The server does what it is asked, and the answer is lost.
AnswerLost(p) ==
  /\ p \in Faulty /\ ~job[p].dry
  /\ \/ /\ pc[p] = "Create" /\ ~Exists(at[p]) /\ made < MaxObjects
        /\ Created(p, NewSpec(p)) /\ Fail(p, "call") /\ UNCHANGED <<todo, failed>>
     \/ /\ pc[p] = "Update" /\ Exists(at[p]) /\ fresh[p]
        /\ Put(at[p], [objs[at[p]] EXCEPT !.spec = ChangedSpec(p)])
        /\ edited' = edited \cup {objs[at[p]].uid}
        /\ Fail(p, "call") /\ UNCHANGED <<todo, failed, made, mine, asked, base, worked, meddled>>
     \/ /\ pc[p] = "Delete"
        /\ \E n \in todo[p] : Exists(n) /\ DeleteObject(p, n) /\ Missed(p, n)
  /\ UNCHANGED <<job, at, gone, read, searchVars>>

(***************************************************************************)
(* The controllers.                                                        *)
(***************************************************************************)

\* They write the status of n.
Report(n, conditions, bundle) ==
  /\ Put(n, [objs[n] EXCEPT !.status = conditions, !.bundle = bundle])
  /\ worked' = IF bundle = "" THEN worked ELSE worked \cup {<<n, objs[n].uid, bundle>>}
  /\ UNCHANGED <<made, commands, mine, asked, base, edited, meddled, searchVars>>

Living(n) == Exists(n) /\ ~objs[n].deleting

\* catalogd serves what it can pull.
Servable(c) == objs[c].spec.mode = "Available" /\ objs[c].spec.image \in DOMAIN Contents

Serve(c) ==
  /\ Living(c) /\ Servable(c)
  /\ ~Has(c, "Serving") \/ objs[c].bundle # objs[c].spec.image
  /\ Report(c, {"Serving"}, objs[c].spec.image)

StopServing(c) ==
  /\ Living(c) /\ objs[c].spec.mode = "Unavailable" /\ ~Has(c, "NotServing")
  /\ Report(c, {"NotServing"}, "")

\* The operator controller installs a version that a serving catalog has.
Offered(e) ==
  LET sources == {c \in Catalogs : Has(c, "Serving")
                                   /\ Selected(objs[e].spec.selector, objs[c].spec.labels)}
      bundles == UNION {ToSet(Contents[objs[c].bundle].bundles) : c \in sources}
  IN  {b.version : b \in {d \in bundles : d.package = Package}} \ {Unset}

\* A foreign range admits any version.
Exact(e)      == objs[e].spec.version \notin {""} \cup Foreign
Resolvable(e) == {v \in Offered(e) : Exact(e) => v = objs[e].spec.version}

Wanting(e) ==
  objs[e].bundle = "" \/ (Exact(e) /\ objs[e].bundle # objs[e].spec.version)

Progress(e) ==
  /\ Living(e) /\ Wanting(e) /\ ~Has(e, "Progressing")
  /\ Report(e, (objs[e].status \ {"Succeeded"}) \cup {"Progressing"}, objs[e].bundle)

InstallBundle(e) ==
  /\ Living(e)
  /\ Wanting(e) \/ Has(e, "Progressing")
  /\ \E v \in Resolvable(e) : Report(e, {"Succeeded", "Installed"}, v)

\* OLM v0 connects to the pod of a catalog source.
Connect(s) == Living(s) /\ ~Has(s, "READY") /\ Report(s, {"READY"}, "")

Finalize(n) ==
  /\ Exists(n) /\ objs[n].deleting
  /\ Put(n, NoObject)
  /\ UNCHANGED <<made, commands, history, searchVars>>

Controllers ==
  \/ \E c \in Catalogs : Serve(c) \/ StopServing(c)
  \/ \E e \in Extensions : Progress(e) \/ InstallBundle(e)
  \/ \E s \in Sources : Connect(s)
  \/ \E n \in Names : Finalize(n)

(***************************************************************************)
(* Other users.  They leave room for what the runs create.                 *)
(***************************************************************************)

OutsideDelete(n) ==
  /\ Living(n)
  /\ Put(n, IF n \in Sources THEN NoObject ELSE [objs[n] EXCEPT !.deleting = TRUE])
  /\ UNCHANGED <<made, edited>>

OutsideCreate(n, spec) ==
  /\ ~Exists(n) /\ made + Cardinality(Procs) < MaxObjects
  /\ objs' = [objs EXCEPT ![n] = NewObject(spec)] /\ made' = made + 1
  /\ UNCHANGED <<fresh, edited>>

OutsideEdit(n, spec) ==
  /\ Exists(n)
  /\ Put(n, [objs[n] EXCEPT !.spec = spec])
  /\ edited' = edited \cup {objs[n].uid}
  /\ UNCHANGED made

Outsiders ==
  /\ meddled < MaxMeddling /\ meddled' = meddled + 1
  /\ \E n \in Touchable :
       OutsideDelete(n) \/ \E spec \in NewSpecs[n] : OutsideCreate(n, spec) \/ OutsideEdit(n, spec)
  /\ UNCHANGED <<commands, mine, asked, base, worked, searchVars>>

(***************************************************************************)
(* The specification.                                                      *)
(***************************************************************************)

Nothing == [p \in Procs |-> {}]

OldObjects(S) ==
  [n \in Names |-> IF n \notin S THEN NoObject
     ELSE [uid |-> Olds[n].uid, spec |-> Olds[n].spec, status |-> Olds[n].status,
           bundle |-> Olds[n].bundle, deleting |-> FALSE]]

Init ==
  /\ \E S \in SUBSET DOMAIN Olds : objs = OldObjects(S)
  /\ made = Cardinality(DOMAIN Olds)
  /\ worked = {<<n, objs[n].uid, objs[n].bundle>> : n \in {m \in Names : Exists(m)}}
  /\ job \in [Procs -> Jobs]
  /\ pc = [p \in Procs |-> "Validate"] /\ why = [p \in Procs |-> "none"]
  /\ at = [p \in Procs |-> job[p].name]
  /\ todo = Nothing /\ gone = Nothing /\ failed = Nothing
  /\ read = [p \in Procs |-> None] /\ fresh = [p \in Procs |-> FALSE]
  /\ mine = [p \in Procs |-> 0] /\ asked = Nothing /\ base = Nothing
  /\ edited = {} /\ meddled = 0
  /\ pods = <<1>> /\ pod = [p \in Procs |-> 0]
  /\ found = [p \in Procs |-> <<>>] /\ rows = [p \in Procs |-> <<>>]

Next ==
  \/ \E p \in Procs : Command(p) \/ CallFails(p) \/ AnswerLost(p)
  \/ Controllers
  \/ RollOut
  \/ Outsiders

Spec == Init /\ [][Next]_allVars

(***************************************************************************)
(* The commands poll, and the controllers, taken together, go on while     *)
(* there is something to do.  Other users owe nothing.                     *)
(***************************************************************************)
Fairness ==
  /\ \A p \in Procs : WF_allVars(Command(p))
  /\ WF_allVars(Controllers)

FairSpec == Spec /\ Fairness

(***************************************************************************)
(* Properties.                                                             *)
(***************************************************************************)

TypeOK ==
  /\ \A n \in Names :
       /\ objs[n].uid \in 0..made /\ objs[n].status \subseteq Conditions
       /\ objs[n].deleting \in BOOLEAN
  /\ made \in 0..MaxObjects
  /\ job \in [Procs -> Jobs]
  /\ pc \in [Procs -> Calls \cup Ended] /\ why \in [Procs -> Reasons]
  /\ at \in [Procs -> Names \cup {None}]
  /\ todo \in [Procs -> SUBSET Names] /\ gone \in [Procs -> SUBSET Names]
  /\ failed \in [Procs -> SUBSET Names]
  /\ fresh \in [Procs -> BOOLEAN]
  /\ mine \in [Procs -> 0..made] /\ edited \subseteq 1..made
  /\ asked \in [Procs -> SUBSET (Names \X (1..made))]
  /\ base \in [Procs -> SUBSET (Names \X (1..made))]
  /\ \A w \in worked : w[1] \in Names /\ w[2] \in 1..made
  /\ pods \in Seq(1..MaxPods) /\ pod \in [Procs -> 0..MaxPods]

\* A catalog that did not become what `create` or `add` waited for is gone when
\* the command fails, or being deleted, also if others delete and create
\* catalogs meanwhile.  Only a clean-up that itself fails may leave it.
FailedAddLeavesNothing ==
  \A p \in Procs : job[p].kind \in {"create", "add"} /\ why[p] = "wait" =>
    \A n \in Names : Living(n) => objs[n].uid # mine[p]

(***************************************************************************)
(* The commands that create an object implement OwnedObject.  A run that   *)
(* is none of these, or a dry run, never leaves the stage "before".        *)
(***************************************************************************)
Creates(p) == job[p].kind \in {"create", "add", "install"} /\ ~job[p].dry

FailedStage(p) ==
  CASE why[p] = "wait"     -> "undone"
    [] why[p] = "leftover" -> "left"
    [] OTHER               -> "refused"

Stage(p) ==
  IF ~Creates(p) THEN "before"
  ELSE CASE pc[p] = "Wait"                       -> "waiting"
         [] pc[p] \in {"CleanUp", "WaitCleanUp"} -> "undoing"
         [] pc[p] = "Done"                       -> "succeeded"
         [] pc[p] = "Failed"                     -> FailedStage(p)
         [] OTHER                                -> "before"

OwnLives(p) == \E n \in Names : Living(n) /\ objs[n].uid = mine[p]

Owned == INSTANCE OwnedObject WITH
  Runs <- Procs, stage <- [p \in Procs |-> Stage(p)], lives <- [p \in Procs |-> OwnLives(p)]

\* A run creates one object at most, and none in a dry run or before its checks
\* are done; it does not try again; when it says that its wait failed, and no
\* more, what it has created is going.
CreatesAndUndoes == Owned!Spec

\* Run of a deletion accounts for every object that it was to delete, either in
\* the list of what is gone or in its error, and goes on after an error.  What
\* it lists as gone is gone: the object whose deletion it asked for, whatever
\* has the name now.  It succeeds if there is no error.  (This is about what Run
\* returns: the olmv1 commands print the list only when there is no error.)
Meant(p) == IF job[p].name = None THEN {o[1] : o \in base[p]} ELSE {job[p].name}

DeleteAccountsForAll ==
  \A p \in Procs : job[p].kind \in {"delete", "uninstall", "remove"} =>
    /\ pc[p] \in Ended /\ why[p] \in {"none", "some"} =>
         /\ gone[p] \cup failed[p] = Meant(p) /\ gone[p] \cap failed[p] = {}
         /\ pc[p] = "Done" <=> failed[p] = {}
    /\ \A o \in asked[p] : o[1] \in gone[p] => o \notin Live

\* With --ignore-unset, an update changes no field that the user does not give,
\* and no label but those given and, as the code has it, those without a value:
\* what others have written since the command read the object stays.
IsGiven(f, o) ==
  CASE f \in {"priority", "poll", "selector"}         -> o[f] # Unset
    [] f \in {"image", "version", "policy", "safety"} -> o[f] # ""
    [] f = "mode"                                     -> o.available # ""
    [] f = "channels"                                 -> o[f] # <<>>

Keeps(p, old, new) ==
  /\ \A f \in DOMAIN old \ {"labels"} : IsGiven(f, job[p].opts) \/ new[f] = old[f]
  /\ \A k \in DOMAIN old.labels :
       old.labels[k] = "" \/ k \in DOMAIN Given(job[p].opts.labels, <<>>)
       \/ (k \in DOMAIN new.labels /\ new.labels[k] = old.labels[k])

UpdateKeepsOthers ==
  [][\A p \in Procs : pc[p] = "Update" /\ pc'[p] # "Update" /\ job[p].opts.ignoreUnset =>
       LET n == at[p] IN Exists(n) /\ objs'[n] # objs[n] => Keeps(p, objs[n].spec, objs'[n].spec)
    ]_allVars

\* An install succeeds only if its extension was installed, at the version that
\* the user gave unless somebody has changed that.  (Of an extension that was
\* deleted and created anew under its name it may report the other one's.)
InstalledAsAsked ==
  \A p \in Procs : job[p].kind = "install" /\ pc[p] = "Done" /\ mine[p] # 0 =>
    LET n == job[p].name IN
    Exists(n) /\ objs[n].uid = mine[p] =>
      \E w \in worked : /\ w[2] = mine[p]
                        /\ mine[p] \in edited \/ job[p].opts.version \in {"", w[3]}

\* A search tells of all catalogs that were serving when it started, or fails:
\* it leaves one out only if that has nothing of the package, and says that a
\* package was not found only if none has it.  Catalogs that served different
\* contents meanwhile are not held to this.
OneContent(p, c) == {w[3] : w \in {v \in worked : v[1] = c}} = {read[p][c]}

Holds(p, c) ==
  job[p].opts.package \in {""} \cup ToSet(Contents[read[p][c]].packages)

SearchTellsAll ==
  \A p \in Procs : job[p].kind = "search" =>
    /\ pc[p] = "Done" =>
         \A c \in DOMAIN read[p] : OneContent(p, c) => (c \in DOMAIN found[p] <=> Holds(p, c))
    /\ why[p] = "notFound" =>
         \A c \in DOMAIN read[p] : OneContent(p, c) => ~Holds(p, c)

\* What a search hands on is of the package that the user asked for, and what it
\* prints is exactly what is there of it, by catalog, package and descending
\* version.
Expected(p, c) ==
  LET content == Contents[read[p][c]]
      asked_  == {k \in ToSet(content.packages) : job[p].opts.package \in {"", k}}
  IN  IF job[p].opts.listVersions
        THEN {<<b.package, c, b.version>> :
                b \in {d \in ToSet(content.bundles) : d.package \in asked_ /\ d.version # Unset}}
        ELSE {<<k, c, {d.name : d \in {e \in ToSet(content.channels) : e.package = k}}>> : k \in asked_}

Shown(p, printed, c) ==
  {<<r[1], c, IF job[p].opts.listVersions THEN r[4] ELSE ToSet(r[4])>> :
     r \in {q \in ToSet(printed) : q[2] = c}}

RowKey(p, r) ==
  <<Pos(r[2]), Pos(r[1]), IF job[p].opts.listVersions THEN -Pos(r[4]) ELSE 0>>

OfPackage(content, k) ==
  /\ ToSet(content.packages) = {k}
  /\ \A e \in ToSet(content.channels) \cup ToSet(content.bundles) \cup ToSet(content.rest) :
       e.package = k

SearchShowsWhatIsThere ==
  \A p \in Procs : job[p].kind = "search" /\ pc[p] = "Done" =>
    /\ job[p].opts.package # "" =>
         \A c \in DOMAIN found[p] : OfPackage(found[p][c], job[p].opts.package)
    /\ job[p].opts.output = "" =>
         LET printed == Printed(p) IN
         /\ \A c \in DOMAIN read[p] : OneContent(p, c) => Shown(p, printed, c) = Expected(p, c)
         /\ \A i, j \in DOMAIN printed :
              i < j => ~Lex(RowKey(p, printed[j]), RowKey(p, printed[i]))

\* `get catalog` shows what a reader of the cluster looks for first: the
\* catalogs that may serve before the others, and among them those that the
\* resolver would prefer.
PreferredFirst ==
  \A p \in Procs : job[p].kind = "get" /\ job[p].opts.of = Catalogs /\ pc[p] = "Done" =>
    \A i, j \in DOMAIN rows[p] : i < j =>
      LET a == rows[p][i]  b == rows[p][j] IN
      /\ a[1] # b[1]
      /\ b[2] = "Available" => a[2] = "Available"
      /\ a[2] = b[2] => a[3] >= b[3]

\* Without its deadline a command waits for ever in these cases: a create waits
\* for what the spec of the catalog does not let happen; an extension wants a
\* version that no catalog serves; the object that it waits to see gone has been
\* created anew, or nobody deletes it.
NeverServes(p) ==
  LET o == objs[at[p]] IN
  IF Awaited(job[p].opts) = "Serving" THEN ~Has(at[p], "Serving") /\ ~Servable(at[p])
  ELSE ~Has(at[p], "NotServing") /\ o.spec.mode = "Available"

NeverInstalls(p) ==
  LET e == at[p] IN
  /\ Resolvable(e) = {}
  /\ ~Has(e, "Installed") \/ (job[p].kind = "install" /\ Has(e, "Progressing"))

Stuck(p) ==
  /\ pc[p] \in {"Wait", "WaitGone", "WaitCleanUp"} /\ Living(at[p])
  /\ pc[p] = "Wait" /\ job[p].kind = "create" => NeverServes(p)
  /\ pc[p] = "Wait" /\ job[p].kind \in {"install", "upgrade"} => NeverInstalls(p)
  /\ pc[p] = "Wait" => job[p].kind # "add"

\* Every command ends by itself except in these cases, whatever the others do.
EveryRunEndsUnlessStuck ==
  \A p \in Procs : <>[](pc[p] \in Ended \/ Stuck(p))

(***************************************************************************)
(* What the documentation says, and the code does not do.                  *)
(***************************************************************************)

\* The clean-up of `create` is for catalogs that never become healthy: while a
\* catalog made without --available keeps serving, the wait for it ends.
HealthyCatalogEndsWait ==
  \A p \in Procs :
    LET healthy == /\ job[p].kind = "create" /\ job[p].opts.available = ""
                   /\ pc[p] = "Wait" /\ Has(at[p], "Serving")
    IN  healthy ~> ~healthy

\* A failed install cleans up by deleting its extension: while it waits for the
\* extension to be gone, somebody has deleted it.
FailedInstallIsDeleted ==
  \A p \in Procs : pc[p] = "WaitCleanUp" =>
    \A n \in Names : Living(n) => objs[n].uid # mine[p]

\* A flag of `update extension` may be used on its own.
UpdateTakesOneFlag ==
  \A p \in Procs : job[p].kind = "upgrade" => why[p] # "panic"
=============================================================================
