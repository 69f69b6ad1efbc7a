-------------------------- MODULE ClusterCatalogs --------------------------
(***************************************************************************)
(* `olmv1 create catalog`, `update catalog` and `delete catalog`, and the  *)
(* commands for OLM v0's CatalogSources, `catalog add` and `remove`.       *)
(***************************************************************************)
EXTENDS ClusterObjects

(***************************************************************************)
(* create.                                                                 *)
(***************************************************************************)

StartCreate(p) ==
  /\ pc[p] = "Validate" /\ job[p].kind = "create"
  /\ IF ValidCatalogFlags(job[p].opts) THEN Goto(p, "Create") ELSE Fail(p, "flags")
  /\ UNCHANGED <<objs, made, local, fresh, history>>

CreateCatalog(p) ==
  /\ job[p].kind = "create"
  /\ CreateObject(p, buildCatalog(job[p].opts))

\* What it waits for follows from the flag, not from the spec it has made.
Awaited(o) == IF AvailabilityMode(o) = "Available" THEN "Serving" ELSE "NotServing"

WaitServing(p) ==
  /\ job[p].kind = "create"
  /\ WaitFor(p, Has(at[p], Awaited(job[p].opts)), Goto(p, "CleanUp"))

(***************************************************************************)
(* update.                                                                 *)
(***************************************************************************)

StartCatalogUpdate(p) ==
  /\ pc[p] = "Validate" /\ job[p].kind = "update"
  /\ IF ValidCatalogFlags(job[p].opts) THEN Goto(p, "Get") ELSE Fail(p, "flags")
  /\ UNCHANGED <<objs, made, local, fresh, history>>

GetCatalog(p) ==
  /\ pc[p] = "Get" /\ job[p].kind = "update"
  /\ IF Exists(at[p])
       THEN /\ GetObject(p)
            /\ IF job[p].opts.image \in Malformed THEN Fail(p, "flags") ELSE Goto(p, "Update")
       ELSE Fail(p, "gone") /\ UNCHANGED <<read, fresh>>
  /\ UNCHANGED <<objs, made, job, at, todo, gone, failed, history>>

\* It does not wait for the catalog to serve again.
UpdateCatalog(p) ==
  /\ job[p].kind = "update"
  /\ UpdateObject(p, UpdatedCatalog(job[p].opts, read[p]), "Done")

(***************************************************************************)
(* delete, of one or of --all.                                             *)
(***************************************************************************)

\* Mutated: does not look at --all.
StartDeleteMutant(p) ==
  /\ pc[p] = "Validate" /\ job[p].kind = "delete"
  /\ Goto(p, "Delete") /\ todo' = [todo EXCEPT ![p] = {job[p].name}]
  /\ UNCHANGED <<objs, made, job, at, gone, failed, read, fresh, history>>

StartDelete(p) ==
  /\ pc[p] = "Validate" /\ job[p].kind = "delete"
  /\ IF job[p].name = None
       THEN Goto(p, "List") /\ UNCHANGED todo
       ELSE Goto(p, "Delete") /\ todo' = [todo EXCEPT ![p] = {job[p].name}]
  /\ UNCHANGED <<objs, made, job, at, gone, failed, read, fresh, history>>

ListCatalogs(p) == job[p].kind = "delete" /\ ListObjects(p, Catalogs)

DeleteCatalog(p) == job[p].kind = "delete" /\ (DeleteNext(p) \/ WaitForDeletion(p))

(***************************************************************************)
(* OLM v0: add a CatalogSource, with the names that the labels of its      *)
(* image give unless the user gives others; remove one.                    *)
(***************************************************************************)

CONSTANT ImageLabels  \* the labels of the images that can be pulled

\* labelsFor pulls the image, before anything is created.
PullImage(p) ==
  /\ pc[p] = "Pull" /\ job[p].kind = "add"
  /\ IF job[p].opts.image \in DOMAIN ImageLabels THEN Goto(p, "Create") ELSE Fail(p, "call")
  /\ UNCHANGED <<objs, made, local, fresh, history>>

\* CatalogAdd.setDefaults and catalogsource.Build.
SourceSpec(o) ==
  LET labels == ImageLabels[o.image]
      Label(given, key) == IF given = "" /\ key \in DOMAIN labels THEN labels[key] ELSE given
  IN  [image       |-> o.image,
       displayName |-> Label(o.displayName, "display-name"),
       publisher   |-> Label(o.publisher, "publisher")]

AddSource(p) ==
  /\ job[p].kind = "add"
  /\ CreateObject(p, SourceSpec(job[p].opts))

WaitReady(p) ==
  /\ job[p].kind = "add"
  /\ WaitFor(p, Has(at[p], "READY"), Goto(p, "CleanUp"))

\* Nothing to validate: `catalog remove` deletes at once.
StartSource(p) ==
  /\ pc[p] = "Validate" /\ job[p].kind \in {"add", "remove"}
  /\ IF job[p].kind = "add"
       THEN Goto(p, "Pull") /\ UNCHANGED todo
       ELSE Goto(p, "Delete") /\ todo' = [todo EXCEPT ![p] = {job[p].name}]
  /\ UNCHANGED <<objs, made, job, at, gone, failed, read, fresh, history>>

RemoveSource(p) == job[p].kind = "remove" /\ (DeleteNext(p) \/ WaitForDeletion(p))

(***************************************************************************)
(* Both commands that create a catalog remove it when it does not become   *)
(* what they wait for.                                                     *)
(***************************************************************************)

CleanUp(p) == job[p].kind \in {"create", "add"} /\ DeleteWithTimeout(p)

CatalogCommand(p) ==
  \/ StartCreate(p) \/ CreateCatalog(p) \/ WaitServing(p)
  \/ StartCatalogUpdate(p) \/ GetCatalog(p) \/ UpdateCatalog(p)
  \/ StartDelete(p) \/ ListCatalogs(p) \/ DeleteCatalog(p)
  \/ StartSource(p) \/ PullImage(p) \/ AddSource(p) \/ WaitReady(p) \/ RemoveSource(p)
  \/ CleanUp(p)
=============================================================================
