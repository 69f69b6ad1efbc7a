------------------------- MODULE ClusterExtensions -------------------------
(***************************************************************************)
(* `olmv1 install extension`, `update extension` (the jobs "install" and   *)
(* "upgrade") and `delete extension` ("uninstall").                        *)
(***************************************************************************)
EXTENDS ClusterObjects

StartExtension(p) ==
  LET j == job[p] IN
  /\ pc[p] = "Validate" /\ j.kind \in {"install", "upgrade"}
  /\ IF ValidExtensionFlags(j.opts)
       THEN Goto(p, IF j.kind = "install" THEN "Create" ELSE "Get")
       ELSE Fail(p, "flags")
  /\ UNCHANGED <<objs, made, local, fresh, history>>

(***************************************************************************)
(* install.                                                                *)
(***************************************************************************)

CreateExtension(p) ==
  /\ job[p].kind = "install"
  /\ CreateObject(p, buildClusterExtension(job[p].opts))

\* Mutated: takes the end of all progress for success.
WaitInstalledMutant(p) ==
  /\ job[p].kind = "install"
  /\ WaitFor(p, ~Has(at[p], "Progressing"), Goto(p, "WaitCleanUp"))

\* waitForExtensionInstall: as long as the extension is making progress, what
\* else its status says does not count.
WaitInstalled(p) ==
  /\ job[p].kind = "install"
  /\ WaitFor(p, ~Has(at[p], "Progressing") /\ Has(at[p], "Installed"), Goto(p, "WaitCleanUp"))

\* cleanup: it waits until the extension is gone.  Nothing in it deletes it.
WaitCleanUp(p) ==
  /\ pc[p] = "WaitCleanUp"
  /\ ~Exists(at[p]) /\ Fail(p, "wait")
  /\ UNCHANGED <<objs, made, local, fresh, history>>

(***************************************************************************)
(* update.                                                                 *)
(***************************************************************************)

Wanted(p) == ExtensionDefaults(job[p].opts, read[p])

\* The checks between the Get and the Update.  prepareUpdatedExtension follows
\* pointers that are nil in an extension without a safety setting.
GetExtension(p) ==
  LET d == ExtensionDefaults(job[p].opts, objs[at[p]].spec) IN
  /\ pc[p] = "Get" /\ job[p].kind = "upgrade"
  /\ \/ ~Exists(at[p]) /\ Fail(p, "gone") /\ UNCHANGED <<read, fresh>>
     \/ /\ Exists(at[p]) /\ GetObject(p)
        /\ IF d.version \in Foreign                  THEN Fail(p, "version")
           ELSE IF ~needsUpdate(d, objs[at[p]].spec) THEN Fail(p, "noChange")
           ELSE IF objs[at[p]].spec.safety = Unset   THEN Fail(p, "panic")
           ELSE Goto(p, "Update")
  /\ UNCHANGED <<objs, made, job, at, todo, gone, failed, history>>

UpdateExtension(p) ==
  /\ job[p].kind = "upgrade"
  /\ UpdateObject(p, UpdatedExtension(Wanted(p), read[p]), "Wait")

\* An Installed condition that is older than the update will do.
WaitUpgraded(p) ==
  /\ job[p].kind = "upgrade"
  /\ WaitFor(p, Has(at[p], "Installed"), Fail(p, "gone"))

(***************************************************************************)
(* delete, of one or of --all.                                             *)
(***************************************************************************)

StartUninstall(p) ==
  /\ pc[p] = "Validate" /\ job[p].kind = "uninstall"
  /\ IF job[p].name = None
       THEN Goto(p, "List") /\ UNCHANGED todo
       ELSE Goto(p, "Delete") /\ todo' = [todo EXCEPT ![p] = {job[p].name}]
  /\ UNCHANGED <<objs, made, job, at, gone, failed, read, fresh, history>>

ListExtensions(p) == job[p].kind = "uninstall" /\ ListObjects(p, Extensions)

DeleteExtension(p) == job[p].kind = "uninstall" /\ (DeleteNext(p) \/ WaitForDeletion(p))

ExtensionCommand(p) ==
  \/ StartExtension(p)
  \/ CreateExtension(p) \/ WaitInstalled(p) \/ WaitCleanUp(p)
  \/ GetExtension(p) \/ UpdateExtension(p) \/ WaitUpgraded(p)
  \/ StartUninstall(p) \/ ListExtensions(p) \/ DeleteExtension(p)
=============================================================================
