--------------------------- MODULE ClusterObjects ---------------------------
(***************************************************************************)
(* What the commands for ClusterCatalogs, ClusterExtensions and            *)
(* CatalogSources have in common: the objects in the API server, the       *)
(* creation of one, its deletion, and the waits in between.                *)
(*                                                                         *)
(* Each process is one run of one command.  One action is one API call     *)
(* with the local computation up to the next one.  A poll that finds       *)
(* nothing new changes nothing, and is left out.                           *)
(***************************************************************************)
EXTENDS FieldUpdates, Sequences, FiniteSets

CONSTANTS
  Procs,       \* runs of the commands
  Catalogs,    \* names of ClusterCatalogs
  Extensions,  \* names of ClusterExtensions
  Sources,     \* names of CatalogSources
  Jobs,        \* what the user may ask a run to do
  Faulty,      \* runs of which a call may fail, or the deadline pass
  MaxObjects,  \* bound on the objects ever created
  None         \* an object that does not exist

Names == Catalogs \cup Extensions \cup Sources
Uids  == 1..MaxObjects

ASSUME NamesAreDisjoint ==
  /\ Catalogs \cap Extensions = {} /\ Catalogs \cap Sources = {}
  /\ Extensions \cap Sources = {} /\ None \notin Names

ASSUME ObjectBounds == MaxObjects \in Nat /\ IsFiniteSet(Procs) /\ Faulty \subseteq Procs

\* The user gives a name, or None for all objects of the kind.  The flags for the
\* priority and the poll interval take numbers.
ASSUME JobsAreTyped ==
  \A j \in Jobs :
    /\ j.kind \in {"create", "update", "delete", "add", "remove", "install", "upgrade",
                   "uninstall", "get", "search"}
    /\ j.name \in Names \cup {None}
    /\ j.name = None => j.kind \in {"delete", "uninstall", "get", "search"}
    /\ j.dry \in BOOLEAN
    /\ j.kind \in {"create", "update"} =>
         /\ j.name \in Catalogs
         /\ j.opts.poll = Unset \/ j.opts.poll \in Int
         /\ j.opts.priority = Unset \/ j.opts.priority \in Int
    /\ j.kind = "add" => j.name \in Sources
    /\ j.kind \in {"install", "upgrade"} => j.name \in Extensions

VARIABLES
  objs,    \* objs[n]: the object of that name, or NoObject
  made,    \* objects created so far; the last one has this number as its UID
  \* The commands.
  job,     \* what the user asked for
  pc,      \* the API call that comes next
  why,     \* why the run failed
  at,      \* the object that it is about
  todo,    \* objects that it still has to delete
  gone,    \* objects that it reports as deleted
  failed,  \* objects that it reports errors for
  read,    \* the spec that it has read
  fresh,   \* nobody has written the object since
  \* History, read by no action of a command.
  mine,    \* the UID of the object that the run created, or 0
  asked,   \* the objects whose deletion each run asked for
  base,    \* the objects, by name and UID, that each run listed
  edited,  \* UIDs of objects whose spec was changed after their creation
  worked,  \* what each object served, or had installed, at some time
  meddled  \* how often other users have changed something

local   == <<job, at, todo, gone, failed, read>>
history == <<mine, asked, base, edited, worked, meddled>>
vars    == <<objs, made, pc, why, local, fresh, history>>

Calls   == {"Validate", "Pull", "Create", "Wait", "CleanUp", "WaitCleanUp",
            "List", "Delete", "WaitGone", "Get", "Update",
            "Look", "ListServing", "FindPod", "Forward", "Fetch"}
Ended   == {"Done", "Failed"}
Reasons == {"none", "flags", "call", "exists", "gone", "wait", "leftover", "some",
            "noResources", "conflict", "version", "noChange", "panic", "noneServing",
            "notFound"}

\* What a status may say: the conditions, or the state of the connection.
Conditions == {"Serving", "NotServing", "Progressing", "Succeeded", "Installed", "READY"}

NewObject(spec) ==
  [uid |-> made + 1, spec |-> spec, status |-> {}, bundle |-> "", deleting |-> FALSE]

\* Where there is none.
NoObject == [uid |-> 0, spec |-> None, status |-> {}, bundle |-> "", deleting |-> FALSE]

Exists(n)   == objs[n].uid # 0
Has(n, c)   == Exists(n) /\ c \in objs[n].status
Live        == {<<n, objs[n].uid>> : n \in {m \in Names : Exists(m)}}

Goto(p, call)   == pc' = [pc EXCEPT ![p] = call] /\ UNCHANGED why
Fail(p, reason) == pc' = [pc EXCEPT ![p] = "Failed"] /\ why' = [why EXCEPT ![p] = reason]

\* Every write gives the object a new resource version.
Written(n) == fresh' = [q \in Procs |-> fresh[q] /\ at[q] # n]

Put(n, o)  == objs' = [objs EXCEPT ![n] = o] /\ Written(n)

(***************************************************************************)
(* Creating an object and waiting for it.                                  *)
(***************************************************************************)

Created(p, spec) ==
  /\ objs' = [objs EXCEPT ![at[p]] = NewObject(spec)] /\ made' = made + 1
  /\ mine' = [mine EXCEPT ![p] = made + 1]
  /\ UNCHANGED <<fresh, asked, base, edited, worked, meddled>>

\* Mutated: a dry run creates the object.
CreateObjectMutant(p, spec) ==
  /\ pc[p] = "Create"
  /\ \/ Exists(at[p]) /\ Fail(p, "exists") /\ UNCHANGED <<objs, made, fresh, history>>
     \/ /\ ~Exists(at[p]) /\ made < MaxObjects
        /\ Goto(p, IF job[p].dry THEN "Done" ELSE "Wait")
        /\ Created(p, spec)
  /\ UNCHANGED local

\* A dry run goes through the same checks in the server.
CreateObject(p, spec) ==
  /\ pc[p] = "Create"
  /\ \/ Exists(at[p]) /\ Fail(p, "exists") /\ UNCHANGED <<objs, made, fresh, history>>
     \/ /\ ~Exists(at[p]) /\ job[p].dry /\ Goto(p, "Done")
        /\ UNCHANGED <<objs, made, fresh, history>>
     \/ /\ ~Exists(at[p]) /\ ~job[p].dry /\ made < MaxObjects /\ Goto(p, "Wait")
        /\ Created(p, spec)
  /\ UNCHANGED local

\* Mutated: goes on polling for an object that is gone.
WaitForMutant(p, ready, orElse) ==
  /\ pc[p] = "Wait"
  /\ Exists(at[p]) /\ ready /\ Goto(p, "Done")
  /\ UNCHANGED <<objs, made, local, fresh, history>>

\* The poll ends when it sees what it waits for, or when the object is gone;
\* ready says the first, and orElse what comes after the second.
WaitFor(p, ready, orElse) ==
  /\ pc[p] = "Wait"
  /\ \/ ~Exists(at[p]) /\ orElse
     \/ Exists(at[p]) /\ ready /\ Goto(p, "Done")
  /\ UNCHANGED <<objs, made, local, fresh, history>>

(***************************************************************************)
(* Deleting objects.                                                       *)
(***************************************************************************)

\* A ClusterCatalog or ClusterExtension goes when its finalizers have run.
DeleteObject(p, n) ==
  /\ asked' = [asked EXCEPT ![p] = @ \cup {<<n, objs[n].uid>>}]
  /\ IF objs[n].deleting THEN UNCHANGED <<objs, fresh>>
     ELSE Put(n, IF n \in Sources THEN NoObject ELSE [objs[n] EXCEPT !.deleting = TRUE])
  /\ UNCHANGED <<made, mine, base, edited, worked, meddled>>

\* The next one of the list; the errors are joined at the end.
Next1(p, left, errors) ==
  /\ todo' = [todo EXCEPT ![p] = left]
  /\ IF left # {} THEN Goto(p, "Delete")
     ELSE IF errors = {} THEN Goto(p, "Done") ELSE Fail(p, "some")

\* Mutated: stops at the first error.
MissedMutant(p, n) ==
  /\ failed' = [failed EXCEPT ![p] = @ \cup {n}]
  /\ Fail(p, "some")
  /\ UNCHANGED <<gone, todo>>

Missed(p, n) ==
  /\ failed' = [failed EXCEPT ![p] = @ \cup {n}]
  /\ Next1(p, todo[p] \ {n}, failed'[p])
  /\ UNCHANGED gone

Deleted(p, n) ==
  /\ gone' = [gone EXCEPT ![p] = @ \cup {n}]
  /\ Next1(p, todo[p] \ {n}, failed[p])
  /\ UNCHANGED failed

\* List all objects of the kind.
ListObjects(p, kind) ==
  LET found == {n \in kind : Exists(n)}
  IN  /\ pc[p] = "List"
      /\ todo' = [todo EXCEPT ![p] = found]
      /\ base' = [base EXCEPT ![p] = {o \in Live : o[1] \in found}]
      /\ IF found = {} THEN Fail(p, "noResources") ELSE Goto(p, "Delete")
      /\ UNCHANGED <<objs, made, job, at, gone, failed, read, fresh, mine, asked, edited, worked, meddled>>

\* Delete one of them; one that is not there is an error.
DeleteNext(p) ==
  /\ pc[p] = "Delete"
  /\ \E n \in todo[p] :
       \/ /\ ~Exists(n) /\ Missed(p, n)
          /\ UNCHANGED <<objs, made, at, fresh, history>>
       \/ /\ Exists(n) /\ job[p].dry /\ Deleted(p, n)
          /\ UNCHANGED <<objs, made, at, fresh, history>>
       \/ /\ Exists(n) /\ ~job[p].dry /\ Goto(p, "WaitGone")
          /\ DeleteObject(p, n) /\ at' = [at EXCEPT ![p] = n]
          /\ UNCHANGED <<todo, gone, failed>>
  /\ UNCHANGED <<job, read>>

\* waitForDeletion.
WaitForDeletion(p) ==
  /\ pc[p] = "WaitGone"
  /\ ~Exists(at[p]) /\ Deleted(p, at[p])
  /\ UNCHANGED <<objs, made, job, at, read, fresh, history>>

\* deleteWithTimeout: an object that is gone already is no error, and nobody
\* waits until it is.  The context is its own: the deadline does not matter.
DeleteWithTimeout(p) ==
  /\ pc[p] = "CleanUp"
  /\ IF Exists(at[p]) THEN DeleteObject(p, at[p])
     ELSE UNCHANGED <<objs, made, fresh, history>>
  /\ Fail(p, "wait")
  /\ UNCHANGED local

(***************************************************************************)
(* Reading an object and updating it.                                      *)
(***************************************************************************)

GetObject(p) ==
  /\ read' = [read EXCEPT ![p] = objs[at[p]].spec]
  /\ fresh' = [fresh EXCEPT ![p] = TRUE]

\* The server refuses an update of what was written since it was read.
UpdateObject(p, spec, then) ==
  LET n == at[p] IN
  /\ pc[p] = "Update"
  /\ \/ ~Exists(n) /\ Fail(p, "gone") /\ UNCHANGED <<objs, fresh, edited>>
     \/ Exists(n) /\ ~fresh[p] /\ Fail(p, "conflict") /\ UNCHANGED <<objs, fresh, edited>>
     \/ Exists(n) /\ fresh[p] /\ job[p].dry /\ Goto(p, "Done") /\ UNCHANGED <<objs, fresh, edited>>
     \/ /\ Exists(n) /\ fresh[p] /\ ~job[p].dry /\ Goto(p, then)
        /\ Put(n, [objs[n] EXCEPT !.spec = spec])
        /\ edited' = edited \cup {objs[n].uid}
  /\ UNCHANGED <<made, local, mine, asked, base, worked, meddled>>
=============================================================================
