--------------------------- MODULE ClusterRunsProofs ---------------------------
(***************************************************************************)
(* What deletions, updates and installs promise, for every set of objects, *)
(* jobs and runs.                                                          *)
(*                                                                         *)
(* Each promise relates what a run ends with to the objects in the API     *)
(* server.  OutcomesInv says of the runs on their way what they have       *)
(* accounted for (DeletionInv), what is known of the object that they have *)
(* installed (InstallInv) or read (UpdateInv), and of every object that    *)
(* its spec is one that the server has accepted and that a catalog serves  *)
(* contents that there are (SpecInv, ServedInv).                           *)
(***************************************************************************)
EXTENDS ClusterCommandsProofs

\* A deletion has dealt with an object, or has it still to do, and has asked for
\* nothing that it has still to do but the one that it waits for.
Deletion(p) ==
  /\ pc[p] \in {"Validate", "List"} => todo[p] = {} /\ gone[p] = {} /\ failed[p] = {} /\ asked[p] = {}
  /\ pc[p] = "List" => job[p].name = None
  /\ pc[p] \in {"Delete", "WaitGone"} =>
       /\ todo[p] \cup gone[p] \cup failed[p] = Meant(p)
       /\ todo[p] \cap (gone[p] \cup failed[p]) = {} /\ gone[p] \cap failed[p] = {}
       /\ \A o \in asked[p] : o[1] \in todo[p] => pc[p] = "WaitGone" /\ o[1] = at[p]
  /\ pc[p] = "WaitGone" => at[p] \in todo[p]
  /\ pc[p] \in Ended /\ why[p] \in {"none", "some"} =>
       /\ gone[p] \cup failed[p] = Meant(p) /\ gone[p] \cap failed[p] = {}
       /\ pc[p] = "Done" <=> failed[p] = {}
  /\ \A o \in asked[p] : o[1] \in gone[p] => o \notin Live

DeletionInv == \A p \in Procs : job[p].kind \in Deleting => Deletion(p)

\* The controller has installed the run's extension, at the version asked for.
SeenInstalled(p) ==
  \E w \in worked : /\ w[2] = mine[p]
                    /\ mine[p] \in edited \/ job[p].opts.version \in {"", w[3]}

\* As long as nobody edits the extension, its spec has the version of the job.
Installing(p) ==
  /\ pc[p] = "Create" \/ mine[p] # 0 => job[p].opts.version \notin Foreign
  /\ \A n \in Names : Exists(n) /\ objs[n].uid = mine[p] =>
       /\ mine[p] \in edited \/ objs[n].spec.version = job[p].opts.version
       /\ "Installed" \in objs[n].status \/ pc[p] = "Done" => SeenInstalled(p)

InstallInv == \A p \in Procs : job[p].kind = "install" => Installing(p)

\* The server only takes an update of the spec that the run has read.
Updated(p) ==
  fresh[p] => /\ Exists(at[p]) /\ read[p] = objs[at[p]].spec
              /\ pc[p] = "Update" /\ job[p].kind = "upgrade" => read[p].safety # Unset

UpdateInv == \A p \in Procs : job[p].kind \in Updating => Updated(p)

SpecInv   == \A n \in Names : Exists(n) => Accepted(n, objs[n].spec)

\* What serves has contents, and it is known that it had.
Served(n) ==
  objs[n].bundle \in DOMAIN Contents /\ \E w \in worked : w[1] = n /\ w[3] = objs[n].bundle

ServedInv == \A n \in Names : Has(n, "Serving") => Served(n)

OutcomesInv == DeletionInv /\ InstallInv /\ UpdateInv /\ SpecInv /\ ServedInv

-----------------------------------------------------------------------------
(***************************************************************************)
(* What a step leaves alone.                                               *)
(***************************************************************************)

LEMMA NextMoves == ASSUME IInv, [Next]_allVars PROVE Moves /\ job' = job /\ IInv'
<1>1. IInv'
  BY Inductive
<1>2. ASSUME NEW p \in Procs, Command(p) \/ CallFails(p) \/ AnswerLost(p)
      PROVE  Moves /\ job' = job
  BY <1>2, CatalogSteps, ExtensionSteps, StartsReading, Reads, Failures, LostAnswers
  DEF Command, ReadCommand, Step, MakingStep
<1>3. CASE Controllers \/ RollOut \/ Outsiders
  BY <1>1, <1>3, ControllersStep, RollOutStep, OutsidersStep DEF OthersStep, commands
<1>4. CASE UNCHANGED allVars
  BY <1>1, <1>4, Still DEF allVars, vars, local, IInv
<1> QED
  BY <1>1, <1>2, <1>3, <1>4 DEF Next

\* The step is not one of the run q.
Aside(q) ==
  /\ pc'[q] = pc[q] /\ why'[q] = why[q] /\ job'[q] = job[q] /\ at'[q] = at[q]
  /\ todo'[q] = todo[q] /\ gone'[q] = gone[q] /\ failed'[q] = failed[q] /\ read'[q] = read[q]
  /\ mine'[q] = mine[q] /\ asked'[q] = asked[q] /\ base'[q] = base[q]
  /\ fresh'[q] => fresh[q]

\* The domains of what the runs keep.
LEMMA Domains ==
  ASSUME IInv
  PROVE  /\ DOMAIN pc = Procs /\ DOMAIN why = Procs /\ DOMAIN job = Procs /\ DOMAIN at = Procs
         /\ DOMAIN todo = Procs /\ DOMAIN gone = Procs /\ DOMAIN failed = Procs
         /\ DOMAIN read = Procs /\ DOMAIN fresh = Procs /\ DOMAIN mine = Procs
         /\ DOMAIN asked = Procs /\ DOMAIN base = Procs
<1>1. read = [p \in Procs |-> read[p]]
  BY DEF IInv, RunsInv, LocalInv
<1> QED
  BY <1>1 DEF IInv, RunsInv, LocalInv, HistoryInv

\* A deletion accounts for an object.
LEMMA AccountAside ==
  ASSUME IInv, NEW p \in Procs, NEW q \in Procs \ {p}, NEW n, Missed(p, n) \/ Deleted(p, n)
  PROVE  /\ pc'[q] = pc[q] /\ why'[q] = why[q]
         /\ todo'[q] = todo[q] /\ gone'[q] = gone[q] /\ failed'[q] = failed[q]
BY Domains DEF Missed, Deleted, Next1, Goto, Fail

LEMMA DeleteAside ==
  ASSUME IInv, NEW p \in Procs, NEW q \in Procs \ {p}, NEW n, DeleteObject(p, n)
  PROVE  /\ asked'[q] = asked[q] /\ mine'[q] = mine[q] /\ base'[q] = base[q]
         /\ fresh'[q] => fresh[q]
BY Domains DEF DeleteObject, Put, Written

\* The calls that delete and wait for the deletion.
LEMMA RemovalAside ==
  ASSUME IInv, NEW p \in Procs, NEW q \in Procs \ {p}, DeleteNext(p) \/ WaitForDeletion(p)
  PROVE  Aside(q)
<1>1. CASE WaitForDeletion(p)
  BY <1>1, AccountAside DEF WaitForDeletion, history, Aside
<1>2. ASSUME NEW n \in todo[p], Missed(p, n) \/ Deleted(p, n), DeleteNext(p),
             UNCHANGED <<objs, made, at, fresh, history>>
      PROVE  Aside(q)
  BY <1>2, AccountAside DEF DeleteNext, history, Aside
<1>3. ASSUME NEW n \in todo[p], Goto(p, "WaitGone"), DeleteObject(p, n), DeleteNext(p),
             at' = [at EXCEPT ![p] = n], UNCHANGED <<todo, gone, failed>>
      PROVE  Aside(q)
  BY <1>3, DeleteAside, Domains DEF DeleteNext, Goto, Aside
<1> QED
  BY <1>1, <1>2, <1>3 DEF DeleteNext

LEMMA CatalogAside ==
  ASSUME IInv, NEW p \in Procs, NEW q \in Procs \ {p}, CatalogCommand(p)
  PROVE  Aside(q)
<1>1. CASE StartCreate(p) \/ StartCatalogUpdate(p) \/ StartDelete(p) \/ StartSource(p) \/ PullImage(p)
  BY <1>1, Domains DEF StartCreate, StartCatalogUpdate, StartDelete, StartSource, PullImage,
                       Goto, Fail, local, history, Aside
<1>2. CASE CreateCatalog(p) \/ AddSource(p)
  BY <1>2, Domains DEF CreateCatalog, AddSource, CreateObject, Created, Goto, Fail, local, history, Aside
<1>3. CASE WaitServing(p) \/ WaitReady(p)
  BY <1>3, Domains DEF WaitServing, WaitReady, WaitFor, Goto, Fail, local, history, Aside
<1>4. CASE GetCatalog(p)
  BY <1>4, Domains DEF GetCatalog, GetObject, Goto, Fail, history, Aside
<1>5. CASE UpdateCatalog(p)
  BY <1>5, Domains DEF UpdateCatalog, UpdateObject, Put, Written, Goto, Fail, local, Aside
<1>6. CASE ListCatalogs(p)
  BY <1>6, Domains DEF ListCatalogs, ListObjects, Goto, Fail, Aside
<1>7. CASE DeleteCatalog(p) \/ RemoveSource(p)
  BY <1>7, RemovalAside DEF DeleteCatalog, RemoveSource
<1>8. CASE CleanUp(p)
  BY <1>8, Domains DEF CleanUp, DeleteWithTimeout, DeleteObject, Put, Written, Fail, local, history, Aside
<1> QED
  BY <1>1, <1>2, <1>3, <1>4, <1>5, <1>6, <1>7, <1>8 DEF CatalogCommand

LEMMA ExtensionAside ==
  ASSUME IInv, NEW p \in Procs, NEW q \in Procs \ {p}, ExtensionCommand(p)
  PROVE  Aside(q)
<1>1. CASE StartExtension(p) \/ StartUninstall(p)
  BY <1>1, Domains DEF StartExtension, StartUninstall, Goto, Fail, local, history, Aside
<1>2. CASE CreateExtension(p)
  BY <1>2, Domains DEF CreateExtension, CreateObject, Created, Goto, Fail, local, history, Aside
<1>3. CASE WaitInstalled(p) \/ WaitUpgraded(p) \/ WaitCleanUp(p)
  BY <1>3, Domains DEF WaitInstalled, WaitUpgraded, WaitCleanUp, WaitFor, Goto, Fail, local, history, Aside
<1>4. CASE GetExtension(p)
  BY <1>4, Domains DEF GetExtension, GetObject, Goto, Fail, history, Aside
<1>5. CASE UpdateExtension(p)
  BY <1>5, Domains DEF UpdateExtension, UpdateObject, Put, Written, Goto, Fail, local, Aside
<1>6. CASE ListExtensions(p)
  BY <1>6, Domains DEF ListExtensions, ListObjects, Goto, Fail, Aside
<1>7. CASE DeleteExtension(p)
  BY <1>7, RemovalAside DEF DeleteExtension
<1> QED
  BY <1>1, <1>2, <1>3, <1>4, <1>5, <1>6, <1>7 DEF ExtensionCommand

LEMMA ReadingAside ==
  ASSUME IInv, NEW p \in Procs, NEW q \in Procs \ {p}, ReadCommand(p)
  PROVE  Aside(q)
<1>1. CASE StartGet(p) \/ StartSearch(p) \/ Look(p) \/ Forward(p)
  BY <1>1, Domains DEF StartGet, StartSearch, Look, Forward, Goto, Fail, local, history, Aside
<1>2. CASE ListServing(p)
  BY <1>2, Domains DEF ListServing, Goto, Fail, history, Aside
<1>3. CASE FindPod(p)
  BY <1>3, Domains DEF FindPod, Goto, Fail, history, Aside
<1>4. CASE Fetch(p)
  BY <1>4, Domains DEF Fetch, Finish, Goto, Fail, history, Aside
<1> QED
  BY <1>1, <1>2, <1>3, <1>4 DEF ReadCommand

LEMMA FailureAside ==
  ASSUME IInv, NEW p \in Procs, NEW q \in Procs \ {p}, CallFails(p) \/ AnswerLost(p)
  PROVE  Aside(q)
<1>1. CASE CallFails(p)
  <2>1. pc'[q] = pc[q] /\ why'[q] = why[q] /\ todo'[q] = todo[q] /\ gone'[q] = gone[q] /\ failed'[q] = failed[q]
    <3>1. pc[p] = "Wait" => job[p].kind \in {"create", "add", "install", "upgrade"}
      BY DEF IInv, ControlInv, Control, MayCall, Creating
    <3> QED
      BY <1>1, <3>1, Domains DEF CallFails, AfterWait, Missed, Next1, Goto, Fail
  <2> QED
    BY <1>1, <2>1 DEF CallFails, history, Aside
<1>2. CASE AnswerLost(p)
  <2>1. CASE pc[p] = "Delete"
    BY <1>2, <2>1, AccountAside, DeleteAside DEF AnswerLost, Aside
  <2>2. CASE pc[p] # "Delete"
    BY <1>2, <2>2, Domains DEF AnswerLost, Created, Put, Written, Fail, Aside
  <2> QED
    BY <2>1, <2>2
<1> QED
  BY <1>1, <1>2

LEMMA OthersAside ==
  ASSUME IInv, Controllers \/ RollOut \/ Outsiders \/ UNCHANGED allVars, NEW q \in Procs
  PROVE  Aside(q)
<1>1. CASE Controllers
  BY <1>1 DEF Controllers, Serve, StopServing, Progress, InstallBundle, Connect, Finalize, Report,
              Put, Written, commands, history, Aside
<1>2. CASE Outsiders
  BY <1>2 DEF Outsiders, OutsideDelete, OutsideCreate, OutsideEdit, Put, Written, commands, Aside
<1>3. CASE RollOut
  BY <1>3 DEF RollOut, local, history, Aside
<1>4. CASE UNCHANGED allVars
  BY <1>4 DEF allVars, vars, local, history, Aside
<1> QED
  BY <1>1, <1>2, <1>3, <1>4

LEMMA StepAside ==
  ASSUME IInv, NEW p \in Procs, NEW q \in Procs \ {p}, Command(p) \/ CallFails(p) \/ AnswerLost(p)
  PROVE  Aside(q)
BY CatalogAside, ExtensionAside, ReadingAside, FailureAside DEF Command

-----------------------------------------------------------------------------
(***************************************************************************)
(* Deletions.                                                              *)
(***************************************************************************)

\* An object that is gone does not come back: what has its name has another UID.
LEMMA GoneStays ==
  ASSUME IInv, Moves, NEW o \in Names \X (1..made), o \notin Live
  PROVE  o \notin Live'
<1> SUFFICES ASSUME o \in Live' PROVE FALSE
  OBVIOUS
<1>1. PICK n \in Names : Exists(n)' /\ o = <<n, objs'[n].uid>>
  BY DEF Live
<1>2. objs'[n].uid \in 1..made /\ made \in Nat
  BY <1>1 DEF IInv, ObjectsInv
<1>3. objs'[n].uid = objs[n].uid
  BY <1>1, <1>2 DEF Moves, Exists
<1> QED
  BY <1>1, <1>3 DEF Live, Exists

LEMMA AskedIs ==
  ASSUME IInv, NEW p \in Procs, NEW o \in asked[p]
  PROVE  o \in Names \X (1..made)
BY DEF IInv, HistoryInv

\* The step of somebody else.
LEMMA DeletionStays ==
  ASSUME IInv, Moves, NEW p \in Procs, Deletion(p), Aside(p)
  PROVE  Deletion(p)'
<1>1. \A o \in asked'[p] : o[1] \in gone'[p] => o \notin Live'
  BY GoneStays, AskedIs DEF Deletion, Aside
<1>2. Meant(p)' = Meant(p)
  BY DEF Meant, Aside
<1> QED
  BY <1>1, <1>2 DEF Deletion, Aside

\* The run has dealt with n.
Dealt(p, n) ==
  /\ n \in todo[p] /\ n \in Names /\ pc[p] \in {"Delete", "WaitGone"}
  /\ pc[p] = "WaitGone" => n = at[p]
  /\ job' = job /\ base' = base /\ at' = at
  /\ \A o \in asked'[p] : o \in asked[p] \/ (o[1] = n /\ failed' # failed)
  /\ \/ Missed(p, n)
     \/ Deleted(p, n) /\ failed' = failed /\ \A o \in asked'[p] : o[1] = n => o \notin Live'

LEMMA DealtKeeps ==
  ASSUME IInv, Moves, NEW p \in Procs, job[p].kind \in Deleting, Deletion(p), NEW n, Dealt(p, n)
  PROVE  Deletion(p)'
<1>0. Meant(p)' = Meant(p) /\ n \in todo[p] /\ n \in Names
  BY DEF Meant, Dealt
<1>1. /\ todo'[p] = todo[p] \ {n} /\ why[p] = "none"
      /\ \/ gone'[p] = gone[p] /\ failed'[p] = failed[p] \cup {n} /\ Missed(p, n)
         \/ gone'[p] = gone[p] \cup {n} /\ failed'[p] = failed[p] /\ Deleted(p, n)
  BY Domains DEF Dealt, Missed, Deleted, Next1, IInv, ControlInv, Control
<1>2. \/ pc'[p] = "Delete" /\ why'[p] = "none" /\ todo'[p] # {}
      \/ pc'[p] = "Done" /\ why'[p] = "none" /\ todo'[p] = {} /\ failed'[p] = {}
      \/ pc'[p] = "Failed" /\ why'[p] = "some" /\ todo'[p] = {} /\ failed'[p] # {}
  <2>1. \/ todo'[p] # {} /\ Goto(p, "Delete")
        \/ todo'[p] = {} /\ failed'[p] = {} /\ Goto(p, "Done")
        \/ todo'[p] = {} /\ failed'[p] # {} /\ Fail(p, "some")
    BY <1>1 DEF Dealt, Missed, Deleted, Next1
  <2> QED
    BY <1>1, <2>1, Domains DEF Goto, Fail
<1>3. /\ todo[p] \cup gone[p] \cup failed[p] = Meant(p)
      /\ todo[p] \cap (gone[p] \cup failed[p]) = {} /\ gone[p] \cap failed[p] = {}
      /\ \A o \in asked[p] : o[1] \in todo[p] => o[1] = n
      /\ \A o \in asked[p] : o[1] \in gone[p] => o \notin Live
  BY DEF Deletion, Dealt
<1>4. /\ todo'[p] \cup gone'[p] \cup failed'[p] = Meant(p)'
      /\ todo'[p] \cap (gone'[p] \cup failed'[p]) = {} /\ gone'[p] \cap failed'[p] = {}
  BY <1>0, <1>1, <1>3
<1>5. \A o \in asked'[p] : o[1] \notin todo'[p]
  BY <1>1, <1>3 DEF Dealt
<1>6. ASSUME NEW o \in asked'[p], o[1] \in gone'[p] PROVE o \notin Live'
  <2>1. CASE o[1] = n
    <3>1. n \notin gone[p]
      BY <1>0, <1>3
    <3>2. failed'[p] = failed[p] /\ Deleted(p, n)
      BY <1>1, <1>6, <2>1, <3>1
    <3>3. n \notin failed[p] /\ n \notin failed'[p]
      BY <1>0, <1>3, <3>2
    <3>4. ~Missed(p, n)
      BY <3>3, Domains DEF Missed
    <3> QED
      BY <1>6, <2>1, <3>4 DEF Dealt
  <2>2. CASE o[1] # n
    <3>1. o \in asked[p] /\ o[1] \in gone[p]
      BY <1>1, <1>6, <2>2 DEF Dealt
    <3> QED
      BY <1>3, <3>1, GoneStays, AskedIs
  <2> QED
    BY <2>1, <2>2
<1>7. CASE pc'[p] = "Delete"
  BY <1>4, <1>5, <1>6, <1>7 DEF Deletion, Ended
<1>8. CASE pc'[p] # "Delete"
  <2>1. gone'[p] \cup failed'[p] = Meant(p)'
    BY <1>2, <1>4, <1>8
  <2> QED
    BY <1>2, <1>4, <1>6, <1>8, <2>1 DEF Deletion
<1> QED
  BY <1>7, <1>8


\* The run goes on to the objects that it is to delete, or lists them first.
LEMMA RemovalStarts ==
  ASSUME IInv, Moves, NEW p \in Procs, job[p].kind \in Deleting, Deletion(p),
         StartDelete(p) \/ StartUninstall(p) \/ StartSource(p)
  PROVE  Deletion(p)'
<1>1. /\ pc[p] = "Validate" /\ job' = job /\ gone' = gone /\ failed' = failed /\ asked' = asked
      /\ base' = base
      /\ \/ job[p].name = None /\ Goto(p, "List") /\ todo' = todo
         \/ job[p].name # None /\ Goto(p, "Delete") /\ todo' = [todo EXCEPT ![p] = {job[p].name}]
  <2>1. job[p].kind = "remove" => job[p].name # None
    BY KindOfJob, NamesAreDisjoint
  <2> QED
    BY <2>1 DEF StartDelete, StartUninstall, StartSource, Deleting, history
<1>2. todo[p] = {} /\ gone[p] = {} /\ failed[p] = {} /\ asked[p] = {} /\ why[p] = "none"
  BY <1>1 DEF Deletion, IInv, ControlInv, Control
<1>3. CASE job[p].name = None /\ Goto(p, "List") /\ todo' = todo
  BY <1>1, <1>2, <1>3, Domains DEF Goto, Deletion, Ended
<1>4. CASE job[p].name # None /\ Goto(p, "Delete") /\ todo' = [todo EXCEPT ![p] = {job[p].name}]
  <2>1. pc'[p] = "Delete" /\ todo'[p] = {job[p].name} /\ Meant(p)' = {job[p].name}
    BY <1>1, <1>4, Domains DEF Goto, Meant
  <2> QED
    BY <1>1, <1>2, <2>1 DEF Deletion, Ended
<1> QED
  BY <1>1, <1>3, <1>4

LEMMA ListingKeeps ==
  ASSUME IInv, Moves, NEW p \in Procs, job[p].kind \in Deleting, Deletion(p),
         NEW kind \in SUBSET Names, ListObjects(p, kind)
  PROVE  Deletion(p)'
<1> DEFINE present == {n \in kind : Exists(n)}
<1>1. /\ pc[p] = "List" /\ job[p].name = None
      /\ todo[p] = {} /\ gone[p] = {} /\ failed[p] = {} /\ asked[p] = {} /\ why[p] = "none"
  BY DEF ListObjects, Deletion, IInv, ControlInv, Control
<1>2. /\ job' = job /\ gone' = gone /\ failed' = failed /\ asked' = asked
      /\ todo'[p] = present /\ base'[p] = {o \in Live : o[1] \in present}
      /\ (present = {} /\ Fail(p, "noResources")) \/ Goto(p, "Delete")
  BY Domains DEF ListObjects
<1>3. {o[1] : o \in base'[p]} = present
  <2>1. ASSUME NEW n \in present PROVE \E o \in base'[p] : o[1] = n
    <3>1. <<n, objs[n].uid>> \in base'[p]
      BY <1>2 DEF Live
    <3> QED
      BY <3>1
  <2> QED
    BY <1>2, <2>1
<1>4. Meant(p)' = present
  BY <1>1, <1>2, <1>3 DEF Meant
<1>5. \/ pc'[p] = "Failed" /\ why'[p] = "noResources"
      \/ pc'[p] = "Delete" /\ why'[p] = "none"
  BY <1>1, <1>2, Domains DEF Fail, Goto
<1> HIDE DEF present
<1> QED
  BY <1>1, <1>2, <1>4, <1>5 DEF Deletion, Ended

\* The run asks for the deletion of n and waits.
LEMMA AskingKeeps ==
  ASSUME IInv, Moves, NEW p \in Procs, job[p].kind \in Deleting, Deletion(p),
         pc[p] = "Delete", NEW n \in todo[p], Goto(p, "WaitGone"), DeleteObject(p, n),
         at' = [at EXCEPT ![p] = n], UNCHANGED <<todo, gone, failed, job>>
  PROVE  Deletion(p)'
<1>1. /\ pc'[p] = "WaitGone" /\ at'[p] = n /\ why' = why /\ base' = base
      /\ asked'[p] = asked[p] \cup {<<n, objs[n].uid>>}
  BY Domains DEF Goto, DeleteObject
<1>2. /\ todo[p] \cup gone[p] \cup failed[p] = Meant(p)
      /\ todo[p] \cap (gone[p] \cup failed[p]) = {} /\ gone[p] \cap failed[p] = {}
      /\ \A o \in asked[p] : o[1] \notin todo[p]
      /\ \A o \in asked[p] : o[1] \in gone[p] => o \notin Live
  BY DEF Deletion
<1>3. Meant(p)' = Meant(p)
  BY <1>1 DEF Meant
<1>4. \A o \in asked'[p] : o[1] \in todo[p] => o[1] = n
  BY <1>1, <1>2
<1>5. \A o \in asked'[p] : o[1] \in gone[p] => o \notin Live'
  BY <1>1, <1>2, GoneStays, AskedIs
<1> QED
  BY <1>1, <1>2, <1>3, <1>4, <1>5 DEF Deletion, Ended

LEMMA RemovingKeeps ==
  ASSUME IInv, Moves, NEW p \in Procs, job[p].kind \in Deleting, Deletion(p),
         DeleteNext(p) \/ WaitForDeletion(p)
  PROVE  Deletion(p)'
<1>0. todo[p] \in SUBSET Names
  BY DEF IInv, RunsInv, LocalInv
<1>1. CASE WaitForDeletion(p)
  <2>1. /\ pc[p] = "WaitGone" /\ ~Exists(at[p]) /\ Deleted(p, at[p]) /\ at[p] \in todo[p]
        /\ UNCHANGED <<objs, job, at, asked, base, failed>>
    BY <1>1 DEF WaitForDeletion, Deleted, history, Deletion
  <2>2. \A o \in asked'[p] : o[1] = at[p] => o \notin Live'
    BY <2>1 DEF Live, Exists
  <2>3. Dealt(p, at[p])
    BY <1>0, <2>1, <2>2 DEF Dealt
  <2> QED
    BY <2>3, DealtKeeps
<1>2. ASSUME NEW n \in todo[p], Missed(p, n) \/ Deleted(p, n), DeleteNext(p),
             UNCHANGED <<objs, made, at, fresh, history>>
      PROVE  Deletion(p)'
  <2>1. pc[p] = "Delete" /\ UNCHANGED <<job, at, asked, base>>
    BY <1>2 DEF DeleteNext, history
  <2>2. \A o \in asked'[p] : o[1] # n
    BY <1>2, <2>1 DEF Deletion
  <2>3. Dealt(p, n)
    BY <1>0, <1>2, <2>1, <2>2 DEF Dealt, Deleted
  <2> QED
    BY <2>3, DealtKeeps
<1>3. ASSUME NEW n \in todo[p], Goto(p, "WaitGone"), DeleteObject(p, n), DeleteNext(p),
             at' = [at EXCEPT ![p] = n], UNCHANGED <<todo, gone, failed>>
      PROVE  Deletion(p)'
  BY <1>3, AskingKeeps DEF DeleteNext
<1> QED
  BY <1>1, <1>2, <1>3 DEF DeleteNext

LEMMA FailuresKeep ==
  ASSUME IInv, Moves, NEW p \in Procs, job[p].kind \in Deleting, Deletion(p),
         CallFails(p) \/ AnswerLost(p)
  PROVE  Deletion(p)'
<1>0. /\ pc[p] \in {"Validate", "List", "Delete", "WaitGone"} \cup Ended /\ todo[p] \in SUBSET Names
      /\ why[p] # "none" => pc[p] = "Failed"
  BY DEF IInv, RunsInv, LocalInv, ControlInv, Control, MayCall, Deleting, Creating, Updating, Calls
<1>1. CASE /\ CallFails(p) /\ pc[p] = "List"
           /\ Fail(p, "call") /\ UNCHANGED <<todo, gone, failed>>
  <2>1. UNCHANGED <<job, asked, base>>
    BY <1>1 DEF CallFails, history
  <2>2. pc'[p] = "Failed" /\ why'[p] = "call"
    BY <1>1, Domains DEF Fail
  <2> QED
    BY <1>1, <2>1, <2>2 DEF Deletion
<1>2. ASSUME NEW n \in todo[p], Missed(p, n), pc[p] = "Delete" \/ (pc[p] = "WaitGone" /\ n = at[p]),
             UNCHANGED <<job, at, base>>, \A o \in asked'[p] : o \in asked[p] \/ o[1] = n
      PROVE  Deletion(p)'
  <2>1. failed[p] # failed'[p]
    <3>1. n \notin failed[p]
      BY <1>2 DEF Deletion
    <3> QED
      BY <1>2, <3>1, Domains DEF Missed
  <2>2. Dealt(p, n)
    BY <1>0, <1>2, <2>1 DEF Dealt
  <2> QED
    BY <2>2, DealtKeeps
<1>3. CASE CallFails(p) /\ pc[p] \in {"Delete", "WaitGone"}
  <2>1. PICK n \in todo[p] : Missed(p, n) /\ (pc[p] = "Delete" \/ (pc[p] = "WaitGone" /\ n = at[p]))
    BY <1>3 DEF CallFails, Deletion
  <2>2. UNCHANGED <<job, at, base, asked>>
    BY <1>3 DEF CallFails, history
  <2> QED
    BY <1>2, <2>1, <2>2
<1>4. CASE AnswerLost(p)
  <2>1. PICK n \in todo[p] : pc[p] = "Delete" /\ DeleteObject(p, n) /\ Missed(p, n)
    BY <1>0, <1>4 DEF AnswerLost, Ended
  <2>2. UNCHANGED <<job, at, base>> /\ \A o \in asked'[p] : o \in asked[p] \/ o[1] = n
    BY <1>4, <2>1, Domains DEF AnswerLost, DeleteObject
  <2> QED
    BY <1>2, <2>1, <2>2
<1>5. CASE CallFails(p) /\ pc[p] \notin {"Delete", "WaitGone"}
  <2>1. pc[p] = "List"
    BY <1>0, <1>5 DEF CallFails, Calls, Ended
  <2>2. Fail(p, "call") /\ UNCHANGED <<todo, gone, failed>>
    BY <1>5, <2>1 DEF CallFails
  <2> QED
    BY <1>1, <1>5, <2>1, <2>2
<1> QED
  BY <1>3, <1>4, <1>5

\* The commands that do not delete anything have another kind.
LEMMA DeletingCommand ==
  ASSUME IInv, NEW p \in Procs, job[p].kind \in Deleting, Command(p)
  PROVE  \/ StartDelete(p) \/ StartUninstall(p) \/ StartSource(p)
         \/ \E kind \in SUBSET Names : ListObjects(p, kind)
         \/ DeleteNext(p) \/ WaitForDeletion(p)
<1>1. ~MayCall(job[p], "Look") /\ ~MayCall(job[p], "ListServing") /\ ~MayCall(job[p], "FindPod")
  BY DEF MayCall, Deleting
<1>2. ~MayCall(job[p], "Forward") /\ ~MayCall(job[p], "Fetch") /\ ~MayCall(job[p], "WaitCleanUp")
  BY DEF MayCall, Deleting
<1>3. MayCall(job[p], pc[p])
  BY DEF IInv, ControlInv, Control
<1>4. ~ReadCommand(p) /\ ~WaitCleanUp(p)
  BY <1>1, <1>2, <1>3 DEF ReadCommand, StartGet, StartSearch, Look, ListServing, FindPod, Forward,
                          Fetch, WaitCleanUp, Deleting
<1>5. CASE CatalogCommand(p)
  <2>1. \/ StartDelete(p) \/ StartSource(p) \/ ListCatalogs(p) \/ DeleteCatalog(p) \/ RemoveSource(p)
    BY <1>5 DEF CatalogCommand, StartCreate, CreateCatalog, WaitServing, StartCatalogUpdate, GetCatalog,
                UpdateCatalog, PullImage, AddSource, WaitReady, CleanUp, Deleting
  <2> QED
    BY <2>1 DEF ListCatalogs, DeleteCatalog, RemoveSource, Names
<1>6. CASE ExtensionCommand(p)
  <2>1. StartUninstall(p) \/ ListExtensions(p) \/ DeleteExtension(p)
    BY <1>4, <1>6 DEF ExtensionCommand, StartExtension, CreateExtension, WaitInstalled, GetExtension,
                      UpdateExtension, WaitUpgraded, Deleting
  <2> QED
    BY <2>1 DEF ListExtensions, DeleteExtension, Names
<1> QED
  BY <1>4, <1>5, <1>6 DEF Command

LEMMA NextKeepsDeletions ==
  ASSUME IInv, DeletionInv, [Next]_allVars
  PROVE  DeletionInv'
<1>1. Moves /\ job' = job
  BY NextMoves
<1> SUFFICES ASSUME NEW q \in Procs, job[q].kind \in Deleting, Deletion(q)
             PROVE  Deletion(q)'
  BY <1>1 DEF DeletionInv
<1>2. ASSUME NEW p \in Procs, Command(p) \/ CallFails(p) \/ AnswerLost(p)
      PROVE  Deletion(q)'
  <2>1. CASE p # q
    BY <1>1, <1>2, <2>1, StepAside, DeletionStays
  <2>2. CASE p = q /\ Command(p)
    BY <1>1, <2>2, DeletingCommand, RemovalStarts, ListingKeeps, RemovingKeeps
  <2>3. CASE p = q /\ (CallFails(p) \/ AnswerLost(p))
    BY <1>1, <2>3, FailuresKeep
  <2> QED
    BY <1>2, <2>1, <2>2, <2>3
<1>3. CASE Controllers \/ RollOut \/ Outsiders \/ UNCHANGED allVars
  BY <1>1, <1>3, OthersAside, DeletionStays
<1> QED
  BY <1>2, <1>3 DEF Next


-----------------------------------------------------------------------------
(***************************************************************************)
(* What the runs write.                                                    *)
(***************************************************************************)

Removes1(p) == \E n \in Names : Exists(n) /\ DeleteObject(p, n)

Makes1(p) ==
  /\ pc[p] = "Create" /\ ~Exists(at[p]) /\ ~job[p].dry /\ made < MaxObjects
  /\ Created(p, NewSpec(p)) /\ at' = at /\ pc'[p] \in {"Wait", "Failed"}

Edits1(p) ==
  /\ pc[p] = "Update" /\ Exists(at[p]) /\ fresh[p]
  /\ Put(at[p], [objs[at[p]] EXCEPT !.spec = ChangedSpec(p)])
  /\ edited' = edited \cup {objs[at[p]].uid} /\ UNCHANGED <<made, worked>>

\* The calls that write, and what.
Writes(p) ==
  \/ UNCHANGED <<objs, made, edited, worked>>
  \/ pc[p] \in {"Delete", "CleanUp"} /\ Removes1(p)
  \/ Makes1(p)
  \/ Edits1(p)

LEMMA WritesNothing ==
  ASSUME NEW p, \/ UNCHANGED <<objs, made, history>>
                \/ \E kind : ListObjects(p, kind)
                \/ UNCHANGED <<objs, made, local, fresh, history>>
  PROVE  Writes(p)
BY DEF ListObjects, Writes, history

LEMMA CreateWrites ==
  ASSUME IInv, NEW p \in Procs, NEW spec, CreateObject(p, spec), spec = NewSpec(p)
  PROVE  Writes(p)
<1>1. CASE UNCHANGED <<objs, made, fresh, history>>
  BY <1>1, WritesNothing
<1>2. CASE ~UNCHANGED <<objs, made, fresh, history>>
  BY <1>2, Domains DEF CreateObject, Goto, Writes, Makes1, local
<1> QED
  BY <1>1, <1>2

LEMMA UpdateWrites ==
  ASSUME IInv, NEW p \in Procs, NEW spec, NEW then, UpdateObject(p, spec, then), spec = ChangedSpec(p)
  PROVE  Writes(p)
BY DEF UpdateObject, Writes, Edits1

LEMMA RemoveWrites ==
  ASSUME IInv, NEW p \in Procs, DeleteNext(p) \/ WaitForDeletion(p)
  PROVE  Writes(p)
<1>1. todo[p] \in SUBSET Names
  BY DEF IInv, RunsInv, LocalInv
<1>2. CASE UNCHANGED <<objs, made, fresh, history>>
  BY <1>2, WritesNothing
<1>3. CASE ~UNCHANGED <<objs, made, fresh, history>>
  BY <1>1, <1>3 DEF DeleteNext, WaitForDeletion, Writes, Removes1
<1> QED
  BY <1>2, <1>3

LEMMA CatalogWrites ==
  ASSUME IInv, NEW p \in Procs, CatalogCommand(p)
  PROVE  Writes(p)
<1>1. CASE \/ StartCreate(p) \/ StartCatalogUpdate(p) \/ StartDelete(p) \/ StartSource(p)
           \/ PullImage(p) \/ WaitServing(p) \/ WaitReady(p) \/ GetCatalog(p) \/ ListCatalogs(p)
  BY <1>1, WritesNothing DEF StartCreate, StartCatalogUpdate, StartDelete, StartSource, PullImage,
                             WaitServing, WaitReady, WaitFor, GetCatalog, ListCatalogs
<1>2. CASE CreateCatalog(p) \/ AddSource(p)
  BY <1>2, CreateWrites DEF CreateCatalog, AddSource, NewSpec
<1>3. CASE UpdateCatalog(p)
  BY <1>3, UpdateWrites DEF UpdateCatalog, ChangedSpec
<1>4. CASE DeleteCatalog(p) \/ RemoveSource(p)
  BY <1>4, RemoveWrites DEF DeleteCatalog, RemoveSource
<1>5. CASE CleanUp(p)
  <2>1. at[p] \in Names
    BY <1>5 DEF CleanUp, Creating, IInv, ControlInv, Control
  <2> QED
    BY <1>5, <2>1, WritesNothing DEF CleanUp, DeleteWithTimeout, Writes, Removes1
<1> QED
  BY <1>1, <1>2, <1>3, <1>4, <1>5 DEF CatalogCommand

LEMMA ExtensionWrites ==
  ASSUME IInv, NEW p \in Procs, ExtensionCommand(p)
  PROVE  Writes(p)
<1>1. CASE \/ StartExtension(p) \/ StartUninstall(p) \/ WaitInstalled(p) \/ WaitUpgraded(p)
           \/ WaitCleanUp(p) \/ GetExtension(p) \/ ListExtensions(p)
  BY <1>1, WritesNothing DEF StartExtension, StartUninstall, WaitInstalled, WaitUpgraded, WaitFor,
                             WaitCleanUp, GetExtension, ListExtensions
<1>2. CASE CreateExtension(p)
  BY <1>2, CreateWrites DEF CreateExtension, NewSpec
<1>3. CASE UpdateExtension(p)
  BY <1>3, UpdateWrites DEF UpdateExtension, ChangedSpec
<1>4. CASE DeleteExtension(p)
  BY <1>4, RemoveWrites DEF DeleteExtension
<1> QED
  BY <1>1, <1>2, <1>3, <1>4 DEF ExtensionCommand

LEMMA StepWrites ==
  ASSUME IInv, NEW p \in Procs, Command(p) \/ CallFails(p) \/ AnswerLost(p)
  PROVE  Writes(p)
<1>1. CASE ReadCommand(p)
  BY <1>1, WritesNothing DEF ReadCommand, StartGet, Look, StartSearch, ListServing, FindPod, Forward, Fetch
<1>2. CASE CallFails(p)
  BY <1>2, WritesNothing DEF CallFails
<1>3. CASE AnswerLost(p)
  <2>1. todo[p] \in SUBSET Names
    BY DEF IInv, RunsInv, LocalInv
  <2> QED
    BY <1>3, <2>1, Domains DEF AnswerLost, Writes, Removes1, Makes1, Edits1, Fail
<1> QED
  BY <1>1, <1>2, <1>3, CatalogWrites, ExtensionWrites DEF Command

-----------------------------------------------------------------------------
(***************************************************************************)
(* What becomes of an object.                                              *)
(***************************************************************************)

\* Who has read the object n has to read it again before an update.
Unread(n) == \A q \in Procs : at[q] = n => ~fresh'[q]

\* A version that the spec asks for was installed.
Chosen(n) == \E w \in worked' : /\ w[2] = objs[n].uid
                                /\ Exact(n) => w[3] = objs[n].spec.version

Change(n) ==
  \/ objs'[n] = objs[n]
  \/ objs'[n].uid = 0 /\ objs'[n].status = {} /\ Unread(n)
  \/ ~Exists(n) /\ objs'[n].uid = made + 1 /\ objs'[n].status = {} /\ Accepted(n, objs'[n].spec)
  \/ /\ Exists(n) /\ objs'[n].uid = objs[n].uid /\ Unread(n)
     /\ \/ objs'[n].spec = objs[n].spec
        \/ Accepted(n, objs'[n].spec) /\ objs[n].uid \in edited'
     /\ "Serving" \in objs'[n].status => Served(n)'
     /\ "Installed" \in objs'[n].status => "Installed" \in objs[n].status \/ Chosen(n)

Changes ==
  /\ edited \subseteq edited' /\ worked \subseteq worked'
  /\ \A n \in Names : Change(n)

LEMMA NoChange ==
  ASSUME UNCHANGED <<objs, edited, worked>>
  PROVE  Changes
BY DEF Changes, Change

LEMMA PutOne ==
  ASSUME IInv, NEW n \in Names, NEW o, Put(n, o)
  PROVE  /\ objs'[n] = o /\ \A m \in Names \ {n} : objs'[m] = objs[m]
         /\ Unread(n)
<1>1. objs = [m \in Names |-> objs[m]]
  BY DEF IInv, ObjectsInv
<1>2. objs' = [m \in Names |-> IF m = n THEN o ELSE objs[m]]
  BY <1>1 DEF Put
<1> QED
  BY <1>2 DEF Put, Written, Unread

LEMMA OneChanges ==
  ASSUME NEW n \in Names, \A m \in Names \ {n} : objs'[m] = objs[m], Change(n),
         edited \subseteq edited', worked \subseteq worked'
  PROVE  Changes
BY DEF Changes, Change

LEMMA RemovedChanges ==
  ASSUME IInv, NEW n \in Names, Put(n, NoObject), edited \subseteq edited', worked \subseteq worked'
  PROVE  Changes
<1>1. /\ objs'[n] = NoObject /\ \A m \in Names \ {n} : objs'[m] = objs[m]
      /\ Unread(n)
  BY PutOne
<1>2. NoObject.uid = 0 /\ NoObject.status = {}
  BY DEF NoObject
<1>3. Change(n)
  BY <1>1, <1>2 DEF Change
<1> QED
  BY <1>1, <1>3, OneChanges

LEMMA MarkedChanges ==
  ASSUME IInv, ServedInv, NEW n \in Names, Exists(n), Put(n, [objs[n] EXCEPT !.deleting = TRUE]),
         edited \subseteq edited', worked \subseteq worked'
  PROVE  Changes
<1>1. PICK o : o = [objs[n] EXCEPT !.deleting = TRUE]
  OBVIOUS
<1>2. o.uid = objs[n].uid /\ o.spec = objs[n].spec /\ o.status = objs[n].status /\ o.bundle = objs[n].bundle
  BY <1>1 DEF IInv, ObjectsInv, IsObject
<1>3. objs'[n] = o /\ Unread(n) /\ \A m \in Names \ {n} : objs'[m] = objs[m]
  BY <1>1, PutOne
<1>4. Change(n)
  BY <1>2, <1>3 DEF Change, ServedInv, Served, Has
<1> QED
  BY <1>3, <1>4, OneChanges

LEMMA EditedChanges ==
  ASSUME IInv, ServedInv, NEW n \in Names, Exists(n), NEW s, Accepted(n, s),
         Put(n, [objs[n] EXCEPT !.spec = s]), edited' = edited \cup {objs[n].uid},
         worked \subseteq worked'
  PROVE  Changes
<1>1. PICK o : o = [objs[n] EXCEPT !.spec = s]
  OBVIOUS
<1>2. o.uid = objs[n].uid /\ o.spec = s /\ o.status = objs[n].status /\ o.bundle = objs[n].bundle
  BY <1>1 DEF IInv, ObjectsInv, IsObject
<1>3. objs'[n] = o /\ Unread(n) /\ \A m \in Names \ {n} : objs'[m] = objs[m]
  BY <1>1, PutOne
<1>4. Change(n)
  BY <1>2, <1>3 DEF Change, ServedInv, Served, Has
<1> QED
  BY <1>3, <1>4, OneChanges

LEMMA MadeChanges ==
  ASSUME IInv, NEW n \in Names, ~Exists(n), NEW s, Accepted(n, s),
         objs' = [objs EXCEPT ![n] = NewObject(s)], UNCHANGED <<edited, worked>>
  PROVE  Changes /\ objs'[n].spec = s
<1>1. /\ NewObject(s).uid = made + 1 /\ NewObject(s).status = {} /\ NewObject(s).spec = s
  BY DEF NewObject
<1>2. objs = [m \in Names |-> objs[m]]
  BY DEF IInv, ObjectsInv
<1>3. objs' = [m \in Names |-> IF m = n THEN NewObject(s) ELSE objs[m]]
  BY <1>2
<1>4. Change(n)
  BY <1>1, <1>3 DEF Change
<1> QED
  BY <1>1, <1>3, <1>4, OneChanges

LEMMA ReportedChanges ==
  ASSUME IInv, NEW n \in Names, Exists(n), NEW c, NEW b, Report(n, c, b),
         "Serving" \in c => b \in DOMAIN Contents,
         "Installed" \in c => \/ "Installed" \in objs[n].status
                              \/ b # "" /\ (Exact(n) => b = objs[n].spec.version)
  PROVE  Changes
<1>1. PICK o : o = [objs[n] EXCEPT !.status = c, !.bundle = b]
  OBVIOUS
<1>2. o.uid = objs[n].uid /\ o.spec = objs[n].spec /\ o.status = c /\ o.bundle = b
  BY <1>1 DEF IInv, ObjectsInv, IsObject
<1>3. objs'[n] = o /\ Unread(n) /\ \A m \in Names \ {n} : objs'[m] = objs[m]
  BY <1>1, PutOne DEF Report
<1>4. edited' = edited /\ worked \subseteq worked' /\ (b # "" => <<n, objs[n].uid, b>> \in worked')
  BY DEF Report
<1>5. "Installed" \in c => "Installed" \in objs[n].status \/ Chosen(n)
  BY <1>4 DEF Chosen
<1>6. "Serving" \in c => Served(n)'
  BY <1>2, <1>3, <1>4, ContentsAreTyped DEF Served
<1>7. Change(n)
  BY <1>2, <1>3, <1>5, <1>6 DEF Change
<1> QED
  BY <1>3, <1>4, <1>7, OneChanges


-----------------------------------------------------------------------------
(***************************************************************************)
(* The specs that commands write are accepted.                             *)
(***************************************************************************)

LEMMA BuiltCatalog ==
  ASSUME NEW o, o.poll = Unset \/ o.poll \in Int, o.priority = Unset \/ o.priority \in Int,
         NEW n \in Catalogs
  PROVE  Accepted(n, buildCatalog(o))
<1>1. PICK c : c = buildCatalog(o)
  OBVIOUS
<1>2. DOMAIN c = {"priority", "poll", "image", "mode", "labels"}
  BY <1>1 DEF buildCatalog
<1>3. c.mode \in {"Available", "Unavailable"}
  BY <1>1 DEF buildCatalog, Filled, AvailabilityMode
<1>4. c.poll \notin {0, -1} /\ c.priority \in Int
  BY <1>1, NilIsNoNumber DEF buildCatalog, Given
<1> QED
  BY <1>1, <1>2, <1>3, <1>4, NamesAreDisjoint DEF Accepted

LEMMA BuiltExtension ==
  ASSUME NEW o, NEW n \in Extensions
  PROVE  Accepted(n, buildClusterExtension(o)) /\ buildClusterExtension(o).version = o.version
<1>1. PICK e : e = buildClusterExtension(o)
  OBVIOUS
<1>2. /\ DOMAIN e = {"version", "channels", "selector", "policy", "safety", "labels"}
      /\ e.version = o.version
  BY <1>1 DEF buildClusterExtension
<1> QED
  BY <1>1, <1>2, NamesAreDisjoint DEF Accepted

\* What an update does to the numbers and the mode of a catalog.
LEMMA UpdatedCatalogAccepted ==
  ASSUME NEW o, o.priority = Unset \/ o.priority \in Int, NEW n \in Catalogs, NEW c, Accepted(n, c)
  PROVE  Accepted(n, UpdatedCatalog(o, c))
<1>1. PICK d : d = CatalogDefaults(o, c)
  OBVIOUS
<1>2. PICK u : u = UpdatedCatalog(o, c)
  OBVIOUS
<1>3. /\ DOMAIN u = {"priority", "poll", "image", "mode", "labels"}
      /\ u.mode = Filled(d.mode, "Available") /\ u.priority = Given(d.priority, c.priority)
      /\ u.poll = IF d.poll \in {0, -1} THEN Unset ELSE Given(d.poll, c.poll)
  BY <1>1, <1>2 DEF UpdatedCatalog
<1>4. /\ d.mode \in {AvailabilityMode(o), Filled(AvailabilityMode(o), c.mode)}
      /\ d.priority \in {o.priority, Given(o.priority, c.priority)}
  <2>1. CASE o.ignoreUnset
    BY <1>1, <2>1 DEF CatalogDefaults
  <2>2. CASE ~o.ignoreUnset
    BY <1>1, <2>2 DEF CatalogDefaults
  <2> QED
    BY <2>1, <2>2
<1>5. u.mode \in {"Available", "Unavailable"}
  BY <1>3, <1>4 DEF Filled, AvailabilityMode, Accepted
<1>6. u.poll \notin {0, -1} /\ u.priority \in Int
  BY <1>3, <1>4, NilIsNoNumber DEF Given, Accepted
<1> QED
  BY <1>2, <1>3, <1>5, <1>6, NamesAreDisjoint DEF Accepted

LEMMA UpdatedExtensionAccepted ==
  ASSUME NEW o, NEW n \in Extensions, NEW e
  PROVE  Accepted(n, UpdatedExtension(ExtensionDefaults(o, e), e))
<1>1. PICK d : d = ExtensionDefaults(o, e)
  OBVIOUS
<1>2. DOMAIN d = {"version", "channels", "selector", "policy", "safety", "labels"}
  <2>1. CASE o.ignoreUnset
    BY <1>1, <2>1 DEF ExtensionDefaults
  <2>2. CASE ~o.ignoreUnset
    BY <1>1, <2>2 DEF ExtensionDefaults
  <2> QED
    BY <2>1, <2>2
<1>3. PICK u : u = UpdatedExtension(d, e)
  OBVIOUS
<1>4. DOMAIN u = DOMAIN d
  BY <1>3 DEF UpdatedExtension
<1> QED
  BY <1>1, <1>2, <1>3, <1>4, NamesAreDisjoint DEF Accepted

LEMMA NewSpecAccepted ==
  ASSUME IInv, NEW p \in Procs, pc[p] = "Create"
  PROVE  at[p] \in Names /\ Accepted(at[p], NewSpec(p))
<1>1. job[p] \in Jobs /\ job[p].kind \in Creating /\ at[p] = job[p].name /\ at[p] \in Names
  BY DEF IInv, RunsInv, LocalInv, ControlInv, Control, MayCall, Creating
<1>2. CASE job[p].kind = "create"
  BY <1>1, <1>2, JobsAreTyped, BuiltCatalog DEF NewSpec
<1>3. CASE job[p].kind = "add"
  BY <1>1, <1>3, JobsAreTyped, NamesAreDisjoint DEF Accepted
<1>4. CASE job[p].kind = "install"
  <2>1. at[p] \in Extensions
    BY <1>1, <1>4, JobsAreTyped
  <2>2. NewSpec(p) = buildClusterExtension(job[p].opts)
    BY <1>4 DEF NewSpec
  <2> QED
    BY <1>1, <2>1, <2>2, BuiltExtension
<1> QED
  BY <1>1, <1>2, <1>3, <1>4 DEF Creating

\* A run that may update has read what is there.
LEMMA UpdatingRun ==
  ASSUME IInv, UpdateInv, NEW p \in Procs, pc[p] = "Update"
  PROVE  /\ job[p] \in Jobs /\ job[p].kind \in Updating /\ at[p] = job[p].name /\ at[p] \in Names
         /\ fresh[p] => Exists(at[p]) /\ read[p] = objs[at[p]].spec
         /\ fresh[p] /\ job[p].kind = "upgrade" => read[p].safety # Unset
         /\ job[p].kind = "update" => at[p] \in Catalogs
         /\ job[p].kind = "upgrade" => at[p] \in Extensions
<1>1. job[p] \in Jobs /\ job[p].kind \in Updating /\ at[p] = job[p].name /\ at[p] \in Names
  BY DEF IInv, RunsInv, LocalInv, ControlInv, Control, MayCall, Updating
<1> QED
  BY <1>1, JobsAreTyped DEF UpdateInv, Updated

LEMMA ChangedSpecAccepted ==
  ASSUME IInv, UpdateInv, SpecInv, NEW p \in Procs, pc[p] = "Update", fresh[p], Exists(at[p])
  PROVE  at[p] \in Names /\ Accepted(at[p], ChangedSpec(p))
<1>1. Accepted(at[p], read[p]) /\ at[p] \in Names
  BY UpdatingRun DEF SpecInv
<1>2. CASE job[p].kind = "update"
  <2>1. ChangedSpec(p) = UpdatedCatalog(job[p].opts, read[p]) /\ at[p] \in Catalogs
    BY <1>2, UpdatingRun DEF ChangedSpec
  <2>2. job[p].opts.priority = Unset \/ job[p].opts.priority \in Int
    BY <1>2, UpdatingRun, JobsAreTyped
  <2> QED
    BY <1>1, <2>1, <2>2, UpdatedCatalogAccepted
<1>3. CASE job[p].kind = "upgrade"
  <2>1. /\ ChangedSpec(p) = UpdatedExtension(ExtensionDefaults(job[p].opts, read[p]), read[p])
        /\ at[p] \in Extensions
    BY <1>3, UpdatingRun DEF ChangedSpec, Wanted
  <2> QED
    BY <1>1, <2>1, UpdatedExtensionAccepted
<1> QED
  BY <1>2, <1>3, UpdatingRun DEF Updating

-----------------------------------------------------------------------------
(***************************************************************************)
(* Every step changes the objects as Changes allows.                       *)
(***************************************************************************)

LEMMA RunChanges ==
  ASSUME IInv, UpdateInv, SpecInv, ServedInv, NEW p \in Procs, Writes(p)
  PROVE  Changes
<1>1. CASE UNCHANGED <<objs, made, edited, worked>>
  BY <1>1, NoChange
<1>2. CASE Removes1(p)
  <2>1. PICK n \in Names : Exists(n) /\ DeleteObject(p, n)
    BY <1>2 DEF Removes1
  <2>2. \/ UNCHANGED objs
        \/ Put(n, NoObject)
        \/ Put(n, [objs[n] EXCEPT !.deleting = TRUE])
    BY <2>1 DEF DeleteObject
  <2>3. UNCHANGED <<edited, worked>>
    BY <2>1 DEF DeleteObject
  <2> QED
    BY <2>1, <2>2, <2>3, NoChange, RemovedChanges, MarkedChanges
<1>3. CASE Makes1(p)
  <2>1. /\ ~Exists(at[p]) /\ UNCHANGED <<edited, worked>>
        /\ objs' = [objs EXCEPT ![at[p]] = NewObject(NewSpec(p))]
    BY <1>3 DEF Makes1, Created
  <2>2. at[p] \in Names /\ Accepted(at[p], NewSpec(p))
    BY <1>3, NewSpecAccepted DEF Makes1
  <2> QED
    BY <2>1, <2>2, MadeChanges
<1>4. CASE Edits1(p)
  <2>1. at[p] \in Names /\ Accepted(at[p], ChangedSpec(p))
    BY <1>4, ChangedSpecAccepted DEF Edits1
  <2> QED
    BY <1>4, <2>1, EditedChanges DEF Edits1
<1> QED
  BY <1>1, <1>2, <1>3, <1>4 DEF Writes

\* A serving catalog has no version that is an empty string.
LEMMA OfferedVersions ==
  ASSUME ServedInv, NEW e, NEW v \in Offered(e)
  PROVE  v # ""
<1>1. PICK c \in Catalogs : /\ Has(c, "Serving")
                            /\ \E b \in ToSet(Contents[objs[c].bundle].bundles) :
                                 b.package = Package /\ v = b.version
  BY DEF Offered
<1> QED
  BY <1>1, ContentsAreTyped DEF ServedInv, Served, Names

LEMMA ControllerChanges ==
  ASSUME IInv, ServedInv, Controllers
  PROVE  Changes
<1>1. ASSUME NEW c \in Catalogs, Serve(c) \/ StopServing(c) PROVE Changes
  <2>1. c \in Names /\ Exists(c)
    BY <1>1 DEF Names, Serve, StopServing, Living
  <2>2. CASE Serve(c)
    BY <2>1, <2>2, ReportedChanges DEF Serve, Servable
  <2>3. CASE StopServing(c)
    BY <2>1, <2>3, ReportedChanges DEF StopServing
  <2> QED
    BY <1>1, <2>2, <2>3
<1>2. ASSUME NEW e \in Extensions, Progress(e) PROVE Changes
  <2>1. e \in Names /\ Exists(e) /\ ("Serving" \in objs[e].status => objs[e].bundle \in DOMAIN Contents)
    BY <1>2 DEF Names, Progress, Living, ServedInv, Served, Has
  <2> QED
    BY <1>2, <2>1, ReportedChanges DEF Progress
<1>3. ASSUME NEW e \in Extensions, InstallBundle(e) PROVE Changes
  <2>1. e \in Names /\ Exists(e)
    BY <1>3 DEF Names, InstallBundle, Living
  <2>2. PICK v \in Resolvable(e) : Report(e, {"Succeeded", "Installed"}, v)
    BY <1>3 DEF InstallBundle
  <2>3. v # "" /\ (Exact(e) => v = objs[e].spec.version)
    BY OfferedVersions DEF Resolvable
  <2> QED
    BY <2>1, <2>2, <2>3, ReportedChanges
<1>4. ASSUME NEW s \in Sources, Connect(s) PROVE Changes
  <2>1. s \in Names /\ Exists(s)
    BY <1>4 DEF Names, Connect, Living
  <2> QED
    BY <1>4, <2>1, ReportedChanges DEF Connect
<1>5. ASSUME NEW n \in Names, Finalize(n) PROVE Changes
  BY <1>5, RemovedChanges DEF Finalize, history
<1> QED
  BY <1>1, <1>2, <1>3, <1>4, <1>5 DEF Controllers

LEMMA OutsiderChanges ==
  ASSUME IInv, ServedInv, Outsiders
  PROVE  Changes
<1>1. PICK n \in Touchable :
        OutsideDelete(n) \/ \E spec \in NewSpecs[n] : OutsideCreate(n, spec) \/ OutsideEdit(n, spec)
  BY DEF Outsiders
<1>2. n \in Names /\ worked' = worked /\ \A spec \in NewSpecs[n] : Accepted(n, spec)
  BY OldsAreTyped, SpecsAreAccepted DEF Outsiders
<1>3. CASE OutsideDelete(n)
  <2>1. Exists(n) /\ edited' = edited
        /\ (Put(n, NoObject) \/ Put(n, [objs[n] EXCEPT !.deleting = TRUE]))
    BY <1>3 DEF OutsideDelete, Living
  <2> QED
    BY <1>2, <2>1, RemovedChanges, MarkedChanges
<1>4. ASSUME NEW spec \in NewSpecs[n], OutsideCreate(n, spec) PROVE Changes
  BY <1>2, <1>4, MadeChanges DEF OutsideCreate
<1>5. ASSUME NEW spec \in NewSpecs[n], OutsideEdit(n, spec) PROVE Changes
  BY <1>2, <1>5, EditedChanges DEF OutsideEdit
<1> QED
  BY <1>1, <1>3, <1>4, <1>5

LEMMA NextChanges ==
  ASSUME IInv, UpdateInv, SpecInv, ServedInv, [Next]_allVars
  PROVE  Changes
<1>1. ASSUME NEW p \in Procs, Command(p) \/ CallFails(p) \/ AnswerLost(p)
      PROVE  Changes
  BY <1>1, StepWrites, RunChanges
<1>2. CASE RollOut \/ UNCHANGED allVars
  BY <1>2, NoChange DEF RollOut, allVars, vars, history
<1> QED
  BY <1>1, <1>2, ControllerChanges, OutsiderChanges DEF Next

LEMMA NextKeepsObjects ==
  ASSUME SpecInv, ServedInv, Changes
  PROVE  SpecInv' /\ ServedInv'
<1> SUFFICES ASSUME NEW n \in Names
             PROVE  /\ Exists(n)' => Accepted(n, objs[n].spec)'
                    /\ Has(n, "Serving")' => Served(n)'
  BY DEF SpecInv, ServedInv
<1>1. Change(n) /\ (Exists(n) => Accepted(n, objs[n].spec))
      /\ (Has(n, "Serving") => Served(n)) /\ worked \subseteq worked'
  BY DEF Changes, SpecInv, ServedInv
<1>2. Accepted(n, objs[n].spec)' <=> Accepted(n, objs'[n].spec)
  BY DEF Accepted
<1> QED
  BY <1>1, <1>2 DEF Change, Served, Exists, Has


-----------------------------------------------------------------------------
(***************************************************************************)
(* Updates: what a run has read.                                           *)
(***************************************************************************)

\* The run reads the object and goes on to the update if there is something to
\* write to it.
ReadsObject(p) ==
  /\ UNCHANGED objs /\ at'[p] = at[p] /\ Exists(at[p]) /\ read'[p] = objs[at[p]].spec
  /\ pc'[p] = "Update" /\ job[p].kind = "upgrade" => objs[at[p]].spec.safety # Unset

\* It does not read anything.
Onward(p) ==
  /\ at'[p] = at[p] /\ read'[p] = read[p] /\ (fresh'[p] => fresh[p])
  /\ pc'[p] = "Update" => pc[p] = "Update"

LEMMA ReadStays ==
  ASSUME IInv, Changes, job' = job, NEW p \in Procs, job[p].kind \in Updating, Updated(p),
         Onward(p) \/ ReadsObject(p)
  PROVE  Updated(p)'
<1>1. CASE ReadsObject(p)
  BY <1>1 DEF ReadsObject, Updated, Exists
<1>2. CASE Onward(p) /\ fresh'[p]
  <2>1. at[p] \in Names
    BY DEF IInv, ControlInv, Control
  <2>2. Change(at[p]) /\ Exists(at[p]) /\ ~Unread(at[p])
    BY <1>2, <2>1 DEF Changes, Updated, Onward, Unread
  <2>3. objs'[at[p]] = objs[at[p]]
    BY <2>2 DEF Change
  <2> QED
    BY <1>2, <2>3 DEF Updated, Onward, Exists
<1>3. CASE ~fresh'[p]
  BY <1>3 DEF Updated
<1> QED
  BY <1>1, <1>2, <1>3

LEMMA UpdateMoves ==
  ASSUME IInv, NEW p \in Procs, NEW spec, NEW then \in {"Done", "Wait"}, UpdateObject(p, spec, then)
  PROVE  Onward(p)
BY Domains DEF UpdateObject, Put, Written, Goto, Fail, local, Onward

LEMMA UpdatingMoves ==
  ASSUME IInv, NEW p \in Procs, job[p].kind \in Updating,
         Command(p) \/ CallFails(p) \/ AnswerLost(p)
  PROVE  Onward(p) \/ ReadsObject(p)
<1>0. /\ pc[p] \in {"Validate", "Get", "Update", "Wait"} \cup Ended
      /\ job[p].kind \notin Creating \cup Deleting \cup {"get", "search"}
  <2>1. job[p].kind \notin Creating \cup Deleting \cup {"get", "search"}
    BY DEF Creating, Deleting, Updating
  <2> QED
    BY <2>1 DEF IInv, RunsInv, ControlInv, Control, MayCall, Creating, Calls
<1>1. CASE StartCatalogUpdate(p) \/ StartExtension(p)
  BY <1>1, Domains DEF StartCatalogUpdate, StartExtension, Goto, Fail, local, Onward
<1>2. CASE GetCatalog(p)
  <2>1. CASE Exists(at[p])
    <3>1. job[p].kind # "upgrade"
      BY <1>2 DEF GetCatalog
    <3> QED
      BY <1>2, <2>1, <3>1, Domains DEF GetCatalog, GetObject, ReadsObject
  <2>2. CASE ~Exists(at[p])
    BY <1>2, <2>2, Domains DEF GetCatalog, Fail, Onward
  <2> QED
    BY <2>1, <2>2
<1>3. CASE GetExtension(p)
  <2>1. CASE Exists(at[p])
    <3>1. UNCHANGED <<objs, at>> /\ read'[p] = objs[at[p]].spec
      BY <1>3, <2>1, Domains DEF GetExtension, GetObject
    <3>2. pc'[p] = "Update" => objs[at[p]].spec.safety # Unset
      BY <1>3, <2>1, Domains DEF GetExtension, Fail
    <3> QED
      BY <2>1, <3>1, <3>2 DEF ReadsObject
  <2>2. CASE ~Exists(at[p])
    BY <1>3, <2>2, Domains DEF GetExtension, Fail, Onward
  <2> QED
    BY <2>1, <2>2
<1>4. CASE UpdateCatalog(p) \/ UpdateExtension(p)
  BY <1>4, UpdateMoves DEF UpdateCatalog, UpdateExtension
<1>5. CASE WaitUpgraded(p)
  BY <1>5, Domains DEF WaitUpgraded, WaitFor, Goto, Fail, local, Onward
<1>6. CASE CallFails(p)
  <2>1. pc[p] = "Wait" => job[p].kind = "upgrade"
    BY DEF IInv, ControlInv, Control, MayCall, Creating, Updating
  <2> QED
    BY <1>0, <1>6, <2>1, Domains DEF CallFails, AfterWait, Fail, Onward, Ended
<1>7. CASE AnswerLost(p)
  <2>1. pc[p] = "Update"
    BY <1>0, <1>7 DEF AnswerLost, Ended
  <2> QED
    BY <1>7, <2>1, Domains DEF AnswerLost, Put, Written, Fail, Onward
<1>8. ~ReadCommand(p) /\ ~WaitCleanUp(p)
  BY <1>0 DEF ReadCommand, StartGet, Look, StartSearch, ListServing, FindPod, Forward, Fetch,
              WaitCleanUp, Ended
<1>9. CASE CatalogCommand(p)
  <2>1. StartCatalogUpdate(p) \/ GetCatalog(p) \/ UpdateCatalog(p)
    BY <1>0, <1>9 DEF CatalogCommand, StartCreate, CreateCatalog, WaitServing, StartDelete, ListCatalogs,
                      DeleteCatalog, StartSource, PullImage, AddSource, WaitReady, RemoveSource, CleanUp,
                      Creating, Deleting
  <2> QED
    BY <1>1, <1>2, <1>4, <2>1
<1>10. CASE ExtensionCommand(p)
  <2>1. StartExtension(p) \/ GetExtension(p) \/ UpdateExtension(p) \/ WaitUpgraded(p)
    BY <1>0, <1>8, <1>10 DEF ExtensionCommand, CreateExtension, WaitInstalled, StartUninstall,
                             ListExtensions, DeleteExtension, Creating, Deleting
  <2> QED
    BY <1>1, <1>3, <1>4, <1>5, <2>1
<1> QED
  BY <1>6, <1>7, <1>8, <1>9, <1>10 DEF Command

LEMMA NextKeepsReadings ==
  ASSUME IInv, UpdateInv, Changes, [Next]_allVars
  PROVE  UpdateInv'
<1>1. job' = job
  BY NextMoves
<1> SUFFICES ASSUME NEW q \in Procs, job[q].kind \in Updating, Updated(q)
             PROVE  Updated(q)'
  BY <1>1 DEF UpdateInv
<1>2. ASSUME NEW p \in Procs, Command(p) \/ CallFails(p) \/ AnswerLost(p)
      PROVE  Onward(q) \/ ReadsObject(q)
  <2>1. CASE p # q
    BY <1>2, <2>1, StepAside DEF Aside, Onward
  <2>2. CASE p = q
    BY <1>2, <2>2, UpdatingMoves
  <2> QED
    BY <2>1, <2>2
<1>3. ASSUME Controllers \/ RollOut \/ Outsiders \/ UNCHANGED allVars
      PROVE  Onward(q)
  BY <1>3, OthersAside DEF Aside, Onward
<1> QED
  BY <1>1, <1>2, <1>3, ReadStays DEF Next

-----------------------------------------------------------------------------
(***************************************************************************)
(* Installs: what becomes of the run's extension.                          *)
(***************************************************************************)

\* What a run that creates nothing in this step has to observe.
InstallGoesOn(p) ==
  /\ mine'[p] = mine[p]
  /\ pc'[p] = "Create" => pc[p] = "Create" \/ job[p].opts.version \notin Foreign
  /\ pc'[p] = "Done" => pc[p] = "Done" \/ mine[p] = 0 \/ Has(at[p], "Installed")

LEMMA SeenStays ==
  ASSUME NEW p \in Procs, SeenInstalled(p), Changes, job' = job, mine'[p] = mine[p]
  PROVE  SeenInstalled(p)'
BY DEF SeenInstalled, Changes

LEMMA InstallStays ==
  ASSUME IInv, Moves, Changes, job' = job, NEW p \in Procs, job[p].kind = "install",
         Installing(p), InstallGoesOn(p)
  PROVE  Installing(p)'
<1>1. mine[p] \in Nat /\ mine[p] <= made /\ made \in Nat
  BY DEF IInv, HistoryInv, ObjectsInv
<1>2. pc'[p] = "Create" \/ mine'[p] # 0 => job'[p].opts.version \notin Foreign
  BY DEF Installing, InstallGoesOn
<1>3. ASSUME NEW n \in Names, Exists(n)', objs'[n].uid = mine'[p]
      PROVE  /\ mine'[p] \in edited' \/ objs'[n].spec.version = job'[p].opts.version
             /\ "Installed" \in objs'[n].status \/ pc'[p] = "Done" => SeenInstalled(p)'
  <2>1. /\ Exists(n) /\ objs[n].uid = mine[p] /\ n = at[p] /\ mine[p] # 0
        /\ \/ objs'[n] = objs[n]
           \/ /\ objs'[n].spec = objs[n].spec \/ objs[n].uid \in edited'
              /\ "Installed" \in objs'[n].status => "Installed" \in objs[n].status \/ Chosen(n)
    BY <1>1, <1>3 DEF Changes, Change, Exists, InstallGoesOn, IInv, OwnInv
  <2>2. /\ mine[p] \in edited \/ objs[n].spec.version = job[p].opts.version
        /\ "Installed" \in objs[n].status \/ pc[p] = "Done" => SeenInstalled(p)
        /\ job[p].opts.version \notin Foreign
    BY <2>1 DEF Installing
  <2>3. mine'[p] \in edited' \/ objs'[n].spec.version = job'[p].opts.version
    BY <2>1, <2>2 DEF Changes, InstallGoesOn
  <2>4. Chosen(n) => SeenInstalled(p)'
    BY <2>1, <2>2 DEF Chosen, SeenInstalled, Exact, Changes, InstallGoesOn
  <2>5. pc'[p] = "Done" => pc[p] = "Done" \/ "Installed" \in objs[n].status
    BY <2>1 DEF InstallGoesOn, Has
  <2> QED
    BY <2>1, <2>2, <2>3, <2>4, <2>5, SeenStays DEF InstallGoesOn
<1> QED
  BY <1>2, <1>3 DEF Installing

LEMMA InstallMade ==
  ASSUME IInv, job' = job, NEW p \in Procs, job[p].kind = "install", Installing(p), Makes1(p)
  PROVE  Installing(p)'
<1>1. at[p] \in Extensions /\ at[p] \in Names
  BY JobsAreTyped DEF IInv, RunsInv, LocalInv, ControlInv, Control, Creating, Names
<1>2. /\ mine'[p] = made + 1 /\ made \in Nat
      /\ pc'[p] \in {"Wait", "Failed"} /\ job[p].opts.version \notin Foreign
  BY Domains DEF Makes1, Created, Installing, IInv, ObjectsInv
<1>3. objs' = [objs EXCEPT ![at[p]] = NewObject(NewSpec(p))]
  BY DEF Makes1, Created
<1>4. PICK o : o = NewObject(NewSpec(p))
  OBVIOUS
<1>5. o.status = {} /\ o.spec.version = job[p].opts.version
  <2>1. NewSpec(p) = buildClusterExtension(job[p].opts)
    BY DEF NewSpec
  <2>2. o.spec = NewSpec(p) /\ o.status = {}
    BY <1>4 DEF NewObject
  <2> QED
    BY <1>1, <2>1, <2>2, BuiltExtension
<1>6. ASSUME NEW n \in Names, objs'[n].uid = mine'[p] PROVE objs'[n] = o
  <2>1. objs[n].uid # made + 1
    BY <1>2 DEF IInv, ObjectsInv, IsObject
  <2>2. objs = [m \in Names |-> objs[m]]
    BY DEF IInv, ObjectsInv
  <2> QED
    BY <1>2, <1>3, <1>4, <1>6, <2>1, <2>2
<1> QED
  BY <1>2, <1>5, <1>6 DEF Installing

LEMMA InstallMoves ==
  ASSUME IInv, NEW p \in Procs, job[p].kind = "install",
         Command(p) \/ CallFails(p) \/ AnswerLost(p)
  PROVE  Makes1(p) \/ InstallGoesOn(p)
<1>0. /\ pc[p] \in {"Validate", "Pull", "Create", "Wait", "WaitCleanUp"} \cup Ended
      /\ job[p].kind \notin Updating \cup Deleting \cup {"get", "search"}
  <2>1. job[p].kind \notin Updating \cup Deleting \cup {"get", "search"}
    BY DEF Deleting, Updating
  <2> QED
    BY <2>1 DEF IInv, RunsInv, ControlInv, Control, MayCall, Calls
<1>1. CASE StartExtension(p)
  BY <1>1, Domains DEF StartExtension, ValidExtensionFlags, Goto, Fail, history, InstallGoesOn
<1>2. CASE CreateExtension(p)
  <2>1. pc[p] = "Create" /\ (UNCHANGED <<mine, at>> \/ Makes1(p))
    BY <1>2, Domains DEF CreateExtension, CreateObject, NewSpec, Makes1, Goto, local, history
  <2>2. job[p].dry => mine[p] = 0
    BY DEF IInv, OwnInv, Stage, Creates
  <2> QED
    BY <1>2, <2>1, <2>2, Domains DEF CreateExtension, CreateObject, Goto, Fail, InstallGoesOn
<1>3. CASE WaitInstalled(p)
  BY <1>3, Domains DEF WaitInstalled, WaitFor, Goto, history, InstallGoesOn
<1>4. CASE WaitCleanUp(p)
  BY <1>4, Domains DEF WaitCleanUp, Fail, history, InstallGoesOn
<1>5. CASE CallFails(p)
  BY <1>0, <1>5, Domains DEF CallFails, AfterWait, Goto, Fail, history, InstallGoesOn, Ended
<1>6. CASE AnswerLost(p)
  BY <1>0, <1>6, Domains DEF AnswerLost, Fail, Makes1, Ended
<1>7. ~ReadCommand(p)
  BY <1>0 DEF ReadCommand, StartGet, Look, StartSearch, ListServing, FindPod, Forward, Fetch, Ended
<1>8. ~CatalogCommand(p)
  BY <1>0 DEF CatalogCommand, StartCreate, CreateCatalog, WaitServing, StartCatalogUpdate, GetCatalog,
              UpdateCatalog, StartDelete, ListCatalogs, DeleteCatalog, StartSource, PullImage,
              AddSource, WaitReady, RemoveSource, CleanUp, Deleting, Updating
<1>9. CASE ExtensionCommand(p)
  <2>1. StartExtension(p) \/ CreateExtension(p) \/ WaitInstalled(p) \/ WaitCleanUp(p)
    BY <1>0, <1>9 DEF ExtensionCommand, GetExtension, UpdateExtension, WaitUpgraded, StartUninstall,
                      ListExtensions, DeleteExtension, Deleting, Updating
  <2> QED
    BY <1>1, <1>2, <1>3, <1>4, <2>1
<1> QED
  BY <1>5, <1>6, <1>7, <1>8, <1>9 DEF Command

LEMMA NextKeepsInstalls ==
  ASSUME IInv, InstallInv, Changes, [Next]_allVars
  PROVE  InstallInv'
<1>1. Moves /\ job' = job
  BY NextMoves
<1> SUFFICES ASSUME NEW q \in Procs, job[q].kind = "install", Installing(q)
             PROVE  Installing(q)'
  BY <1>1 DEF InstallInv
<1>2. ASSUME NEW p \in Procs, Command(p) \/ CallFails(p) \/ AnswerLost(p)
      PROVE  Makes1(q) \/ InstallGoesOn(q)
  <2>1. CASE p # q
    BY <1>2, <2>1, StepAside DEF Aside, InstallGoesOn
  <2>2. CASE p = q
    BY <1>2, <2>2, InstallMoves
  <2> QED
    BY <2>1, <2>2
<1>3. ASSUME Controllers \/ RollOut \/ Outsiders \/ UNCHANGED allVars
      PROVE  InstallGoesOn(q)
  BY <1>3, OthersAside DEF Aside, InstallGoesOn
<1> QED
  BY <1>1, <1>2, <1>3, InstallStays, InstallMade DEF Next

-----------------------------------------------------------------------------
(***************************************************************************)
(* OutcomesInv is an invariant.                                            *)
(***************************************************************************)

LEMMA InitOutcomes == Init => OutcomesInv
<1> SUFFICES ASSUME Init PROVE OutcomesInv
  OBVIOUS
<1>1. /\ pc = [p \in Procs |-> "Validate"] /\ why = [p \in Procs |-> "none"]
      /\ mine = [p \in Procs |-> 0] /\ fresh = [p \in Procs |-> FALSE]
      /\ todo = Nothing /\ gone = Nothing /\ failed = Nothing /\ asked = Nothing
  BY DEF Init
<1>2. DeletionInv
  BY <1>1 DEF DeletionInv, Deletion, Nothing, Ended
<1>3. InstallInv
  BY <1>1 DEF InstallInv, Installing, Exists
<1>4. UpdateInv
  BY <1>1 DEF UpdateInv, Updated
<1>5. PICK S \in SUBSET DOMAIN Olds : objs = OldObjects(S)
  BY DEF Init
<1>6. ASSUME NEW n \in Names, Exists(n)
      PROVE  Accepted(n, objs[n].spec) /\ (Has(n, "Serving") => Served(n))
  <2>1. n \in S
    <3>1. n \notin S => objs[n].uid = 0
      BY <1>5 DEF OldObjects, NoObject
    <3> QED
      BY <1>6, <3>1 DEF Exists
  <2>2. /\ objs[n].spec = Olds[n].spec /\ objs[n].status = Olds[n].status
        /\ objs[n].bundle = Olds[n].bundle
    BY <1>5, <2>1 DEF OldObjects
  <2>3. <<n, objs[n].uid, objs[n].bundle>> \in worked
    BY <1>6 DEF Init
  <2> QED
    BY <2>1, <2>2, <2>3, SpecsAreAccepted, ContentsAreTyped DEF Has, Served
<1>7. SpecInv /\ ServedInv
  BY <1>6 DEF SpecInv, ServedInv, Has
<1> QED
  BY <1>2, <1>3, <1>4, <1>7 DEF OutcomesInv

LEMMA NextKeepsOutcomes == IInv /\ OutcomesInv /\ [Next]_allVars => OutcomesInv'
<1> SUFFICES ASSUME IInv, OutcomesInv, [Next]_allVars PROVE OutcomesInv'
  OBVIOUS
<1>1. DeletionInv /\ InstallInv /\ UpdateInv /\ SpecInv /\ ServedInv
  BY DEF OutcomesInv
<1>2. Changes
  BY <1>1, NextChanges
<1>3. DeletionInv' /\ InstallInv'
  BY <1>1, <1>2, NextKeepsDeletions, NextKeepsInstalls
<1>4. UpdateInv' /\ SpecInv' /\ ServedInv'
  BY <1>1, <1>2, NextKeepsReadings, NextKeepsObjects
<1> QED
  BY <1>3, <1>4 DEF OutcomesInv

LEMMA AlwaysOutcomes == Spec => [](IInv /\ OutcomesInv)
BY AlwaysIInv, InitOutcomes, NextKeepsOutcomes, PTL DEF Spec

-----------------------------------------------------------------------------
(***************************************************************************)
(* What an update keeps.                                                   *)
(***************************************************************************)

\* A label that the user does not give stays, unless it has no value.
LEMMA LabelsKept ==
  ASSUME NEW given, NEW old, NEW k \in DOMAIN old, old[k] # "",
         given # Unset => k \notin DOMAIN given
  PROVE  /\ k \in DOMAIN MergedLabels(old, FilledLabels(given, old))
         /\ MergedLabels(old, FilledLabels(given, old))[k] = old[k]
<1>1. PICK labels : labels = FilledLabels(given, old)
  OBVIOUS
<1>2. k \in DOMAIN labels => labels[k] = old[k]
  BY <1>1 DEF FilledLabels
<1>3. PICK new : new = MergedLabels(old, labels)
  OBVIOUS
<1>4. k \in DOMAIN new /\ new[k] = old[k]
  BY <1>2, <1>3 DEF MergedLabels
<1> QED
  BY <1>1, <1>3, <1>4

LEMMA CatalogKept ==
  ASSUME NEW p \in Procs, NEW n \in Catalogs, NEW c, Accepted(n, c), job[p].opts.ignoreUnset
  PROVE  Keeps(p, c, UpdatedCatalog(job[p].opts, c))
<1>1. PICK o : o = job[p].opts /\ o.ignoreUnset
  OBVIOUS
<1>2. PICK d : d = CatalogDefaults(o, c)
  OBVIOUS
<1>3. PICK u : u = UpdatedCatalog(o, c)
  OBVIOUS
<1>4. /\ d.priority = Given(o.priority, c.priority) /\ d.poll = Given(o.poll, c.poll)
      /\ d.image = Filled(o.image, c.image) /\ d.mode = Filled(AvailabilityMode(o), c.mode)
      /\ d.labels = FilledLabels(o.labels, c.labels)
  BY <1>1, <1>2 DEF CatalogDefaults
<1>5. /\ u.priority = Given(d.priority, c.priority)
      /\ u.poll = IF d.poll \in {0, -1} THEN Unset ELSE Given(d.poll, c.poll)
      /\ u.image = Filled(d.image, c.image) /\ u.mode = Filled(d.mode, "Available")
      /\ u.labels = IF d.labels = Unset THEN c.labels ELSE MergedLabels(c.labels, d.labels)
  BY <1>2, <1>3 DEF UpdatedCatalog
<1>6. c.poll \notin {0, -1} /\ c.mode # "" /\ DOMAIN c = {"priority", "poll", "image", "mode", "labels"}
  BY DEF Accepted
<1>7. /\ o.priority # Unset \/ u.priority = c.priority
      /\ o.poll # Unset \/ u.poll = c.poll
      /\ o.image # "" \/ u.image = c.image
  BY <1>4, <1>5, <1>6 DEF Given, Filled
<1>8. o.available # "" \/ u.mode = c.mode
  BY <1>4, <1>5, <1>6 DEF Filled, AvailabilityMode
<1>9. ASSUME NEW f \in DOMAIN c \ {"labels"} PROVE IsGiven(f, o) \/ u[f] = c[f]
  BY <1>6, <1>7, <1>8 DEF IsGiven
<1>10. ASSUME NEW k \in DOMAIN c.labels, c.labels[k] # "", k \notin DOMAIN Given(o.labels, <<>>)
       PROVE  k \in DOMAIN u.labels /\ u.labels[k] = c.labels[k]
  <2>1. PICK old, given : old = c.labels /\ given = o.labels
    OBVIOUS
  <2>2. k \in DOMAIN old /\ old[k] # "" /\ (given # Unset => k \notin DOMAIN given)
    BY <1>10, <2>1 DEF Given
  <2>3. d.labels = Unset => old = Unset
    BY <1>4, <2>1 DEF FilledLabels
  <2>4. /\ k \in DOMAIN MergedLabels(old, FilledLabels(given, old))
        /\ MergedLabels(old, FilledLabels(given, old))[k] = old[k]
    BY <2>2, LabelsKept
  <2>5. u.labels = IF d.labels = Unset THEN old ELSE MergedLabels(old, FilledLabels(given, old))
    BY <1>4, <1>5, <2>1
  <2> QED
    BY <1>10, <2>1, <2>4, <2>5
<1> QED
  BY <1>1, <1>3, <1>9, <1>10 DEF Keeps

LEMMA ExtensionKept ==
  ASSUME NEW p \in Procs, NEW n \in Extensions, NEW e, Accepted(n, e), job[p].opts.ignoreUnset,
         e.safety # Unset
  PROVE  Keeps(p, e, UpdatedExtension(ExtensionDefaults(job[p].opts, e), e))
<1>1. PICK o : o = job[p].opts /\ o.ignoreUnset
  OBVIOUS
<1>2. PICK d : d = ExtensionDefaults(o, e)
  OBVIOUS
<1>3. PICK u : u = UpdatedExtension(d, e)
  OBVIOUS
<1>4. /\ DOMAIN d = {"version", "channels", "selector", "policy", "safety", "labels"}
      /\ d.version = Filled(o.version, e.version) /\ d.selector = Given(o.selector, e.selector)
      /\ d.channels = IF o.channels = <<>> THEN e.channels ELSE o.channels
      /\ d.policy = Filled(o.policy, e.policy)
      /\ d.safety = IF o.safety = "" /\ e.safety # Unset THEN e.safety ELSE o.safety
      /\ d.labels = FilledLabels(o.labels, e.labels)
  BY <1>1, <1>2 DEF ExtensionDefaults
<1>5. /\ u.labels = MergedLabels(e.labels, d.labels)
      /\ u.version = d.version /\ u.channels = d.channels /\ u.selector = d.selector
      /\ u.policy = d.policy /\ u.safety = d.safety
  BY <1>3, <1>4 DEF UpdatedExtension
<1>6. DOMAIN e = {"version", "channels", "selector", "policy", "safety", "labels"}
  BY NamesAreDisjoint DEF Accepted
<1>7. /\ o.version # "" \/ u.version = e.version
      /\ o.policy # "" \/ u.policy = e.policy
      /\ o.safety # "" \/ u.safety = e.safety
  BY <1>4, <1>5 DEF Filled
<1>8. /\ o.selector # Unset \/ u.selector = e.selector
      /\ o.channels # <<>> \/ u.channels = e.channels
  BY <1>4, <1>5 DEF Given
<1>9. ASSUME NEW f \in DOMAIN e \ {"labels"} PROVE IsGiven(f, o) \/ u[f] = e[f]
  BY <1>6, <1>7, <1>8 DEF IsGiven
<1>10. ASSUME NEW k \in DOMAIN e.labels, e.labels[k] # "", k \notin DOMAIN Given(o.labels, <<>>)
       PROVE  k \in DOMAIN u.labels /\ u.labels[k] = e.labels[k]
  <2>1. PICK old, given : old = e.labels /\ given = o.labels
    OBVIOUS
  <2>2. k \in DOMAIN old /\ old[k] # "" /\ (given # Unset => k \notin DOMAIN given)
    BY <1>10, <2>1 DEF Given
  <2>3. /\ k \in DOMAIN MergedLabels(old, FilledLabels(given, old))
        /\ MergedLabels(old, FilledLabels(given, old))[k] = old[k]
    BY <2>2, LabelsKept
  <2> QED
    BY <1>4, <1>5, <2>1, <2>3
<1> QED
  BY <1>1, <1>2, <1>3, <1>9, <1>10 DEF Keeps

\* A step that takes a run past its update is the run's own, and writes what
\* the run has made of the spec that is there.
LEMMA UpdateWritesChanged ==
  ASSUME IInv, OutcomesInv, [Next]_allVars, NEW p \in Procs, pc[p] = "Update", pc'[p] # "Update",
         objs'[at[p]] # objs[at[p]]
  PROVE  Edits1(p) /\ at[p] \in Names /\ objs'[at[p]].spec = ChangedSpec(p)
<1>1. at[p] \in Names
  BY UpdatingRun DEF OutcomesInv
<1>2. Command(p) \/ CallFails(p) \/ AnswerLost(p)
  <2>1. ~Aside(p)
    BY DEF Aside
  <2> QED
    BY <2>1, StepAside, OthersAside DEF Next
<1>3. Edits1(p)
  BY <1>2, StepWrites DEF Writes, Makes1
<1>4. PICK o : o = [objs[at[p]] EXCEPT !.spec = ChangedSpec(p)]
  OBVIOUS
<1>5. o.spec = ChangedSpec(p)
  BY <1>1, <1>4 DEF IInv, ObjectsInv, IsObject
<1>6. objs'[at[p]] = o
  BY <1>1, <1>3, <1>4, PutOne DEF Edits1
<1> QED
  BY <1>1, <1>3, <1>5, <1>6

LEMMA StepKeepsOthers ==
  ASSUME IInv, OutcomesInv, [Next]_allVars, NEW p \in Procs, pc[p] = "Update", pc'[p] # "Update",
         job[p].opts.ignoreUnset, Exists(at[p]), objs'[at[p]] # objs[at[p]]
  PROVE  Keeps(p, objs[at[p]].spec, objs'[at[p]].spec)
<1>1. Edits1(p) /\ at[p] \in Names /\ objs'[at[p]].spec = ChangedSpec(p)
  BY UpdateWritesChanged
<1>2. /\ job[p].kind \in Updating /\ read[p] = objs[at[p]].spec
      /\ job[p].kind = "upgrade" => read[p].safety # Unset /\ at[p] \in Extensions
      /\ job[p].kind = "update" => at[p] \in Catalogs
      /\ Accepted(at[p], read[p])
  BY <1>1, UpdatingRun DEF Edits1, OutcomesInv, SpecInv
<1>3. CASE job[p].kind = "update"
  <2>1. ChangedSpec(p) = UpdatedCatalog(job[p].opts, read[p])
    BY <1>3 DEF ChangedSpec
  <2> QED
    BY <1>1, <1>2, <1>3, <2>1, CatalogKept
<1>4. CASE job[p].kind = "upgrade"
  <2>1. ChangedSpec(p) = UpdatedExtension(ExtensionDefaults(job[p].opts, read[p]), read[p])
    BY <1>4 DEF ChangedSpec, Wanted
  <2> QED
    BY <1>1, <1>2, <1>4, <2>1, ExtensionKept
<1> QED
  BY <1>2, <1>3, <1>4 DEF Updating

-----------------------------------------------------------------------------
(***************************************************************************)
(* The theorems.                                                           *)
(***************************************************************************)

\* Whatever calls fail, whatever answers are lost and whatever others delete and
\* create meanwhile, `delete catalog`, `delete extension` (of one or of --all)
\* and `catalog remove` account for each object that they were to delete, once,
\* in what Run returns, and no object that it lists as deleted is there any more.
THEOREM DeletionsAccount == Spec => []DeleteAccountsForAll
<1>1. OutcomesInv => DeleteAccountsForAll
  BY DEF OutcomesInv, DeletionInv, Deletion, Deleting, DeleteAccountsForAll
<1> QED
  BY <1>1, AlwaysOutcomes, PTL

\* `install extension` reports success only of an extension that the controller
\* has installed, at the version asked for as long as nobody edits the spec,
\* whatever catalogs come, go and change what they serve.
THEOREM InstallsAreAsked == Spec => []InstalledAsAsked
<1>1. IInv /\ OutcomesInv => InstalledAsAsked
  <2> SUFFICES ASSUME IInv, OutcomesInv, NEW p \in Procs, job[p].kind = "install", pc[p] = "Done",
                      mine[p] # 0, Exists(job[p].name), objs[job[p].name].uid = mine[p]
               PROVE  SeenInstalled(p)
    BY DEF InstalledAsAsked, SeenInstalled
  <2>1. job[p].name \in Names
    BY DEF IInv, ControlInv, Control, Creating
  <2> QED
    BY <2>1 DEF OutcomesInv, InstallInv, Installing
<1> QED
  BY <1>1, AlwaysOutcomes, PTL

\* With --ignore-unset, `update catalog` and `update extension` write no field
\* and no label that the user did not give other than as it is at the moment of
\* the write, whoever has written it since the command read the object.
THEOREM UpdatesKeepOthers == Spec => UpdateKeepsOthers
<1>1. IInv /\ OutcomesInv /\ [Next]_allVars =>
        [\A p \in Procs : pc[p] = "Update" /\ pc'[p] # "Update" /\ job[p].opts.ignoreUnset =>
           LET n == at[p] IN
           Exists(n) /\ objs'[n] # objs[n] => Keeps(p, objs[n].spec, objs'[n].spec)]_allVars
  BY StepKeepsOthers
<1> QED
  BY <1>1, AlwaysOutcomes, PTL DEF Spec, UpdateKeepsOthers

=============================================================================
